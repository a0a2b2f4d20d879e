----------------------------- MODULE AuthLinks -----------------------------
(***************************************************************************)
(* The account of one email address: registration, the links that are      *)
(* mailed to verify the address or to set a new password (AuthService,     *)
(* MailService), and the pages that call them.  Login and tokens are the   *)
(* subject of WebSession.                                                  *)
(*                                                                         *)
(* A page disables its button while its request is under way, so it has at *)
(* most one.  A request reads first and writes later: between the two,     *)
(* where passwords are hashed, other requests run.                         *)
(***************************************************************************)
EXTENDS Naturals, FiniteSets

CONSTANTS
  Pages,         \* pages that are open at the same time
  Links,         \* rows of auth_tokens
  Passwords,
  NoPassword,    \* there is no user yet, or nothing was typed
  NoLink,        \* this page was not opened by a link
  MaxLinkFaults  \* bound: requests that die and answers that are lost

ASSUME LinksAssumption ==
  /\ IsFiniteSet(Pages)
  /\ NoPassword \notin Passwords
  /\ NoLink \notin Links
  /\ MaxLinkFaults \in Nat

VARIABLES
  password,    \* users.password_hash, or NoPassword while there is no user
  verified,    \* users.email_verified
  kind,        \* auth_tokens.type
  used,        \* links whose used_at is set
  expired,     \* links whose expires_at is over
  mailed,      \* links that have reached the mailbox
  screen,      \* what a page is
  at,          \* the form is open, the next statement of its request, or done
  link,        \* the link a page was opened with, or its request has created
  typed,       \* the password in the request
  background,  \* a verification link that register does not wait for
  created,     \* observer: users that were created
  uses,        \* observer: how often a link has taken effect
  linkFaults

rows == <<password, verified, kind, used, expired>>
forms == <<screen, at, link, typed>>
linksVars == <<password, verified, kind, used, expired, mailed, screen, at, link,
               typed, background, created, uses, linkFaults>>

Screens == {"closed", "register", "forgot", "reset", "verify", "settings"}
Points == {"open", "check", "write", "mail", "done"}

LinksTypeOK ==
  /\ password \in Passwords \cup {NoPassword}
  /\ verified \in BOOLEAN
  /\ kind \in [Links -> {"none", "verify", "reset"}]
  /\ used \subseteq Links /\ expired \subseteq Links /\ mailed \subseteq Links
  /\ screen \in [Pages -> Screens]
  /\ at \in [Pages -> Points]
  /\ link \in [Pages -> Links \cup {NoLink}]
  /\ typed \in [Pages -> Passwords \cup {NoPassword}]
  /\ background \in BOOLEAN
  /\ created \in Nat
  /\ uses \in [Links -> Nat]
  /\ linkFaults \in 0..MaxLinkFaults

LinksInit ==
  /\ password = NoPassword
  /\ verified = FALSE
  /\ kind = [l \in Links |-> "none"]
  /\ used = {} /\ expired = {} /\ mailed = {}
  /\ screen = [p \in Pages |-> "closed"]
  /\ at = [p \in Pages |-> "open"]
  /\ link = [p \in Pages |-> NoLink]
  /\ typed = [p \in Pages |-> NoPassword]
  /\ background = FALSE
  /\ created = 0
  /\ uses = [l \in Links |-> 0]
  /\ linkFaults = 0

Exists == password # NoPassword

-----------------------------------------------------------------------------
(* Pages.                                                                  *)

OpenAs(p, s, l, point) ==
  /\ screen[p] = "closed"
  /\ screen' = [screen EXCEPT ![p] = s]
  /\ link' = [link EXCEPT ![p] = l]
  /\ at' = [at EXCEPT ![p] = point]
  /\ UNCHANGED <<rows, mailed, typed, background, created, uses, linkFaults>>

OpenRegister(p) == OpenAs(p, "register", NoLink, "open")
OpenForgot(p) == OpenAs(p, "forgot", NoLink, "open")

(* The button of the settings is there while the user is not verified.     *)
OpenSettings(p) == Exists /\ ~verified /\ OpenAs(p, "settings", NoLink, "open")

OpenReset(p) ==
  \E l \in mailed : kind[l] = "reset" /\ OpenAs(p, "reset", l, "open")

(* The page sends its request as soon as it is mounted.                    *)
OpenVerify(p) ==
  \E l \in mailed : kind[l] = "verify" /\ OpenAs(p, "verify", l, "check")

Close(p) ==
  /\ screen[p] # "closed"
  /\ at[p] \in {"open", "done"}
  /\ screen' = [screen EXCEPT ![p] = "closed"]
  /\ at' = [at EXCEPT ![p] = "open"]
  /\ link' = [link EXCEPT ![p] = NoLink]
  /\ UNCHANGED <<rows, mailed, typed, background, created, uses, linkFaults>>

(* The two passwords of the form are the same: the request is sent.        *)
SubmitPassword(p) ==
  /\ screen[p] \in {"register", "reset"} /\ at[p] = "open"
  /\ at' = [at EXCEPT ![p] = "check"]
  /\ \E w \in Passwords : typed' = [typed EXCEPT ![p] = w]
  /\ UNCHANGED <<rows, mailed, screen, link, background, created, uses, linkFaults>>

(* The forms without a password.                                           *)
SubmitRequest(p) ==
  /\ screen[p] \in {"forgot", "settings"} /\ at[p] = "open"
  /\ at' = [at EXCEPT ![p] = "check"]
  /\ UNCHANGED <<rows, mailed, screen, link, typed, background, created, uses, linkFaults>>

(* "Try again" on the page that has sent a reset link.                     *)
TryAgain(p) ==
  /\ screen[p] = "forgot" /\ at[p] = "done"
  /\ at' = [at EXCEPT ![p] = "open"]
  /\ UNCHANGED <<rows, mailed, screen, link, typed, background, created, uses, linkFaults>>

-----------------------------------------------------------------------------
(* Requests.                                                               *)

(* The request goes on; a request that ends forgets what was typed.        *)
Proceed(p, point) ==
  /\ at' = [at EXCEPT ![p] = point]
  /\ typed' = [typed EXCEPT ![p] = IF point \in {"open", "done"} THEN NoPassword ELSE @]
  /\ UNCHANGED screen

(* An error leaves the form open; the page of a verification has no form.  *)
Refuse(p) == Proceed(p, IF screen[p] = "verify" THEN "done" ELSE "open")

Step(p, s, point) == screen[p] = s /\ at[p] = point

RegisterCheck(p) ==
  /\ Step(p, "register", "check")
  /\ IF Exists THEN Refuse(p) ELSE Proceed(p, "write")
  /\ UNCHANGED <<rows, mailed, link, background, created, uses, linkFaults>>

(* users.email is unique: the create of a second user throws.              *)
RegisterWrite(p) ==
  /\ Step(p, "register", "write")
  /\ IF Exists
     THEN Refuse(p) /\ UNCHANGED <<password, background, created>>
     ELSE /\ password' = typed[p]
          /\ background' = TRUE
          /\ created' = created + 1
          /\ Proceed(p, "done")
  /\ UNCHANGED <<verified, kind, used, expired, mailed, link, uses, linkFaults>>

NewLink(l, k) == kind[l] = "none" /\ kind' = [kind EXCEPT ![l] = k]

(* What register has not waited for: the row, then the mail, which may get *)
(* lost.                                                                   *)
SendVerification ==
  /\ background
  /\ background' = FALSE
  /\ \E l \in Links :
       /\ NewLink(l, "verify")
       /\ mailed' \in {mailed, mailed \cup {l}}
  /\ UNCHANGED <<password, verified, used, expired, forms, created, uses, linkFaults>>

(* Nobody catches its error: the process ends, and all requests with it.   *)
SendVerificationThrows ==
  /\ background
  /\ linkFaults < MaxLinkFaults
  /\ linkFaults' = linkFaults + 1
  /\ background' = FALSE
  /\ at' = [p \in Pages |-> IF at[p] \in {"open", "done"} THEN at[p]
                            ELSE IF screen[p] = "verify" THEN "done" ELSE "open"]
  /\ typed' = [p \in Pages |-> NoPassword]
  /\ link' = [p \in Pages |-> IF at[p] = "mail" THEN NoLink ELSE link[p]]
  /\ UNCHANGED <<rows, mailed, screen, created, uses>>

(* The answer does not tell whether there is a user.                       *)
ForgotCheck(p) ==
  /\ Step(p, "forgot", "check")
  /\ Proceed(p, IF Exists THEN "write" ELSE "done")
  /\ UNCHANGED <<rows, mailed, link, background, created, uses, linkFaults>>

ResendCheck(p) ==
  /\ Step(p, "settings", "check")
  /\ IF verified THEN Refuse(p) ELSE Proceed(p, "write")
  /\ UNCHANGED <<rows, mailed, link, background, created, uses, linkFaults>>

LinkType(s) == IF s = "forgot" THEN "reset" ELSE "verify"

CreateLink(p) ==
  /\ screen[p] \in {"forgot", "settings"} /\ at[p] = "write"
  /\ \E l \in Links :
       /\ NewLink(l, LinkType(screen[p]))
       /\ link' = [link EXCEPT ![p] = l]
  /\ Proceed(p, "mail")
  /\ UNCHANGED <<password, verified, used, expired, mailed, background, created,
                 uses, linkFaults>>

(* MailService logs its errors: the answer is the same when the mail fails.*)
SendMail(p) ==
  /\ at[p] = "mail"
  /\ mailed' \in {mailed, mailed \cup {link[p]}}
  /\ link' = [link EXCEPT ![p] = NoLink]
  /\ Proceed(p, IF screen[p] = "forgot" THEN "done" ELSE "open")
  /\ UNCHANGED <<rows, background, created, uses, linkFaults>>

Valid(l, k) == kind[l] = k /\ l \notin used /\ l \notin expired

CheckLink(p) ==
  /\ screen[p] \in {"reset", "verify"} /\ at[p] = "check"
  /\ IF Valid(link[p], screen[p]) THEN Proceed(p, "write") ELSE Refuse(p)
  /\ UNCHANGED <<rows, mailed, link, background, created, uses, linkFaults>>

(* Mutant of Use: the link is not marked.                                  *)
UseUnmarked(l) ==
  /\ uses' = [uses EXCEPT ![l] = @ + 1]
  /\ UNCHANGED used

(* The other half of the transaction: used_at.                             *)
Use(l) ==
  /\ uses' = [uses EXCEPT ![l] = @ + 1]
  /\ used' = used \cup {l}

(* Mutant of VerifyWrite: two statements, and the second one fails.        *)
VerifyHalf(p) ==
  /\ Step(p, "verify", "write")
  /\ verified' = TRUE
  /\ Proceed(p, "done")
  /\ UNCHANGED <<password, kind, used, uses, expired, mailed, link, background, created,
                 linkFaults>>

VerifyWrite(p) ==
  /\ Step(p, "verify", "write")
  /\ verified' = TRUE
  /\ Use(link[p])
  /\ Proceed(p, "done")
  /\ UNCHANGED <<password, kind, expired, mailed, link, background, created,
                 linkFaults>>

ResetWrite(p) ==
  /\ Step(p, "reset", "write")
  /\ password' = typed[p]
  /\ Use(link[p])
  /\ Proceed(p, "done")
  /\ UNCHANGED <<verified, kind, expired, mailed, link, background, created,
                 linkFaults>>

-----------------------------------------------------------------------------
Expire(l) ==
  /\ kind[l] # "none" /\ l \notin expired
  /\ expired' = expired \cup {l}
  /\ UNCHANGED <<password, verified, kind, used, mailed, forms, background, created,
                 uses, linkFaults>>

(* A statement fails, the process dies, or the answer does not arrive: the *)
(* page shows an error, whatever has been written.                         *)
RequestLost(p) ==
  /\ at[p] # "open" /\ linkFaults < MaxLinkFaults
  /\ linkFaults' = linkFaults + 1
  /\ Refuse(p)
  /\ link' = [link EXCEPT ![p] = IF at[p] = "mail" THEN NoLink ELSE @]
  /\ UNCHANGED <<rows, mailed, background, created, uses>>

PageStep(p) ==
  \/ OpenRegister(p) \/ OpenForgot(p) \/ OpenSettings(p) \/ OpenReset(p) \/ OpenVerify(p)
  \/ Close(p) \/ SubmitPassword(p) \/ SubmitRequest(p) \/ TryAgain(p)

RequestStep(p) ==
  \/ RegisterCheck(p) \/ RegisterWrite(p) \/ ForgotCheck(p) \/ ResendCheck(p)
  \/ CreateLink(p) \/ SendMail(p) \/ CheckLink(p) \/ VerifyWrite(p) \/ ResetWrite(p)
  \/ RequestLost(p)

LinksNext ==
  \/ \E p \in Pages : PageStep(p) \/ RequestStep(p)
  \/ SendVerification
  \/ SendVerificationThrows
  \/ \E l \in Links : Expire(l)

LinksSpec == LinksInit /\ [][LinksNext]_linksVars

-----------------------------------------------------------------------------
(* Check and use of a link are two steps, with the hashing of a password   *)
(* between them: a link takes effect at most once for each page that was   *)
(* open on it before, however many pages are opened on it afterwards.      *)
UsesBounded ==
  \A l \in Links : uses[l] <= Cardinality(Pages)

(* The address is verified exactly if one of its links has been used:      *)
(* requests that die half-way and answers that are lost included.          *)
VerifiedByLink ==
  verified <=> \E l \in used : kind[l] = "verify"

(* However many registrations pass the check together, one creates a user. *)
RegisteredOnce == created <= 1
=============================================================================
