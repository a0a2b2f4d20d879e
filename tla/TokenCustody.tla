---------------------------- MODULE TokenCustody -----------------------------
(***************************************************************************)
(* What SmartX promises about the refresh tokens of one X user, whatever   *)
(* workers, reconnections and disconnections do.  A token has a place: X   *)
(* has not given it out, a handler carries it, it is stored, or it is      *)
(* behind.  It moves forward only.  Only a token that was read from the    *)
(* table is exchanged, and the successor of the stored one is carried by a *)
(* handler until it is stored: if a handler drops it, the stored token     *)
(* counts as lost, unless another token has been stored in between.  Bots  *)
(* post for a connected account only.                                      *)
(***************************************************************************)
CONSTANTS Tokens, NoToken

VARIABLES
  issued,    \* tokens X has given out
  accepted,  \* refresh tokens X accepts
  replaced,  \* refresh tokens X has exchanged for a successor
  withdrawn, \* refresh tokens the user or X has withdrawn
  lost,      \* exchanged tokens whose successor was dropped
  stored,    \* the refresh token in the table, NoToken: not connected
  read,      \* tokens that handlers have read from the table
  granted,   \* tokens of new authorizations that handlers carry
  renewals,  \* pairs of an exchanged token and the successor that is carried
  serving    \* does a bot post for the account?

custodyVars ==
  <<issued, accepted, replaced, withdrawn, lost, stored, read, granted, renewals,
    serving>>

CustodyInit ==
  /\ issued = {} /\ accepted = {} /\ replaced = {} /\ withdrawn = {} /\ lost = {}
  /\ stored = NoToken
  /\ read = {} /\ granted = {} /\ renewals = {}
  /\ serving = FALSE

(* An authorization; X may withdraw what it gave out before.               *)
Grant(n, old) ==
  /\ issued' = issued \cup {n}
  /\ accepted' = (accepted \ old) \cup {n}
  /\ withdrawn' = withdrawn \cup old
  /\ granted' = granted \cup {n}
  /\ UNCHANGED <<replaced, lost, stored, read, renewals, serving>>

Withdraw ==
  /\ accepted' = {}
  /\ withdrawn' = withdrawn \cup accepted
  /\ UNCHANGED <<issued, replaced, lost, stored, read, granted, renewals, serving>>

(* Handlers read the token, or forget one they have read.                  *)
Read ==
  /\ read' \subseteq read \cup ({stored} \ {NoToken})
  /\ UNCHANGED <<issued, accepted, replaced, withdrawn, lost, stored, granted, renewals, serving>>

(* X exchanges a token it accepts.                                         *)
Exchange(t, n) ==
  /\ issued' = issued \cup {n}
  /\ accepted' = (accepted \ {t}) \cup {n}
  /\ replaced' = replaced \cup {t}
  /\ UNCHANGED <<withdrawn, stored, granted, serving>>

Renew(t, n) ==
  /\ Exchange(t, n)
  /\ renewals' = renewals \cup {<<t, n>>}
  /\ UNCHANGED <<lost, read>>

(* The successor never arrives.                                            *)
RenewLost(t, n) ==
  /\ Exchange(t, n)
  /\ lost' = lost \cup {t}
  /\ read' \subseteq read
  /\ UNCHANGED renewals

(* X answers with an access token and lets the refresh token stand.        *)
LetStand(n) ==
  /\ issued' = issued \cup {n}
  /\ UNCHANGED <<accepted, replaced, withdrawn, lost, stored, read, granted, renewals, serving>>

(* A reconnection overwrites whatever is stored.                           *)
Install(n) ==
  /\ stored' = n
  /\ granted' = granted \ {n}
  /\ UNCHANGED <<issued, accepted, replaced, withdrawn, lost, read, renewals, serving>>

(* A successor does not connect again who has disconnected.                *)
Succeed(r) ==
  /\ stored # NoToken
  /\ stored' = r[2]
  /\ renewals' = renewals \ {r}
  /\ UNCHANGED <<issued, accepted, replaced, withdrawn, lost, read, granted, serving>>

Drop(r) ==
  /\ renewals' = renewals \ {r}
  /\ \/ lost' = lost \cup {r[1]}
     \/ stored # r[1] /\ UNCHANGED lost
  /\ read' \subseteq read
  /\ UNCHANGED <<issued, accepted, replaced, withdrawn, stored, granted, serving>>

DropGrant(n) ==
  /\ granted' = granted \ {n}
  /\ UNCHANGED <<issued, accepted, replaced, withdrawn, lost, stored, read, renewals, serving>>

Disconnect ==
  /\ stored # NoToken
  /\ stored' = NoToken
  /\ serving' = FALSE
  /\ UNCHANGED <<issued, accepted, replaced, withdrawn, lost, read, granted, renewals>>

(* The row and the link go together, and no link outlives the row.         *)
Link ==
  /\ serving' \in {stored # NoToken, FALSE}
  /\ UNCHANGED <<issued, accepted, replaced, withdrawn, lost, stored, read, granted, renewals>>

CustodyNext ==
  \/ Withdraw \/ Read \/ Link \/ Disconnect
  \/ \E n \in Tokens \ issued : Grant(n, {}) \/ Grant(n, accepted) \/ LetStand(n)
  \/ \E t \in accepted \cap read, n \in Tokens \ issued : Renew(t, n) \/ RenewLost(t, n)
  \/ \E r \in renewals : Succeed(r) \/ Drop(r)
  \/ \E n \in granted : Install(n) \/ DropGrant(n)

CustodySpec == CustodyInit /\ [][CustodyNext]_custodyVars
=============================================================================
