-------------------------- MODULE AuthLinks_proofs --------------------------
(***************************************************************************)
(* For any number of pages, links and faults: a link takes effect no more  *)
(* often than pages were open on it, the address is verified exactly by    *)
(* its links, and registration creates one user.                           *)
(***************************************************************************)
EXTENDS AuthLinks, FiniteSetTheorems, TLAPS

USE LinksAssumption

(* What a page shows fits its request: the link, its type, the password.   *)
Shape ==
  /\ \A p \in Pages :
       /\ screen[p] = "closed" => at[p] = "open"
       /\ at[p] = "mail" => screen[p] \in {"forgot", "settings"} /\ link[p] \in Links
       /\ screen[p] \in {"reset", "verify"} =>
            link[p] \in Links /\ kind[link[p]] = screen[p]
       /\ screen[p] \in {"register", "reset"} /\ at[p] \in {"check", "write"} =>
            typed[p] \in Passwords
       /\ screen[p] = "forgot" /\ at[p] \in {"write", "mail"} => Exists
  /\ \A l \in Links : /\ kind[l] = "reset" => Exists
                      /\ l \in used => kind[l] # "none"

(* Pages that have checked a link and are about to use it.                 *)
Holders(l) ==
  {p \in Pages : screen[p] \in {"reset", "verify"} /\ at[p] = "write" /\ link[p] = l}

(* A link that has been used is left to the pages that had checked it.     *)
Shared ==
  \A l \in Links :
    /\ l \notin used => uses[l] = 0
    /\ l \in used => uses[l] + Cardinality(Holders(l)) <= Cardinality(Pages)

Counted == created = IF Exists THEN 1 ELSE 0

Inv == LinksTypeOK /\ Shape /\ Shared /\ VerifiedByLink /\ Counted

LEMMA TypeStep ==
  ASSUME LinksTypeOK, Shape, [LinksNext]_linksVars
  PROVE  LinksTypeOK'
<1> USE DEF LinksTypeOK, Screens, Points
<1>1. ASSUME NEW p \in Pages, OpenRegister(p) PROVE LinksTypeOK'
  BY <1>1 DEF OpenRegister, OpenAs, rows, forms, Shape
<1>2. ASSUME NEW p \in Pages, OpenForgot(p) PROVE LinksTypeOK'
  BY <1>2 DEF OpenForgot, OpenAs, rows, forms, Shape
<1>3. ASSUME NEW p \in Pages, OpenSettings(p) PROVE LinksTypeOK'
  BY <1>3 DEF OpenSettings, OpenAs, rows, forms, Shape
<1>4. ASSUME NEW p \in Pages, OpenReset(p) PROVE LinksTypeOK'
  BY <1>4 DEF OpenReset, OpenAs, rows, forms, Shape
<1>5. ASSUME NEW p \in Pages, OpenVerify(p) PROVE LinksTypeOK'
  BY <1>5 DEF OpenVerify, OpenAs, rows, forms, Shape
<1>6. ASSUME NEW p \in Pages, Close(p) PROVE LinksTypeOK'
  BY <1>6 DEF Close, rows, forms, Shape
<1>7. ASSUME NEW p \in Pages, SubmitPassword(p) PROVE LinksTypeOK'
  BY <1>7 DEF SubmitPassword, rows, forms, Shape
<1>8. ASSUME NEW p \in Pages, SubmitRequest(p) PROVE LinksTypeOK'
  BY <1>8 DEF SubmitRequest, rows, forms, Shape
<1>9. ASSUME NEW p \in Pages, TryAgain(p) PROVE LinksTypeOK'
  BY <1>9 DEF TryAgain, rows, forms, Shape
<1>10. ASSUME NEW p \in Pages, RegisterCheck(p) PROVE LinksTypeOK'
  BY <1>10 DEF RegisterCheck, Step, Refuse, Proceed, rows, forms, Shape
<1>11. ASSUME NEW p \in Pages, RegisterWrite(p) PROVE LinksTypeOK'
  <2>1. CASE Exists
    BY <1>11, <2>1 DEF RegisterWrite, Step, Refuse, Proceed
  <2>2. CASE ~Exists
    <3>1. password' \in Passwords \cup {NoPassword} /\ background' \in BOOLEAN
          /\ created' \in Nat
      BY <1>11, <2>2 DEF RegisterWrite
    <3>2. /\ at' \in [Pages -> Points] /\ typed' \in [Pages -> Passwords \cup {NoPassword}]
          /\ screen' = screen
      BY <1>11, <2>2 DEF RegisterWrite, Proceed
    <3> QED
      BY <1>11, <3>1, <3>2 DEF RegisterWrite
  <2> QED
    BY <2>1, <2>2
<1>12. ASSUME NEW p \in Pages, ForgotCheck(p) PROVE LinksTypeOK'
  BY <1>12 DEF ForgotCheck, Step, Proceed, rows, forms, Shape
<1>13. ASSUME NEW p \in Pages, ResendCheck(p) PROVE LinksTypeOK'
  BY <1>13 DEF ResendCheck, Step, Refuse, Proceed, rows, forms, Shape
<1>14. ASSUME NEW p \in Pages, CreateLink(p) PROVE LinksTypeOK'
  BY <1>14 DEF CreateLink, NewLink, LinkType, Proceed, rows, forms, Shape
<1>15. ASSUME NEW p \in Pages, SendMail(p) PROVE LinksTypeOK'
  BY <1>15 DEF SendMail, Proceed, rows, forms, Shape
<1>16. ASSUME NEW p \in Pages, CheckLink(p) PROVE LinksTypeOK'
  BY <1>16 DEF CheckLink, Valid, Refuse, Proceed, rows, forms, Shape
<1>17. ASSUME NEW p \in Pages, VerifyWrite(p) PROVE LinksTypeOK'
  BY <1>17 DEF VerifyWrite, Step, Use, Proceed, rows, forms, Shape
<1>18. ASSUME NEW p \in Pages, ResetWrite(p) PROVE LinksTypeOK'
  BY <1>18 DEF ResetWrite, Step, Use, Proceed, rows, forms, Shape
<1>19. ASSUME NEW p \in Pages, RequestLost(p) PROVE LinksTypeOK'
  BY <1>19 DEF RequestLost, Refuse, Proceed, rows, forms, Shape
<1>20. ASSUME SendVerification PROVE LinksTypeOK'
  <2>1. PICK l \in Links : /\ NewLink(l, "verify")
                           /\ mailed' \in {mailed, mailed \cup {l}}
    BY <1>20 DEF SendVerification
  <2>2. mailed' \subseteq Links
    BY <2>1
  <2>3. kind' \in [Links -> {"none", "verify", "reset"}]
    BY <2>1 DEF NewLink
  <2> QED
    BY <1>20, <2>2, <2>3 DEF SendVerification, forms
<1>21. ASSUME SendVerificationThrows PROVE LinksTypeOK'
  <2>1. at' \in [Pages -> Points]
    BY <1>21 DEF SendVerificationThrows
  <2>2. /\ typed' \in [Pages -> Passwords \cup {NoPassword}]
        /\ link' \in [Pages -> Links \cup {NoLink}]
    BY <1>21 DEF SendVerificationThrows
  <2>3. linkFaults' \in 0..MaxLinkFaults
    BY <1>21 DEF SendVerificationThrows
  <2> QED
    BY <1>21, <2>1, <2>2, <2>3 DEF SendVerificationThrows, rows
<1>22. ASSUME NEW l \in Links, Expire(l) PROVE LinksTypeOK'
  BY <1>22 DEF Expire, rows, forms, Shape
<1>23. CASE UNCHANGED linksVars
  BY <1>23 DEF linksVars, rows, forms, Shape
<1> QED
  BY <1>1, <1>2, <1>3, <1>4, <1>5, <1>6, <1>7, <1>8, <1>9, <1>10, <1>11, <1>12, <1>13, <1>14, <1>15, <1>16, <1>17, <1>18, <1>19, <1>20, <1>21, <1>22, <1>23
     DEF LinksNext, PageStep, RequestStep

LEMMA ShapeStep ==
  ASSUME LinksTypeOK, Shape, [LinksNext]_linksVars
  PROVE  Shape'
<1> USE DEF LinksTypeOK, Screens, Points, Exists
<1>1. ASSUME NEW p \in Pages, OpenRegister(p) PROVE Shape'
  BY <1>1 DEF OpenRegister, OpenAs, rows, forms, Shape
<1>2. ASSUME NEW p \in Pages, OpenForgot(p) PROVE Shape'
  BY <1>2 DEF OpenForgot, OpenAs, rows, forms, Shape
<1>3. ASSUME NEW p \in Pages, OpenSettings(p) PROVE Shape'
  BY <1>3 DEF OpenSettings, OpenAs, rows, forms, Shape
<1>4. ASSUME NEW p \in Pages, OpenReset(p) PROVE Shape'
  BY <1>4 DEF OpenReset, OpenAs, rows, forms, Shape
<1>5. ASSUME NEW p \in Pages, OpenVerify(p) PROVE Shape'
  BY <1>5 DEF OpenVerify, OpenAs, rows, forms, Shape
<1>6. ASSUME NEW p \in Pages, Close(p) PROVE Shape'
  BY <1>6 DEF Close, rows, forms, Shape
<1>7. ASSUME NEW p \in Pages, SubmitPassword(p) PROVE Shape'
  BY <1>7 DEF SubmitPassword, rows, forms, Shape
<1>8. ASSUME NEW p \in Pages, SubmitRequest(p) PROVE Shape'
  BY <1>8 DEF SubmitRequest, rows, forms, Shape
<1>9. ASSUME NEW p \in Pages, TryAgain(p) PROVE Shape'
  BY <1>9 DEF TryAgain, rows, forms, Shape
<1>10. ASSUME NEW p \in Pages, RegisterCheck(p) PROVE Shape'
  BY <1>10 DEF RegisterCheck, Step, Refuse, Proceed, rows, forms, Shape
<1>11. ASSUME NEW p \in Pages, RegisterWrite(p) PROVE Shape'
  BY <1>11 DEF RegisterWrite, Step, Refuse, Proceed, rows, forms, Shape
<1>12. ASSUME NEW p \in Pages, ForgotCheck(p) PROVE Shape'
  BY <1>12 DEF ForgotCheck, Step, Proceed, rows, forms, Shape
<1>13. ASSUME NEW p \in Pages, ResendCheck(p) PROVE Shape'
  BY <1>13 DEF ResendCheck, Step, Refuse, Proceed, rows, forms, Shape
<1>14. ASSUME NEW p \in Pages, CreateLink(p) PROVE Shape'
  BY <1>14 DEF CreateLink, NewLink, LinkType, Proceed, rows, forms, Shape
<1>15. ASSUME NEW p \in Pages, SendMail(p) PROVE Shape'
  BY <1>15 DEF SendMail, Proceed, rows, forms, Shape
<1>16. ASSUME NEW p \in Pages, CheckLink(p) PROVE Shape'
  BY <1>16 DEF CheckLink, Valid, Refuse, Proceed, rows, forms, Shape
<1>17. ASSUME NEW p \in Pages, VerifyWrite(p) PROVE Shape'
  BY <1>17 DEF VerifyWrite, Step, Use, Proceed, rows, forms, Shape
<1>18. ASSUME NEW p \in Pages, ResetWrite(p) PROVE Shape'
  BY <1>18 DEF ResetWrite, Step, Use, Proceed, rows, forms, Shape
<1>19. ASSUME NEW p \in Pages, RequestLost(p) PROVE Shape'
  BY <1>19 DEF RequestLost, Refuse, Proceed, rows, forms, Shape
<1>20. ASSUME SendVerification PROVE Shape'
  BY <1>20 DEF SendVerification, NewLink, rows, forms, Shape
<1>21. ASSUME SendVerificationThrows PROVE Shape'
  BY <1>21 DEF SendVerificationThrows, rows, forms, Shape
<1>22. ASSUME NEW l \in Links, Expire(l) PROVE Shape'
  BY <1>22 DEF Expire, rows, forms, Shape
<1>23. CASE UNCHANGED linksVars
  BY <1>23 DEF linksVars, rows, forms, Shape
<1> QED
  BY <1>1, <1>2, <1>3, <1>4, <1>5, <1>6, <1>7, <1>8, <1>9, <1>10, <1>11, <1>12, <1>13, <1>14, <1>15, <1>16, <1>17, <1>18, <1>19, <1>20, <1>21, <1>22, <1>23
     DEF LinksNext, PageStep, RequestStep

LEMMA VerifiedStep ==
  ASSUME LinksTypeOK, Shape, VerifiedByLink, [LinksNext]_linksVars
  PROVE  VerifiedByLink'
<1> USE DEF LinksTypeOK
<1>1. ASSUME NEW p \in Pages, OpenRegister(p) PROVE VerifiedByLink'
  BY <1>1 DEF OpenRegister, OpenAs, rows, forms, Shape, VerifiedByLink
<1>2. ASSUME NEW p \in Pages, OpenForgot(p) PROVE VerifiedByLink'
  BY <1>2 DEF OpenForgot, OpenAs, rows, forms, Shape, VerifiedByLink
<1>3. ASSUME NEW p \in Pages, OpenSettings(p) PROVE VerifiedByLink'
  BY <1>3 DEF OpenSettings, OpenAs, rows, forms, Shape, VerifiedByLink
<1>4. ASSUME NEW p \in Pages, OpenReset(p) PROVE VerifiedByLink'
  BY <1>4 DEF OpenReset, OpenAs, rows, forms, Shape, VerifiedByLink
<1>5. ASSUME NEW p \in Pages, OpenVerify(p) PROVE VerifiedByLink'
  BY <1>5 DEF OpenVerify, OpenAs, rows, forms, Shape, VerifiedByLink
<1>6. ASSUME NEW p \in Pages, Close(p) PROVE VerifiedByLink'
  BY <1>6 DEF Close, rows, forms, Shape, VerifiedByLink
<1>7. ASSUME NEW p \in Pages, SubmitPassword(p) PROVE VerifiedByLink'
  BY <1>7 DEF SubmitPassword, rows, forms, Shape, VerifiedByLink
<1>8. ASSUME NEW p \in Pages, SubmitRequest(p) PROVE VerifiedByLink'
  BY <1>8 DEF SubmitRequest, rows, forms, Shape, VerifiedByLink
<1>9. ASSUME NEW p \in Pages, TryAgain(p) PROVE VerifiedByLink'
  BY <1>9 DEF TryAgain, rows, forms, Shape, VerifiedByLink
<1>10. ASSUME NEW p \in Pages, RegisterCheck(p) PROVE VerifiedByLink'
  BY <1>10 DEF RegisterCheck, Step, Refuse, Proceed, rows, forms, Shape, VerifiedByLink
<1>11. ASSUME NEW p \in Pages, RegisterWrite(p) PROVE VerifiedByLink'
  BY <1>11 DEF RegisterWrite, Step, Refuse, Proceed, rows, forms, Shape, VerifiedByLink
<1>12. ASSUME NEW p \in Pages, ForgotCheck(p) PROVE VerifiedByLink'
  BY <1>12 DEF ForgotCheck, Step, Proceed, rows, forms, Shape, VerifiedByLink
<1>13. ASSUME NEW p \in Pages, ResendCheck(p) PROVE VerifiedByLink'
  BY <1>13 DEF ResendCheck, Step, Refuse, Proceed, rows, forms, Shape, VerifiedByLink
<1>14. ASSUME NEW p \in Pages, CreateLink(p) PROVE VerifiedByLink'
  BY <1>14 DEF CreateLink, NewLink, LinkType, Proceed, rows, forms, Shape, VerifiedByLink
<1>15. ASSUME NEW p \in Pages, SendMail(p) PROVE VerifiedByLink'
  BY <1>15 DEF SendMail, Proceed, rows, forms, Shape, VerifiedByLink
<1>16. ASSUME NEW p \in Pages, CheckLink(p) PROVE VerifiedByLink'
  BY <1>16 DEF CheckLink, Valid, Refuse, Proceed, rows, forms, Shape, VerifiedByLink
<1>17. ASSUME NEW p \in Pages, VerifyWrite(p) PROVE VerifiedByLink'
  BY <1>17 DEF VerifyWrite, Step, Use, Proceed, rows, forms, Shape, VerifiedByLink
<1>18. ASSUME NEW p \in Pages, ResetWrite(p) PROVE VerifiedByLink'
  BY <1>18 DEF ResetWrite, Step, Use, Proceed, rows, forms, Shape, VerifiedByLink
<1>19. ASSUME NEW p \in Pages, RequestLost(p) PROVE VerifiedByLink'
  BY <1>19 DEF RequestLost, Refuse, Proceed, rows, forms, Shape, VerifiedByLink
<1>20. ASSUME SendVerification PROVE VerifiedByLink'
  BY <1>20 DEF SendVerification, NewLink, rows, forms, Shape, VerifiedByLink
<1>21. ASSUME SendVerificationThrows PROVE VerifiedByLink'
  BY <1>21 DEF SendVerificationThrows, rows, forms, Shape, VerifiedByLink
<1>22. ASSUME NEW l \in Links, Expire(l) PROVE VerifiedByLink'
  BY <1>22 DEF Expire, rows, forms, Shape, VerifiedByLink
<1>23. CASE UNCHANGED linksVars
  BY <1>23 DEF linksVars, rows, forms, Shape, VerifiedByLink
<1> QED
  BY <1>1, <1>2, <1>3, <1>4, <1>5, <1>6, <1>7, <1>8, <1>9, <1>10, <1>11, <1>12, <1>13, <1>14, <1>15, <1>16, <1>17, <1>18, <1>19, <1>20, <1>21, <1>22, <1>23
     DEF LinksNext, PageStep, RequestStep

LEMMA CountedStep ==
  ASSUME LinksTypeOK, Shape, Counted, [LinksNext]_linksVars
  PROVE  Counted'
<1> USE DEF LinksTypeOK, Exists
<1>1. ASSUME NEW p \in Pages, OpenRegister(p) PROVE Counted'
  BY <1>1 DEF OpenRegister, OpenAs, rows, forms, Shape, Counted
<1>2. ASSUME NEW p \in Pages, OpenForgot(p) PROVE Counted'
  BY <1>2 DEF OpenForgot, OpenAs, rows, forms, Shape, Counted
<1>3. ASSUME NEW p \in Pages, OpenSettings(p) PROVE Counted'
  BY <1>3 DEF OpenSettings, OpenAs, rows, forms, Shape, Counted
<1>4. ASSUME NEW p \in Pages, OpenReset(p) PROVE Counted'
  BY <1>4 DEF OpenReset, OpenAs, rows, forms, Shape, Counted
<1>5. ASSUME NEW p \in Pages, OpenVerify(p) PROVE Counted'
  BY <1>5 DEF OpenVerify, OpenAs, rows, forms, Shape, Counted
<1>6. ASSUME NEW p \in Pages, Close(p) PROVE Counted'
  BY <1>6 DEF Close, rows, forms, Shape, Counted
<1>7. ASSUME NEW p \in Pages, SubmitPassword(p) PROVE Counted'
  BY <1>7 DEF SubmitPassword, rows, forms, Shape, Counted
<1>8. ASSUME NEW p \in Pages, SubmitRequest(p) PROVE Counted'
  BY <1>8 DEF SubmitRequest, rows, forms, Shape, Counted
<1>9. ASSUME NEW p \in Pages, TryAgain(p) PROVE Counted'
  BY <1>9 DEF TryAgain, rows, forms, Shape, Counted
<1>10. ASSUME NEW p \in Pages, RegisterCheck(p) PROVE Counted'
  BY <1>10 DEF RegisterCheck, Step, Refuse, Proceed, rows, forms, Shape, Counted
<1>11. ASSUME NEW p \in Pages, RegisterWrite(p) PROVE Counted'
  BY <1>11 DEF RegisterWrite, Step, Refuse, Proceed, rows, forms, Shape, Counted
<1>12. ASSUME NEW p \in Pages, ForgotCheck(p) PROVE Counted'
  BY <1>12 DEF ForgotCheck, Step, Proceed, rows, forms, Shape, Counted
<1>13. ASSUME NEW p \in Pages, ResendCheck(p) PROVE Counted'
  BY <1>13 DEF ResendCheck, Step, Refuse, Proceed, rows, forms, Shape, Counted
<1>14. ASSUME NEW p \in Pages, CreateLink(p) PROVE Counted'
  BY <1>14 DEF CreateLink, NewLink, LinkType, Proceed, rows, forms, Shape, Counted
<1>15. ASSUME NEW p \in Pages, SendMail(p) PROVE Counted'
  BY <1>15 DEF SendMail, Proceed, rows, forms, Shape, Counted
<1>16. ASSUME NEW p \in Pages, CheckLink(p) PROVE Counted'
  BY <1>16 DEF CheckLink, Valid, Refuse, Proceed, rows, forms, Shape, Counted
<1>17. ASSUME NEW p \in Pages, VerifyWrite(p) PROVE Counted'
  BY <1>17 DEF VerifyWrite, Step, Use, Proceed, rows, forms, Shape, Counted
<1>18. ASSUME NEW p \in Pages, ResetWrite(p) PROVE Counted'
  BY <1>18 DEF ResetWrite, Step, Use, Proceed, rows, forms, Shape, Counted
<1>19. ASSUME NEW p \in Pages, RequestLost(p) PROVE Counted'
  BY <1>19 DEF RequestLost, Refuse, Proceed, rows, forms, Shape, Counted
<1>20. ASSUME SendVerification PROVE Counted'
  BY <1>20 DEF SendVerification, NewLink, rows, forms, Shape, Counted
<1>21. ASSUME SendVerificationThrows PROVE Counted'
  BY <1>21 DEF SendVerificationThrows, rows, forms, Shape, Counted
<1>22. ASSUME NEW l \in Links, Expire(l) PROVE Counted'
  BY <1>22 DEF Expire, rows, forms, Shape, Counted
<1>23. CASE UNCHANGED linksVars
  BY <1>23 DEF linksVars, rows, forms, Shape, Counted
<1> QED
  BY <1>1, <1>2, <1>3, <1>4, <1>5, <1>6, <1>7, <1>8, <1>9, <1>10, <1>11, <1>12, <1>13, <1>14, <1>15, <1>16, <1>17, <1>18, <1>19, <1>20, <1>21, <1>22, <1>23
     DEF LinksNext, PageStep, RequestStep

(* Steps that leave rows and uses, and let no page take hold of a link.    *)
LEMMA SharedKept ==
  ASSUME Shared, IsFiniteSet(Pages), used' = used, uses' = uses,
         LinksTypeOK,
         \A l \in Links : Holders(l)' \subseteq Holders(l)
  PROVE  Shared'
<1> SUFFICES ASSUME NEW l \in Links
             PROVE  /\ l \notin used' => uses'[l] = 0
                    /\ l \in used' =>
                         uses'[l] + Cardinality(Holders(l)') <= Cardinality(Pages)
  BY DEF Shared
<1>1. /\ IsFiniteSet(Holders(l)) /\ IsFiniteSet(Pages)
      /\ Holders(l)' \subseteq Holders(l)
  BY FS_Subset DEF Holders
<1>2. /\ Cardinality(Holders(l)') <= Cardinality(Holders(l))
      /\ Cardinality(Holders(l)') \in Nat /\ Cardinality(Holders(l)) \in Nat
      /\ Cardinality(Pages) \in Nat
  BY <1>1, FS_Subset, FS_CardinalityType
<1> QED
  BY <1>2 DEF Shared, LinksTypeOK

(* A page that uses its link lets go of it.                                *)
LEMMA SharedUsed ==
  ASSUME LinksTypeOK, Shape, Shared, NEW p \in Pages, NEW k \in Links,
         p \in Holders(k), Use(k),
         \A l \in Links : Holders(l)' \subseteq Holders(l) \ {p}
  PROVE  Shared'
<1> SUFFICES ASSUME NEW l \in Links
             PROVE  /\ l \notin used' => uses'[l] = 0
                    /\ l \in used' =>
                         uses'[l] + Cardinality(Holders(l)') <= Cardinality(Pages)
  BY DEF Shared
<1> USE DEF LinksTypeOK
<1>1. /\ IsFiniteSet(Holders(l)) /\ IsFiniteSet(Pages)
      /\ Cardinality(Holders(l)) \in Nat /\ Cardinality(Pages) \in Nat
      /\ Cardinality(Holders(l)) <= Cardinality(Pages)
  BY LinksAssumption, FS_Subset, FS_CardinalityType DEF Holders
<1>2. CASE l # k
  <2>1. Cardinality(Holders(l)') <= Cardinality(Holders(l)) /\ Cardinality(Holders(l)') \in Nat
    <3>1. Holders(l)' \subseteq Holders(l)
      OBVIOUS
    <3> QED
      BY <1>1, <3>1, FS_Subset, FS_CardinalityType
  <2> QED
    BY <1>1, <1>2, <2>1 DEF Shared, Use
<1>3. CASE l = k
  <2>1. /\ IsFiniteSet(Holders(l) \ {p})
        /\ Cardinality(Holders(l) \ {p}) = Cardinality(Holders(l)) - 1
    BY <1>1, <1>3, FS_RemoveElement
  <2>2. /\ Cardinality(Holders(l)') <= Cardinality(Holders(l)) - 1
        /\ Cardinality(Holders(l)') \in Nat
    <3>1. Holders(l)' \subseteq Holders(l) \ {p}
      OBVIOUS
    <3> QED
      BY <2>1, <3>1, FS_Subset, FS_CardinalityType
  <2> QED
    BY <1>1, <1>3, <2>2 DEF Shared, Use
<1> QED
  BY <1>2, <1>3

LEMMA SharedStep ==
  ASSUME LinksTypeOK, Shape, Shared, [LinksNext]_linksVars
  PROVE  Shared'
<1> DEFINE Same == /\ used' = used /\ uses' = uses
                   /\ \A l \in Links : Holders(l)' \subseteq Holders(l)
<1>1. Same => Shared'
  BY LinksAssumption, SharedKept
<1> USE DEF LinksTypeOK, Screens, Points
<1>2. ASSUME NEW p \in Pages, OpenRegister(p) PROVE Shared'
  BY <1>1, <1>2 DEF OpenRegister, OpenAs, rows, forms, Holders
<1>3. ASSUME NEW p \in Pages, OpenForgot(p) PROVE Shared'
  BY <1>1, <1>3 DEF OpenForgot, OpenAs, rows, forms, Holders
<1>4. ASSUME NEW p \in Pages, OpenSettings(p) PROVE Shared'
  BY <1>1, <1>4 DEF OpenSettings, OpenAs, rows, forms, Holders
<1>5. ASSUME NEW p \in Pages, OpenReset(p) PROVE Shared'
  BY <1>1, <1>5 DEF OpenReset, OpenAs, rows, forms, Holders
<1>6. ASSUME NEW p \in Pages, OpenVerify(p) PROVE Shared'
  BY <1>1, <1>6 DEF OpenVerify, OpenAs, rows, forms, Holders
<1>7. ASSUME NEW p \in Pages, Close(p) PROVE Shared'
  BY <1>1, <1>7 DEF Close, rows, forms, Holders
<1>8. ASSUME NEW p \in Pages, SubmitPassword(p) PROVE Shared'
  BY <1>1, <1>8 DEF SubmitPassword, rows, forms, Holders
<1>9. ASSUME NEW p \in Pages, SubmitRequest(p) PROVE Shared'
  BY <1>1, <1>9 DEF SubmitRequest, rows, forms, Holders
<1>10. ASSUME NEW p \in Pages, TryAgain(p) PROVE Shared'
  BY <1>1, <1>10 DEF TryAgain, rows, forms, Holders
<1>11. ASSUME NEW p \in Pages, RegisterCheck(p) PROVE Shared'
  BY <1>1, <1>11 DEF RegisterCheck, Step, Refuse, Proceed, rows, forms, Holders
<1>12. ASSUME NEW p \in Pages, RegisterWrite(p) PROVE Shared'
  BY <1>1, <1>12 DEF RegisterWrite, Step, Refuse, Proceed, rows, forms, Holders
<1>13. ASSUME NEW p \in Pages, ForgotCheck(p) PROVE Shared'
  BY <1>1, <1>13 DEF ForgotCheck, Step, Proceed, rows, forms, Holders
<1>14. ASSUME NEW p \in Pages, ResendCheck(p) PROVE Shared'
  BY <1>1, <1>14 DEF ResendCheck, Step, Refuse, Proceed, rows, forms, Holders
<1>15. ASSUME NEW p \in Pages, CreateLink(p) PROVE Shared'
  BY <1>1, <1>15 DEF CreateLink, NewLink, Proceed, rows, forms, Holders
<1>16. ASSUME NEW p \in Pages, SendMail(p) PROVE Shared'
  BY <1>1, <1>16 DEF SendMail, Proceed, rows, forms, Holders
<1>17. ASSUME NEW p \in Pages, CheckLink(p) PROVE Shared'
  <2>1. CASE ~Valid(link[p], screen[p])
    BY <1>1, <1>17, <2>1 DEF CheckLink, Refuse, Proceed, rows, Holders
  <2>2. CASE Valid(link[p], screen[p])
    <3>1. /\ link[p] \in Links /\ link[p] \notin used
          /\ used' = used /\ uses' = uses
          /\ \A l \in Links \ {link[p]} : Holders(l)' \subseteq Holders(l)
      BY <1>17, <2>2 DEF CheckLink, Valid, Proceed, rows, Holders, Shape
    <3> SUFFICES ASSUME NEW l \in Links, l \in used
                 PROVE  uses[l] + Cardinality(Holders(l)') <= Cardinality(Pages)
      BY <3>1 DEF Shared
    <3>2. /\ IsFiniteSet(Holders(l)) /\ Holders(l)' \subseteq Holders(l)
      BY <3>1, LinksAssumption, FS_Subset DEF Holders
    <3>3. /\ Cardinality(Holders(l)') <= Cardinality(Holders(l))
          /\ Cardinality(Holders(l)') \in Nat /\ Cardinality(Holders(l)) \in Nat
          /\ Cardinality(Pages) \in Nat
      BY <3>2, LinksAssumption, FS_Subset, FS_CardinalityType
    <3> QED
      BY <3>3 DEF Shared
  <2> QED
    BY <2>1, <2>2
<1>18. ASSUME NEW p \in Pages, VerifyWrite(p) PROVE Shared'
  <2>1. link[p] \in Links /\ p \in Holders(link[p]) /\ Use(link[p])
    BY <1>18 DEF VerifyWrite, Step, Shape, Holders
  <2>2. \A l \in Links : Holders(l)' \subseteq Holders(l) \ {p}
    BY <1>18 DEF VerifyWrite, Step, Proceed, Holders
  <2> QED
    BY <2>1, <2>2, SharedUsed
<1>19. ASSUME NEW p \in Pages, ResetWrite(p) PROVE Shared'
  <2>1. link[p] \in Links /\ p \in Holders(link[p]) /\ Use(link[p])
    BY <1>19 DEF ResetWrite, Step, Shape, Holders
  <2>2. \A l \in Links : Holders(l)' \subseteq Holders(l) \ {p}
    BY <1>19 DEF ResetWrite, Step, Proceed, Holders
  <2> QED
    BY <2>1, <2>2, SharedUsed
<1>20. ASSUME NEW p \in Pages, RequestLost(p) PROVE Shared'
  BY <1>1, <1>20 DEF RequestLost, Refuse, Proceed, rows, forms, Holders
<1>21. ASSUME SendVerification PROVE Shared'
  BY <1>1, <1>21 DEF SendVerification, NewLink, forms, Holders
<1>22. ASSUME SendVerificationThrows PROVE Shared'
  BY <1>1, <1>22 DEF SendVerificationThrows, rows, Holders
<1>23. ASSUME NEW l \in Links, Expire(l) PROVE Shared'
  BY <1>1, <1>23 DEF Expire, forms, Holders
<1>24. CASE UNCHANGED linksVars
  BY <1>1, <1>24 DEF linksVars, Holders
<1> QED
  BY <1>2, <1>3, <1>4, <1>5, <1>6, <1>7, <1>8, <1>9, <1>10, <1>11, <1>12, <1>13, <1>14, <1>15, <1>16, <1>17, <1>18, <1>19, <1>20, <1>21, <1>22, <1>23, <1>24
     DEF LinksNext, PageStep, RequestStep

LEMMA InitInv == LinksInit => Inv
<1> SUFFICES ASSUME LinksInit PROVE Inv
  OBVIOUS
<1> USE DEF LinksInit
<1>1. LinksTypeOK
  <2>1. /\ kind \in [Links -> {"none", "verify", "reset"}]
        /\ uses \in [Links -> Nat]
    OBVIOUS
  <2>2. /\ screen \in [Pages -> Screens] /\ at \in [Pages -> Points]
        /\ link \in [Pages -> Links \cup {NoLink}]
        /\ typed \in [Pages -> Passwords \cup {NoPassword}]
    BY DEF Screens, Points
  <2>3. created \in Nat /\ linkFaults \in 0..MaxLinkFaults
    BY SMT
  <2>4. /\ password \in Passwords \cup {NoPassword}
        /\ verified \in BOOLEAN /\ background \in BOOLEAN
        /\ used \subseteq Links /\ expired \subseteq Links /\ mailed \subseteq Links
    OBVIOUS
  <2> HIDE DEF LinksInit
  <2> QED
    BY <2>1, <2>2, <2>3, <2>4 DEF LinksTypeOK
<1>2. Shape /\ Shared /\ VerifiedByLink /\ Counted
  BY DEF Shape, Shared, VerifiedByLink, Counted, Exists
<1> QED
  BY <1>1, <1>2 DEF Inv

(* The inductive invariant holds in every reachable state.                 *)
THEOREM LinksInvariance == LinksSpec => []Inv
<1>1. Inv /\ [LinksNext]_linksVars => Inv'
  BY TypeStep, ShapeStep, SharedStep, VerifiedStep, CountedStep DEF Inv
<1> QED
  BY InitInv, <1>1, PTL DEF LinksSpec

(* Every variable of the account and its pages keeps its type.             *)
THEOREM LinksTypes == LinksSpec => []LinksTypeOK
<1>1. Inv => LinksTypeOK
  BY DEF Inv
<1> QED
  BY LinksInvariance, <1>1, PTL

(* However requests overlap, a link takes effect at most once for each     *)
(* page.                                                                   *)
THEOREM LinkUses == LinksSpec => []UsesBounded
<1>1. Inv => UsesBounded
  <2> SUFFICES ASSUME Inv, NEW l \in Links
               PROVE  uses[l] <= Cardinality(Pages)
    BY DEF UsesBounded
  <2>1. /\ Cardinality(Pages) \in Nat /\ Cardinality(Holders(l)) \in Nat
    BY LinksAssumption, FS_Subset, FS_CardinalityType DEF Holders
  <2> QED
    BY <2>1 DEF Inv, Shared, LinksTypeOK
<1> QED
  BY LinksInvariance, <1>1, PTL

(* The address is verified exactly if one of its links has been used.      *)
THEOREM Verification == LinksSpec => []VerifiedByLink
<1>1. Inv => VerifiedByLink
  BY DEF Inv
<1> QED
  BY LinksInvariance, <1>1, PTL

(* Registrations that pass the check together create one user.             *)
THEOREM Registration == LinksSpec => []RegisteredOnce
<1>1. Inv => RegisteredOnce
  BY DEF Inv, Counted, RegisteredOnce
<1> QED
  BY LinksInvariance, <1>1, PTL
=============================================================================
