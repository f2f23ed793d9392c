---------------------------- MODULE NamesProofs ----------------------------
(***************************************************************************)
(* Proofs about Names, for any number of buds, requests and names.         *)
(* NameInv is inductive; the two properties of the module follow from it.  *)
(***************************************************************************)
EXTENDS Names, TLAPS

LEMMA IdleType == Idle \in Local
  BY BoundsAssumption DEF Idle, Local

LEMMA InitInv == Init => NameInv
<1> SUFFICES ASSUME Init PROVE NameInv
  OBVIOUS
<1>1. TypeOK
  BY IdleType DEF Init, TypeOK, NoBud, BudRow
<1>2. \A r \in Reqs : Knows(r) /\ StillFree(r)
  BY DEF Init, Idle, Knows, StillFree, At
<1>3. \A b \in Ids : how[b] = "none"
  BY DEF Init
<1> QED BY <1>1, <1>2, <1>3 DEF NameInv, ChosenNamesDiffer

-----------------------------------------------------------------------------
(* A step of a request that writes no name *)

\* The locals change, and the request still knows its bud and what is free.
LEMMA LocalStep ==
  ASSUME NameInv, NEW r \in Reqs, NEW x \in Local, req' = [req EXCEPT ![r] = x],
         UNCHANGED <<bud, now, how>>,
         x.pc # "idle" =>
           /\ x.bud \in Ids /\ x.name \in Names
           /\ Exists(x.bud) /\ x.user = bud[x.bud].minter
           /\ x.began - bud[x.bud].created <= AllowedTime,
         x.undisturbed => \A b \in Ids : Exists(b) => bud[b].name # x.name
  PROVE  NameInv'
<1>1. /\ TypeOK /\ ChosenNamesDiffer /\ \A q \in Reqs : Knows(q) /\ StillFree(q)
      /\ \A b \in Ids : ~Exists(b) => how[b] = "none"
  BY DEF NameInv
<1>2. req' \in [Reqs -> Local] /\ \A q \in Reqs : req'[q] = IF q = r THEN x ELSE req[q]
  BY <1>1 DEF TypeOK
<1>3. TypeOK'
  BY <1>1, <1>2 DEF TypeOK
<1>4. ASSUME NEW q \in Reqs PROVE Knows(q)' /\ StillFree(q)'
  <2>1. CASE q = r
    BY <1>2, <2>1 DEF Knows, StillFree, At, Exists
  <2>2. CASE q # r
    BY <1>1, <1>2, <2>2 DEF Knows, StillFree, At, Exists
  <2> QED BY <2>1, <2>2
<1>5. ChosenNamesDiffer' /\ \A b \in Ids : ~Exists(b)' => how'[b] = "none"
  BY <1>1 DEF ChosenNamesDiffer, Exists
<1> QED BY <1>3, <1>4, <1>5 DEF NameInv

LEMMA ReplyStep ==
  ASSUME NameInv, NEW r \in Reqs, Reply(r), UNCHANGED <<bud, now, how>> PROVE NameInv'
<1>1. Idle.pc = "idle" /\ Idle.undisturbed = FALSE
  BY DEF Idle
<1> QED BY <1>1, IdleType, LocalStep DEF Reply

LEMMA RenameBeginStep ==
  ASSUME NameInv, NEW r \in Reqs, RenameBegin(r) PROVE NameInv'
<1>1. PICK b \in Ids, name \in Names, padded \in BOOLEAN :
        /\ Exists(b) /\ ~TooLate(b)
        /\ req' = [req EXCEPT ![r] =
                    [Idle EXCEPT !.pc = "count", !.user = bud[b].minter, !.bud = b,
                                 !.name = name, !.padded = padded, !.began = now]]
  BY Zenon DEF RenameBegin
<1>2. PICK x : x = [Idle EXCEPT !.pc = "count", !.user = bud[b].minter, !.bud = b,
                               !.name = name, !.padded = padded, !.began = now]
  OBVIOUS
<1>3. /\ bud[b] \in BudRow /\ now \in Nat /\ b \in 0..MaxBuds /\ MaxBuds \in Nat
      /\ AllowedTime \in Nat
  BY BoundsAssumption, TimeAssumption DEF NameInv, TypeOK, Ids
<1>4. /\ x \in Local
      /\ x.bud = b /\ x.name = name /\ x.user = bud[b].minter /\ x.began = now
      /\ x.undisturbed = FALSE
  BY <1>2, <1>3 DEF Local, Idle, BudRow
<1>5. now - bud[b].created <= AllowedTime
  BY <1>1, <1>3 DEF TooLate, BudRow
<1> QED BY <1>1, <1>2, <1>4, <1>5, LocalStep DEF RenameBegin

LEMMA CountNamesStep ==
  ASSUME NameInv, NEW r \in Reqs, CountNames(r) PROVE NameInv'
<1>1. CASE Taken(req[r].name, req[r].padded)
  BY <1>1, ReplyStep DEF CountNames
<1>2. CASE ~Taken(req[r].name, req[r].padded)
  <2>1. req[r] \in Local /\ req \in [Reqs -> Local] /\ Knows(r)
    BY DEF NameInv, TypeOK
  <2>2. PICK x : x = [req[r] EXCEPT !.pc = "ask", !.undisturbed = TRUE]
    OBVIOUS
  <2>3. /\ x \in Local /\ req' = [req EXCEPT ![r] = x]
        /\ x.bud = req[r].bud /\ x.name = req[r].name /\ x.user = req[r].user
        /\ x.began = req[r].began
    BY <1>2, <2>1, <2>2 DEF CountNames, Local
  <2>4. /\ x.bud \in Ids /\ x.name \in Names
        /\ Exists(x.bud) /\ x.user = bud[x.bud].minter
        /\ x.began - bud[x.bud].created <= AllowedTime
    BY <2>1, <2>3 DEF CountNames, Knows, At
  <2>5. \A b \in Ids : Exists(b) => bud[b].name # x.name
    BY <1>2, <2>3 DEF Taken
  <2>6. UNCHANGED <<bud, now, how>>
    BY DEF CountNames
  <2> QED BY <2>3, <2>4, <2>5, <2>6, LocalStep
<1> QED BY <1>1, <1>2

LEMMA AskApiStep ==
  ASSUME NameInv, NEW r \in Reqs, AskApi(r) PROVE NameInv'
<1>1. CASE Goto(r, "update")
  <2>1. req[r] \in Local /\ req \in [Reqs -> Local] /\ Knows(r) /\ StillFree(r)
    BY DEF NameInv, TypeOK
  <2>2. PICK x : x = [req[r] EXCEPT !.pc = "update"]
    OBVIOUS
  <2>3. /\ x \in Local /\ req' = [req EXCEPT ![r] = x]
        /\ x.bud = req[r].bud /\ x.name = req[r].name /\ x.user = req[r].user
        /\ x.began = req[r].began /\ x.undisturbed = req[r].undisturbed
    BY <1>1, <2>1, <2>2 DEF Goto, Local
  <2> QED BY <2>1, <2>3, LocalStep DEF AskApi, Knows, StillFree, At
<1>2. CASE Reply(r)
  BY <1>2, ReplyStep DEF AskApi
<1> QED BY <1>1, <1>2 DEF AskApi

-----------------------------------------------------------------------------
(* Steps that write a name *)

\* Disturb leaves a request all it has but the knowledge of what is free.
LEMMA Disturbed ==
  ASSUME NEW f \in [Reqs -> Local]
  PROVE  /\ Disturb(f) \in [Reqs -> Local]
         /\ \A q \in Reqs :
              /\ Disturb(f)[q].undisturbed = FALSE
              /\ Disturb(f)[q].pc = f[q].pc /\ Disturb(f)[q].bud = f[q].bud
              /\ Disturb(f)[q].name = f[q].name /\ Disturb(f)[q].user = f[q].user
              /\ Disturb(f)[q].began = f[q].began
  BY DEF Disturb, Local

LEMMA MintStep == ASSUME NameInv, Mint PROVE NameInv'
<1>1. PICK b \in Ids, u \in Users, name \in Drawn :
        /\ ~Exists(b)
        /\ bud' = [bud EXCEPT ![b] = [name |-> name, minter |-> u, created |-> now]]
        /\ how' = [how EXCEPT ![b] = "drawn"]
        /\ req' = Disturb(req) /\ now' = now
  BY DEF Mint
<1>2. TypeOK /\ ChosenNamesDiffer /\ \A q \in Reqs : Knows(q)
  BY DEF NameInv
<1>3. /\ bud \in [Ids -> BudRow] /\ req \in [Reqs -> Local] /\ now \in Nat
      /\ how \in [Ids -> {"none", "drawn", "chosen", "raced"}]
  BY <1>2 DEF TypeOK
<1>4. /\ req' \in [Reqs -> Local]
      /\ \A q \in Reqs : /\ req'[q].undisturbed = FALSE /\ req'[q].pc = req[q].pc
                         /\ req'[q].bud = req[q].bud /\ req'[q].name = req[q].name
                         /\ req'[q].user = req[q].user /\ req'[q].began = req[q].began
  BY <1>1, <1>3, Disturbed
<1>5. TypeOK'
  <2>1. [name |-> name, minter |-> u, created |-> now] \in BudRow
    BY <1>3, DrawnAssumption DEF BudRow
  <2> QED BY <1>1, <1>3, <1>4, <2>1 DEF TypeOK
<1>6. ASSUME NEW q \in Reqs PROVE Knows(q)' /\ StillFree(q)'
  <2>1. Exists(req[q].bud) => req[q].bud # b
    BY <1>1
  <2> QED BY <1>1, <1>2, <1>3, <1>4, <2>1 DEF Knows, StillFree, At, Exists
<1>7. \A c \in Ids : ~Exists(c)' => how'[c] = "none"
  <2>1. u # None
    BY NoneAssumption
  <2> QED BY <1>1, <1>3, <2>1 DEF NameInv, Exists
<1>8. ChosenNamesDiffer'
  BY <1>1, <1>2, <1>3 DEF ChosenNamesDiffer
<1> QED BY <1>5, <1>6, <1>7, <1>8 DEF NameInv

LEMMA UpdateStep ==
  ASSUME NameInv, NEW r \in Reqs, Update(r) PROVE NameInv'
<1> DEFINE b == req[r].bud
           origin == IF req[r].undisturbed THEN "chosen" ELSE "raced"
<1>1. TypeOK /\ ChosenNamesDiffer /\ \A q \in Reqs : Knows(q) /\ StillFree(q)
  BY DEF NameInv
<1>2. /\ bud \in [Ids -> BudRow] /\ req \in [Reqs -> Local] /\ now \in Nat
      /\ how \in [Ids -> {"none", "drawn", "chosen", "raced"}]
  BY <1>1 DEF TypeOK
<1>3. b \in Ids /\ req[r].name \in Names /\ Exists(b)
  BY <1>1 DEF Update, At, Knows
<1>4. /\ bud' = [bud EXCEPT ![b].name = req[r].name] /\ now' = now
      /\ how' = [how EXCEPT ![b] = origin]
      /\ req' = [Disturb(req) EXCEPT ![r] = Idle]
  BY DEF Update
<1>5. /\ req' \in [Reqs -> Local]
      /\ req'[r] = Idle
      /\ \A q \in Reqs \ {r} :
           /\ req'[q].undisturbed = FALSE /\ req'[q].pc = req[q].pc
           /\ req'[q].bud = req[q].bud /\ req'[q].name = req[q].name
           /\ req'[q].user = req[q].user /\ req'[q].began = req[q].began
  BY <1>2, <1>4, IdleType, Disturbed
<1>6. /\ bud' \in [Ids -> BudRow]
      /\ \A c \in Ids : /\ bud'[c].minter = bud[c].minter /\ bud'[c].created = bud[c].created
                        /\ bud'[c].name = IF c = b THEN req[r].name ELSE bud[c].name
  BY <1>2, <1>3, <1>4 DEF BudRow
<1>7. TypeOK'
  BY <1>2, <1>3, <1>4, <1>5, <1>6 DEF TypeOK
<1>8. ASSUME NEW q \in Reqs PROVE Knows(q)' /\ StillFree(q)'
  <2>1. CASE q = r
    BY <1>5, <2>1 DEF Knows, StillFree, At, Idle
  <2>2. CASE q # r
    BY <1>1, <1>5, <1>6, <2>2 DEF Knows, StillFree, At, Exists
  <2> QED BY <2>1, <2>2
<1>9. \A c \in Ids : ~Exists(c)' => how'[c] = "none"
  BY <1>2, <1>3, <1>4, <1>6 DEF NameInv, Exists
<1>10. ChosenNamesDiffer'
  <2> SUFFICES ASSUME NEW c \in Ids, NEW d \in Ids, c # d, how'[c] = "chosen", how'[d] = "chosen"
               PROVE  bud'[c].name # bud'[d].name
    BY DEF ChosenNamesDiffer
  <2>1. \A e \in Ids \ {b} : how'[e] = "chosen" => how[e] = "chosen" /\ Exists(e)
    BY <1>2, <1>3, <1>4 DEF NameInv
  <2>2. how'[b] = "chosen" => \A e \in Ids : Exists(e) => bud[e].name # req[r].name
    BY <1>1, <1>2, <1>3, <1>4 DEF StillFree
  <2> QED BY <1>1, <1>6, <2>1, <2>2 DEF ChosenNamesDiffer
<1> QED BY <1>7, <1>8, <1>9, <1>10 DEF NameInv

-----------------------------------------------------------------------------
(* The theorems *)

LEMMA FrameStep ==
  ASSUME NameInv, UNCHANGED <<bud, req, how>>, now' \in Nat PROVE NameInv'
  BY DEF NameInv, TypeOK, Knows, StillFree, ChosenNamesDiffer, Exists, At

LEMMA NextInv == NameInv /\ [Next]_vars => NameInv'
<1> SUFFICES ASSUME NameInv, [Next]_vars PROVE NameInv'
  OBVIOUS
<1>1. now \in Nat
  BY DEF NameInv, TypeOK
<1>2. ASSUME NEW r \in Reqs, Rename(r) PROVE NameInv'
  BY <1>2, RenameBeginStep, CountNamesStep, AskApiStep, UpdateStep DEF Rename
<1>3. ASSUME NEW r \in Reqs, Abort(r) PROVE NameInv'
  BY <1>3, ReplyStep DEF Abort
<1>4. CASE Tick
  BY <1>1, <1>4, FrameStep DEF Tick
<1>5. CASE UNCHANGED vars
  BY <1>1, <1>5, FrameStep DEF vars
<1> QED BY <1>2, <1>3, <1>4, <1>5, MintStep DEF Next, Refuse

\* The invariant holds in every behaviour, mints, failures and overlaps included.
THEOREM Invariance == Spec => []NameInv
  BY InitInv, NextInv, PTL DEF Spec

\* Names chosen by renames no mint and no other rename overtook differ, for any
\* number of buds and requests (BudController.rename, checkBudName).
THEOREM NamesDiffer == Spec => []ChosenNamesDiffer
<1>1. NameInv => ChosenNamesDiffer
  BY DEF NameInv
<1> QED BY <1>1, Invariance, PTL

\* One step changes the name of a bud only for its minter's request sent in time.
LEMMA SettlesStep ==
  ASSUME NameInv, [Next]_vars, NEW b \in Ids, Exists(b), bud'[b].name # bud[b].name
  PROVE  \E r \in Reqs : /\ req[r].bud = b /\ req[r].user = bud[b].minter /\ req'[r] = Idle
                         /\ req[r].began - bud[b].created <= AllowedTime
<1>1. TypeOK /\ \A q \in Reqs : Knows(q)
  BY DEF NameInv
<1>2. ~Mint
  <2>1. ASSUME Mint PROVE FALSE
    <3>1. PICK c \in Ids : /\ ~Exists(c)
                           /\ \E row : bud' = [bud EXCEPT ![c] = row]
      BY <2>1 DEF Mint
    <3> QED BY <1>1, <3>1 DEF TypeOK
  <2> QED BY <2>1
<1>3. PICK r \in Reqs : Update(r)
  BY <1>2 DEF Next, Rename, RenameBegin, CountNames, AskApi, Abort, Refuse, Tick, vars
<1>4. req[r].bud = b
  BY <1>1, <1>3 DEF Update, TypeOK, BudRow
<1>5. req'[r] = Idle
  BY <1>1, <1>3, Disturbed DEF Update, TypeOK
<1> QED BY <1>1, <1>3, <1>4, <1>5 DEF Update, Knows, At

\* A name settles: only a request its minter sent within the allowed time ever changes
\* it, however long the metadata API took to answer ("Rename too late.").
THEOREM NamesSettle == Spec => NameSettles
<1>1. NameInv /\ [Next]_vars =>
        [\A b \in Ids :
           Exists(b) /\ bud'[b].name # bud[b].name =>
             \E r \in Reqs :
               /\ req[r].bud = b /\ req[r].user = bud[b].minter /\ req'[r] = Idle
               /\ req[r].began - bud[b].created <= AllowedTime]_vars
  BY SettlesStep
<1> QED BY <1>1, Invariance, PTL DEF Spec, NameSettles

=============================================================================
