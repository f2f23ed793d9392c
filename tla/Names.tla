------------------------------- MODULE Names -------------------------------
(***************************************************************************)
(* The names of Gen1 buds (BudController.rename and checkBudName).  A bud  *)
(* is minted with a name drawn from a list; for a while its minter may     *)
(* give it another one, which must not be taken by a bud and must be found *)
(* valid by a service of the metadata API.  The table has no unique key on *)
(* names, and the check and the write are two awaits apart.                *)
(*                                                                         *)
(* As in Breeding a request is a process and any await may throw.  The     *)
(* metadata API is external: it answers yes, no or not at all.             *)
(***************************************************************************)
EXTENDS Integers, FiniteSets

CONSTANTS
  Users,
  Names,        \* names as they are after trimming
  Drawn,        \* data/budNames.json
  MaxBuds,      \* bound: rows of Gen1Bud
  AllowedTime,  \* bud.renameAllowedTime
  MaxTime,      \* bound: the clock
  Reqs, MayFail, None

ASSUME DrawnAssumption  == Drawn \subseteq Names
ASSUME NoneAssumption   == None \notin Users \union Names
ASSUME TimeAssumption   == AllowedTime \in Nat
ASSUME BoundsAssumption == MaxBuds \in Nat /\ MaxTime \in Nat /\ MayFail \in BOOLEAN

VARIABLES
  bud,    \* table Gen1Bud by id
  now,    \* Date.now() and the clock of the database
  req,    \* the local variables of the requests being handled
  how     \* history: where the name of a bud is from

vars == <<bud, now, req, how>>

Ids   == 1..MaxBuds
NoBud == [name |-> None, minter |-> None, created |-> 0]

\* name is what the request proposes; undisturbed is history: no name was written
\* since the request counted the buds with its own.
Idle  == [pc |-> "idle", user |-> None, bud |-> 0, name |-> None, padded |-> FALSE,
          began |-> 0, undisturbed |-> FALSE]

Init ==
  /\ bud = [b \in Ids |-> NoBud]
  /\ now = 0
  /\ req = [r \in Reqs |-> Idle]
  /\ how = [b \in Ids |-> "none"]

Exists(b)   == bud[b].minter # None
At(r, pc)   == req[r].pc = pc
Goto(r, pc) == req' = [req EXCEPT ![r].pc = pc]
Reply(r)    == req' = [req EXCEPT ![r] = Idle]

\* A name was written: whoever has counted names before knows no more.
Disturb(f) == [q \in Reqs |-> [f[q] EXCEPT !.undisturbed = FALSE]]

-----------------------------------------------------------------------------
(* A bud is minted by finalize or burnBuds: its name is not looked up *)

Mint ==
  \E b \in Ids, u \in Users, name \in Drawn :
    /\ ~Exists(b) /\ \A c \in 1..(b - 1) : Exists(c)
    /\ bud' = [bud EXCEPT ![b] = [name |-> name, minter |-> u, created |-> now]]
    /\ how' = [how EXCEPT ![b] = "drawn"]
    /\ req' = Disturb(req)
    /\ UNCHANGED now

-----------------------------------------------------------------------------
(* PUT buds/rename *)

NeverTooLate(b) == FALSE

TooLate(b) == bud[b].created + AllowedTime < now

RenameBegin(r) ==
  /\ At(r, "idle")
  /\ \E b \in Ids, name \in Names, padded \in BOOLEAN :
       /\ Exists(b) /\ ~TooLate(b)
       /\ req' = [req EXCEPT ![r] =
                   [Idle EXCEPT !.pc = "count", !.user = bud[b].minter, !.bud = b,
                                !.name = name, !.padded = padded, !.began = now]]
  /\ UNCHANGED <<bud, now, how>>

TakenUntrimmed(name, padded) == ~padded /\ \E b \in Ids : Exists(b) /\ bud[b].name = name

\* WHERE TRIM(name) = the proposed name, trimmed; the bud's own name counts.
Taken(name, padded) == \E b \in Ids : Exists(b) /\ bud[b].name = name

CountNames(r) ==
  /\ At(r, "count")
  /\ IF Taken(req[r].name, req[r].padded)
       THEN Reply(r)
       ELSE req' = [req EXCEPT ![r].pc = "ask", ![r].undisturbed = TRUE]
  /\ UNCHANGED <<bud, now, how>>

AskApi(r) ==
  /\ At(r, "ask")
  /\ Goto(r, "update") \/ Reply(r)
  /\ UNCHANGED <<bud, now, how>>

\* The name is written as trimmed, whatever was written or how late it is by now.
Update(r) ==
  /\ At(r, "update")
  /\ bud' = [bud EXCEPT ![req[r].bud].name = req[r].name]
  /\ how' = [how EXCEPT ![req[r].bud] = IF req[r].undisturbed THEN "chosen" ELSE "raced"]
  /\ req' = [Disturb(req) EXCEPT ![r] = Idle]
  /\ UNCHANGED now

-----------------------------------------------------------------------------

\* A request refused by its first query.
Refuse(r) == At(r, "idle") /\ UNCHANGED vars

Abort(r) == MayFail /\ ~At(r, "idle") /\ Reply(r) /\ UNCHANGED <<bud, now, how>>

Tick == now < MaxTime /\ now' = now + 1 /\ UNCHANGED <<bud, req, how>>

Rename(r) == RenameBegin(r) \/ CountNames(r) \/ AskApi(r) \/ Update(r)

Next ==
  \/ \E r \in Reqs : Rename(r) \/ Abort(r) \/ Refuse(r)
  \/ Mint \/ Tick

Spec == Init /\ [][Next]_vars

-----------------------------------------------------------------------------
(* Properties *)

BudRow == [name : Names \union {None}, minter : Users \union {None}, created : Nat]
Local  == [pc : {"idle", "count", "ask", "update"}, user : Users \union {None},
           bud : 0..MaxBuds, name : Names \union {None}, padded : BOOLEAN,
           began : Nat, undisturbed : BOOLEAN]

\* Every variable keeps to the columns of the schema and the locals of the handlers.
TypeOK ==
  /\ bud \in [Ids -> BudRow]
  /\ now \in Nat
  /\ req \in [Reqs -> Local]
  /\ how \in [Ids -> {"none", "drawn", "chosen", "raced"}]

\* Two buds get one name only by the draw at the mint, or by a rename whose check was
\* overtaken by another mint or rename before it wrote ("cannot be accepted or
\* duplicated"): names chosen without such a race differ.
ChosenNamesDiffer ==
  \A b, c \in Ids :
    b # c /\ how[b] = "chosen" /\ how[c] = "chosen" => bud[b].name # bud[c].name

\* A name changes only by a request its minter sent while the bud was young, however
\* long that request then waits for the metadata API; so it settles once those are
\* answered ("Rename too late.").
NameSettles ==
  [][\A b \in Ids :
       Exists(b) /\ bud'[b].name # bud[b].name =>
         \E r \in Reqs :
           /\ req[r].bud = b /\ req[r].user = bud[b].minter /\ req'[r] = Idle
           /\ req[r].began - bud[b].created <= AllowedTime]_vars

-----------------------------------------------------------------------------
(* The inductive invariant behind them *)

\* A request beyond its first query is that of the minter of a bud, and was in time.
Knows(r) ==
  ~At(r, "idle") =>
    /\ req[r].bud \in Ids /\ req[r].name \in Names
    /\ Exists(req[r].bud) /\ req[r].user = bud[req[r].bud].minter
    /\ req[r].began - bud[req[r].bud].created <= AllowedTime

\* What was counted as free is free until somebody writes a name.
StillFree(r) ==
  req[r].undisturbed => \A b \in Ids : Exists(b) => bud[b].name # req[r].name

\* ChosenNamesDiffer with what the requests know at their awaits.
NameInv ==
  /\ TypeOK
  /\ \A r \in Reqs : Knows(r) /\ StillFree(r)
  /\ \A b \in Ids : ~Exists(b) => how[b] = "none"
  /\ ChosenNamesDiffer

=============================================================================
