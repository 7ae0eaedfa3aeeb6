------------------------- MODULE LateUpdatesProofs -------------------------
(***************************************************************************)
(* What is proved of HAPair survives updates that were reported as failed  *)
(* and are applied at any later time.                                      *)
(***************************************************************************)
EXTENDS LateUpdates, HAPairActionProofs

LEMMA LateStepMaps == [LateNext]_lateVars => [Next]_vars \/ Arrive
  <1> SUFFICES ASSUME [LateNext]_lateVars PROVE [Next]_vars \/ Arrive
    OBVIOUS
  <1>1. ASSUME NEW e \in Engine, LateScript(e) PROVE Script(e)
    BY <1>1 DEF LateScript, LatePut, LateMove, LateTag, Script, Shared, PrimaryOnly
  <1>2. CASE UNCHANGED lateVars
    BY <1>2 DEF lateVars
  <1> QED
    BY <1>1, <1>2 DEF LateNext, Next

\* What may still be applied comes from a script.
LEMMA WhoLeaves ==
  ASSUME [LateNext]_lateVars
  PROVE  \/ late' \subseteq late
         \/ \E e \in Engine : LatePut(e) \/ LateMove(e)
         \/ LateTag
  BY DEF LateNext, LateScript, Arrive, lateVars

-----------------------------------------------------------------------------
(* Types.                                                                  *)

LEMMA KeepAllType == KeepAll \in Update
  BY DEF KeepAll, Update

LEMMA OverType ==
  ASSUME NEW K, NEW S, NEW new \in [K -> S \cup {"keep"}], NEW old \in [K -> S]
  PROVE  Over(new, old) \in [K -> S]
  BY DEF Over

LEMMA LatePutType ==
  ASSUME TypeInv, late \subseteq Update, NEW e \in Engine, LatePut(e)
  PROVE  late' \subseteq Update
  <1> DEFINE new == [j \in Rule |-> IF TableOf[j] = TableOf[frame[e].pos] THEN Written(e)[j]
                                    ELSE "keep"]
             w == [KeepAll EXCEPT !.routes = new]
  <1>1. Written(e) \in [Rule -> Target]
    BY WrittenType, Halves
  <1>2. new \in [Rule -> Target \cup {"keep"}]
    BY <1>1
  <1>3. w \in Update
    BY <1>2, KeepAllType DEF Update
  <1>4. late' = late \cup {w}
    BY DEF LatePut, Pending
  <1> QED
    BY <1>3, <1>4

LEMMA LateMoveType ==
  ASSUME TypeInv, late \subseteq Update, NEW e \in Engine, LateMove(e)
  PROVE  late' \subseteq Update
  <1>1. PICK p \in frame[e].toMove : Pending([KeepAll EXCEPT !.assignee[p] = e])
    BY DEF LateMove
  <1>2. p \in PublicIps
    BY DEF TypeInv, TypeOK, Frame
  <1>3. [KeepAll EXCEPT !.assignee[p] = e] \in Update
    BY <1>2 DEF KeepAll, Update
  <1> QED
    BY <1>1, <1>3 DEF Pending

LEMMA LateTagType ==
  ASSUME TypeInv, late \subseteq Update, LateTag
  PROVE  late' \subseteq Update
  <1>1. frame["primary"].local \in Status
    BY DEF TypeInv, TypeOK, Frame, Engine
  <1>2. [KeepAll EXCEPT !.tag = frame["primary"].local] \in Update
    BY <1>1, KeepAllType DEF Update
  <1> QED
    BY <1>2 DEF LateTag, Pending

LEMMA ArriveType ==
  ASSUME TypeInv, late \subseteq Update, Arrive
  PROVE  TypeInv'
  <1>1. PICK w \in Update : /\ routes' = Over(w.routes, routes)
                            /\ assignee' = Over(w.assignee, assignee)
                            /\ tag' = IF w.tag = "keep" THEN tag ELSE w.tag
    BY DEF Arrive
  <1>2. routes \in [Rule -> Target] /\ assignee \in [PublicIps -> Engine] /\ tag \in Status \cup {"absent"}
    BY DEF TypeInv, TypeOK
  <1>3. /\ w.routes \in [Rule -> Target \cup {"keep"}]
        /\ w.assignee \in [PublicIps -> Engine \cup {"keep"}]
        /\ w.tag \in Status \cup {"keep"}
    BY DEF Update
  <1>4. /\ routes' \in [Rule -> Target]
        /\ assignee' \in [PublicIps -> Engine]
        /\ tag' \in Status \cup {"absent"}
    BY <1>1, <1>2, <1>3, OverType
  <1>5. UNCHANGED <<world, context, bounds, command, apiFaults, pc, frame>>
    BY DEF Arrive
  <1> QED
    BY <1>4, <1>5
    DEF TypeInv, TypeOK, UpdatesARule, world, context, bounds, command

LateTypeInv == TypeInv /\ late \subseteq Update

LEMMA LateTypeInit == LateInit => LateTypeInv
  BY TypeInvInit DEF LateInit, LateTypeInv

LEMMA LateTypeStep == LateTypeInv /\ [LateNext]_lateVars => LateTypeInv'
  <1> SUFFICES ASSUME LateTypeInv, [LateNext]_lateVars PROVE LateTypeInv'
    OBVIOUS
  <1>1. TypeInv'
    BY LateStepMaps, TypeInvStep, ArriveType DEF LateTypeInv
  <1>2. late' \subseteq Update
    BY WhoLeaves, LatePutType, LateMoveType, LateTagType DEF LateTypeInv
  <1> QED
    BY <1>1, <1>2 DEF LateTypeInv

LEMMA LateTypeInvariant == LateSpec => []LateTypeInv
  BY LateTypeInit, LateTypeStep, PTL DEF LateSpec

\* An update that may still be applied is one that a script can have sent.
THEOREM LateTypeCorrect == LateSpec => []LateTypeOK
  <1>1. LateTypeInv => LateTypeOK
    BY DEF LateTypeInv, TypeInv, LateTypeOK
  <1> QED
    BY <1>1, LateTypeInvariant, PTL

-----------------------------------------------------------------------------
(* What the scripts do by themselves.  Nothing they know or do next is     *)
(* changed by an arrival.                                                  *)

ScriptsInv == DryInv /\ ReasonInv

LEMMA ArriveIsSilent ==
  ASSUME Arrive
  PROVE  UNCHANGED <<pc, frame, dryRun, status, handedOver, events>>
  BY DEF Arrive, world, command, bounds

LEMMA ScriptsStep ==
  ASSUME LateTypeInv, ScriptsInv, [LateNext]_lateVars
  PROVE  ScriptsInv'
  <1>1. CASE [Next]_vars
    <2>1. dryRun' = dryRun
      BY <1>1, DryRunIsFixed
    <2>2. \A e \in dryRun : pc'[e] \notin {"get", "put"}
      BY <1>1, DryStep DEF LateTypeInv, ScriptsInv
    <2>3. ReasonInv'
      BY <1>1, ReasonStep DEF LateTypeInv, ScriptsInv
    <2> QED
      BY <2>1, <2>2, <2>3 DEF ScriptsInv, DryInv
  <1>2. CASE Arrive
    BY <1>2, ArriveIsSilent, ReasonStays DEF ScriptsInv, DryInv
  <1> QED
    BY <1>1, <1>2, LateStepMaps

LEMMA ScriptsInvariant == LateSpec => []ScriptsInv
  <1>1. LateInit => ScriptsInv
    BY DryInit, ReasonInit DEF LateInit, ScriptsInv
  <1> QED
    BY <1>1, ScriptsStep, LateTypeInvariant, PTL DEF LateSpec

LEMMA NobodyActs == ASSUME NEW e, Arrive PROVE ~Acts(e)
  BY ArriveIsSilent DEF Acts

\* A dry-run script changes nothing and the secondary takes nothing without a
\* reason, also when their updates are applied late.
THEOREM LateScriptsKeepPromises == LateSpec => DryRunChangesNothing /\ TakeoverHasReason
  <1>1. ASSUME LateTypeInv, ScriptsInv, [LateNext]_lateVars
        PROVE  \A e \in dryRun : Acts(e) => UNCHANGED <<cloud, status>>
    BY <1>1, LateStepMaps, NobodyActs, DryStep DEF LateTypeInv, ScriptsInv, Harmless
  <1>2. ASSUME LateTypeInv, ScriptsInv, [LateNext]_lateVars, Acts("secondary")
        PROVE  /\ routes' # routes => MayWrite(frame["secondary"])
               /\ assignee' # assignee => SeesFailure(frame["secondary"])
    BY <1>2, LateStepMaps, NobodyActs, HasReasonStep DEF LateTypeInv, ScriptsInv
  <1>3. LateTypeInv /\ ScriptsInv /\ [LateNext]_lateVars
          => /\ [\A e \in dryRun : Acts(e) => UNCHANGED <<cloud, status>>]_vars
             /\ [LET f == frame["secondary"] IN
                 Acts("secondary") => /\ routes' # routes => MayWrite(f)
                                      /\ assignee' # assignee => SeesFailure(f)]_vars
    BY <1>1, <1>2
  <1> QED
    BY <1>3, LateTypeInvariant, ScriptsInvariant, PTL
    DEF LateSpec, DryRunChangesNothing, TakeoverHasReason

\* A primary that has put itself offline does not point a rule to itself again;
\* only an update it had sent before may still be applied.
THEOREM LateNoPingPong ==
  ASSUME MaxCmdFaults = 0
  PROVE  LateSpec => NoPingPong
  <1>1. LateInit => HandoverInv
    BY HandoverInit DEF LateInit
  <1>2. LateTypeInv /\ HandoverInv /\ [LateNext]_lateVars => HandoverInv'
    BY LateStepMaps, HandoverStep, ArriveIsSilent DEF LateTypeInv, HandoverInv
  <1>3. LateTypeInv /\ HandoverInv /\ [LateNext]_lateVars
          => [handedOver /\ Acts("primary") => routes' = routes]_vars
    BY LateStepMaps, NoPingPongStep, NobodyActs DEF LateTypeInv
  <1> QED
    BY <1>1, <1>2, <1>3, LateTypeInvariant, PTL DEF LateSpec, NoPingPong

-----------------------------------------------------------------------------
(* The rules that lead elsewhere.                                          *)

\* A table that may still be written knows of a rule what the scripts know of
\* it, however many updates of both came after it.
LateForeignInv ==
    \A i \in Rule :
        \/ OfThePair(i) /\ \A w \in late : w.routes[i] \notin Elsewhere
        \/ Foreign(i) /\ \A w \in late : w.routes[i] \in Unsteered \cup {"keep"}

LEMMA LateForeignInit == LateInit => LateForeignInv
  BY ForeignInit DEF LateInit, LateForeignInv, ForeignInv

LEMMA ArriveRule ==
  ASSUME LateTypeInv, Arrive, NEW i \in Rule
  PROVE  \E w \in late : routes'[i] = IF w.routes[i] = "keep" THEN routes[i] ELSE w.routes[i]
  <1>1. PICK w \in late : routes' = Over(w.routes, routes)
    BY DEF Arrive
  <1> QED
    BY <1>1 DEF Over, LateTypeInv, TypeInv, TypeOK

\* An arrival leaves a rule on its side, as a step of a script does.
LEMMA LateSideStep ==
  ASSUME EditsKeepSides, LateTypeInv, LateForeignInv, [LateNext]_lateVars, NEW i \in Rule
  PROVE  /\ OfThePair(i) /\ (\A w \in late : w.routes[i] \notin Elsewhere) => OfThePair(i)'
         /\ Foreign(i) /\ (\A w \in late : w.routes[i] \in Unsteered \cup {"keep"})
              => Foreign(i)'
  <1>1. CASE [Next]_vars
    BY <1>1, SideStep DEF LateTypeInv
  <1>2. CASE Arrive
    BY <1>2, ArriveRule, ArriveIsSilent, SidesStill DEF OfThePair, Foreign
  <1> QED
    BY <1>1, <1>2, LateStepMaps

\* A table that fails to be written is no worse than one that is.
LEMMA LatePutRule ==
  ASSUME LateTypeInv, NEW e \in Engine, LatePut(e), NEW w \in late' \ late, NEW i \in Rule
  PROVE  /\ OfThePair(i) => w.routes[i] \notin Elsewhere
         /\ Foreign(i) => w.routes[i] \in Unsteered \cup {"keep"}
  <1> DEFINE new == [j \in Rule |-> IF TableOf[j] = TableOf[frame[e].pos] THEN Written(e)[j]
                                    ELSE "keep"]
  <1>1. w = [KeepAll EXCEPT !.routes = new]
    BY DEF LatePut, Pending
  <1>2. w.routes = new
    BY <1>1 DEF KeepAll
  <1>3. pc[e] = "put"
    BY DEF LatePut, PutTable
  <1>4. CASE w.routes[i] = "keep"
    BY <1>4 DEF Elsewhere
  <1>5. CASE w.routes[i] # "keep"
    <2>1. w.routes[i] = IF i = frame[e].pos THEN e ELSE frame[e].copy[i]
      BY <1>2, <1>5 DEF Written
    <2>2. e \notin Elsewhere
      BY DEF Engine, Elsewhere
    <2> QED
      BY <1>3, <2>1, <2>2 DEF OfThePair, Foreign, Spares, Leaves
  <1> QED
    BY <1>4, <1>5

LEMMA LateForeignStep ==
  ASSUME EditsKeepSides, LateTypeInv, LateForeignInv, [LateNext]_lateVars
  PROVE  LateForeignInv'
  <1> SUFFICES ASSUME NEW i \in Rule
               PROVE  \/ OfThePair(i)' /\ \A w \in late' : w.routes[i] \notin Elsewhere
                      \/ Foreign(i)' /\ \A w \in late' : w.routes[i] \in Unsteered \cup {"keep"}
    BY DEF LateForeignInv
  <1>1. ASSUME NEW w \in late' \ late
        PROVE  /\ OfThePair(i) => w.routes[i] \notin Elsewhere
               /\ Foreign(i) => w.routes[i] \in Unsteered \cup {"keep"}
    <2>1. ASSUME NEW e \in Engine, LateMove(e) PROVE w.routes[i] = "keep"
      BY <2>1 DEF LateMove, Pending, KeepAll
    <2>2. ASSUME LateTag PROVE w.routes[i] = "keep"
      BY <2>2 DEF LateTag, Pending, KeepAll
    <2> QED
      BY <2>1, <2>2, LatePutRule, WhoLeaves DEF Elsewhere
  <1> QED
    BY <1>1, LateSideStep DEF LateForeignInv

\* A rule that leads elsewhere never comes to lead to an engine, not even by a
\* table that was read long ago and is applied over many newer ones.
THEOREM LateForeignRulesKept ==
  ASSUME EditsKeepSides
  PROVE  LateSpec => ForeignRulesKept
  <1>1. LateTypeInv /\ LateForeignInv /\ [LateNext]_lateVars => LateForeignInv'
    BY LateForeignStep
  <1>2. LateTypeInv /\ LateForeignInv /\ [LateNext]_lateVars
          => [\A i \in Rule : routes[i] \in Elsewhere => routes'[i] \in Unsteered]_vars
    BY LateSideStep DEF LateForeignInv, OfThePair, Foreign
  <1> QED
    BY <1>1, <1>2, LateForeignInit, LateTypeInvariant, PTL DEF LateSpec, ForeignRulesKept
=============================================================================
