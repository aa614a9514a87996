---------------------------- MODULE EfilingProofs ----------------------------
(***************************************************************************)
(* Theorems about EfilingFiling, for any number of handlers: its types,    *)
(* its action properties, and that a second sync changes nothing.          *)
(*                                                                         *)
(* FilingInv is about what a handler has read of the filing: the moves the *)
(* sync still has to make are allowed one after the other from the status  *)
(* it believes in, it lists a paper only with a filing it believes final,  *)
(* and a request only goes on to write a status that the one it has read   *)
(* allows.  Whatever the others make of the filing in the meantime, a      *)
(* handler's reading does not change.  QuietInv is about a                 *)
(* sync that is alone, which ends where the goal it set out for stays the  *)
(* goal, and about the syncs that follow, which leave it there.            *)
(***************************************************************************)
EXTENDS EfilingFiling, SequenceTheorems, TLAPS

\* From this status the moves of p are allowed, one after the other.
Chain(from, p) ==
    p # <<>> => CanTransition(from, p[1]) /\ \A i \in 1 .. Len(p) - 1 : CanTransition(p[i], p[i + 1])

\* What a handler has read of the filing allows what it is about to do.
Walks(h) == Chain(loc[h].read, loc[h].path)
Asked(h) == pc[h] \in {"grn", "write"} => CanTransition(loc[h].read, loc[h].to)

\* Only a filing the sync believes final gets a paper on its list.
Lists(h) == pc[h] = "list" => loc[h].read \in LINK_DOCS

FilingInv == TypeOK /\ \A h \in Handlers : Walks(h) /\ Asked(h) /\ Lists(h)

-----------------------------------------------------------------------------
(* The status machine and the sync's paths *)

LEMMA GoesToStatus == ASSUME NEW s \in Status PROVE TRANSITIONS[s] \in SUBSET Status
BY DEF TRANSITIONS, Status

\* A registered filing has nowhere to go.
LEMMA RegisteredIsFinal == ASSUME NEW t PROVE ~CanTransition("registered", t)
BY DEF CanTransition, TRANSITIONS, Status

LEMMA PathsAreSeqs ==
    ASSUME NEW n \in Nat, NEW p \in [1 .. n -> Nodes]
    PROVE  p \in Seq(Nodes) /\ Len(p) = n
<1>1. [i \in 1 .. n |-> p[i]] = p
  OBVIOUS
<1>2. p \in Seq(Nodes)
  BY <1>1
<1>3. QED
  BY <1>2, <1>1

LEMMA PathTypes ==
    ASSUME NEW from \in Status, NEW to \in Nodes, NEW p \in Paths[from][to]
    PROVE  /\ p \in Seq(Nodes) /\ Len(p) \in 1 .. 3
           /\ p # <<>> /\ p[Len(p)] = to /\ Chain(from, p)
<1>1. p \in UNION {[1 .. n -> Nodes] : n \in 1 .. 3} /\ IsPath(from, p, to)
  BY DEF Paths
<1>2. PICK n \in 1 .. 3 : p \in [1 .. n -> Nodes]
  BY <1>1
<1>3. p \in Seq(Nodes) /\ Len(p) = n
  BY <1>2, PathsAreSeqs
<1>4. QED
  BY <1>1, <1>3 DEF IsPath, Chain

\* A shortest path is there if any path is (pathTo).
LEMMA PathToIsPath ==
    ASSUME NEW from \in Status, NEW to \in Nodes
    PROVE  PathTo(from, to) # <<>> => PathTo(from, to) \in Paths[from][to]
<1>1. CASE Paths[from][to] = {}
  BY <1>1 DEF PathTo
<1>2. CASE Paths[from][to] # {}
  <2> DEFINE P == Paths[from][to]
             Shortest(p) == \A q \in P : Len(p) <= Len(q)
  <2>1. \A p \in P : Len(p) \in 1 .. 3
    BY PathTypes
  <2>2. \E p \in P : Shortest(p)
    <3>1. CASE \E p \in P : Len(p) = 1
      <4>1. PICK p \in P : Len(p) = 1
        BY <3>1
      <4>2. \A q \in P : 1 <= Len(q)
        BY <2>1
      <4>3. QED
        BY <4>1, <4>2
    <3>2. CASE (~\E p \in P : Len(p) = 1) /\ \E p \in P : Len(p) = 2
      BY <2>1, <3>2
    <3>3. CASE (~\E p \in P : Len(p) = 1) /\ ~\E p \in P : Len(p) = 2
      <4>1. \A p \in P : Len(p) = 3
        BY <2>1, <3>3
      <4>2. QED
        BY <1>2, <4>1
    <3>4. QED
      BY <3>1, <3>2, <3>3
  <2>3. (CHOOSE p \in P : Shortest(p)) \in P
    BY <2>2
  <2>4. PathTo(from, to) = CHOOSE p \in P : Shortest(p)
    BY <1>2 DEF PathTo
  <2>5. QED
    BY <2>3, <2>4
<1>3. QED
  BY <1>1, <1>2

\* The empty path is no path, so a path is empty only if there is none.
LEMMA PathToTypes ==
    ASSUME NEW from \in Status, NEW to \in Nodes
    PROVE  /\ PathTo(from, to) \in Seq(Nodes) /\ Chain(from, PathTo(from, to))
           /\ PathTo(from, to) # <<>> => PathTo(from, to)[Len(PathTo(from, to))] = to
<1>1. CASE PathTo(from, to) = <<>>
  BY <1>1 DEF Chain
<1>2. CASE PathTo(from, to) # <<>>
  <2>1. PathTo(from, to) \in Paths[from][to]
    BY <1>2, PathToIsPath
  <2>2. QED
    BY <2>1, PathTypes
<1>3. QED
  BY <1>1, <1>2

LEMMA PortalStatusIsANode ==
    ASSUME NEW p \in Portal
    PROVE  PortalStatus(p) \in Nodes /\ PortalStatus(p) # "refiled"
BY DEF Portal, PortalStage, PortalStatus, Nodes, Status

LEMMA GoalIsANode ==
    ASSUME NEW s \in Status, NEW p \in Portal, NEW b \in BOOLEAN
    PROVE  GoalFor(s, p, b) # s => GoalFor(s, p, b) \in Nodes
<1>1. PortalStatus(p) \in Nodes /\ "refiled" \in Nodes
  BY PortalStatusIsANode DEF Nodes, Status
<1>2. QED
  BY <1>1 DEF GoalFor

\* The rest of an allowed walk is allowed from where its first move leads.
LEMMA ChainGoesOn ==
    ASSUME NEW from \in Status, NEW p \in Seq(Nodes), p # <<>>, Chain(from, p)
    PROVE  /\ Head(p) \in Nodes /\ CanTransition(from, Head(p))
           /\ Tail(p) \in Seq(Nodes) /\ Chain(Head(p), Tail(p))
<1>1. /\ Head(p) \in Nodes /\ Head(p) = p[1] /\ Tail(p) \in Seq(Nodes) /\ Len(p) \in Nat \ {0}
      /\ Len(Tail(p)) = Len(p) - 1 /\ \A i \in 1 .. Len(Tail(p)) : Tail(p)[i] = p[i + 1]
  BY HeadTailProperties, EmptySeq
<1>2. ASSUME Tail(p) # <<>>
      PROVE  /\ CanTransition(Head(p), Tail(p)[1])
             /\ \A i \in 1 .. Len(Tail(p)) - 1 : CanTransition(Tail(p)[i], Tail(p)[i + 1])
  <2>1. Len(Tail(p)) \in Nat \ {0}
    BY <1>1, <1>2, EmptySeq
  <2>2. Tail(p)[1] = p[2] /\ CanTransition(p[1], p[2])
    BY <1>1, <2>1 DEF Chain
  <2>3. ASSUME NEW i \in 1 .. Len(Tail(p)) - 1
        PROVE  CanTransition(Tail(p)[i], Tail(p)[i + 1])
    <3>1. i \in 1 .. Len(Tail(p)) /\ i + 1 \in 1 .. Len(Tail(p)) /\ i + 1 \in 1 .. Len(p) - 1
      BY <1>1, <2>1, <2>3
    <3>2. Tail(p)[i] = p[i + 1] /\ Tail(p)[i + 1] = p[(i + 1) + 1]
      BY <1>1, <3>1
    <3>3. CanTransition(p[i + 1], p[(i + 1) + 1])
      BY <3>1 DEF Chain
    <3>4. QED
      BY <3>2, <3>3
  <2>4. QED
    BY <1>1, <2>2, <2>3
<1>3. QED
  BY <1>1, <1>2 DEF Chain

-----------------------------------------------------------------------------
(* How a handler moves *)

\* Types of the filing, its surroundings and the bounds; of the handlers.
FilingTypes ==
    /\ exists \in BOOLEAN /\ status \in Status /\ steps \in [Steps -> StepState]
    /\ numbered \in BOOLEAN /\ fcnr \in Cnrs \cup {NoCnr} /\ tracking \in TrackingStatus
    /\ cands \subseteq Cnrs /\ mcnr \in Cnrs \cup {NoCnr}
    /\ payments \in Nat /\ docs \in Nat /\ bundle \in Nat
    /\ papers \in Nat /\ listed \subseteq Nat
    /\ portal \in Portal /\ portalObjected \in BOOLEAN
    /\ objector \in {"none", "advocate", "portal"} /\ quiet \in {"no", "syncing", "settled"}
    /\ ops \in 0 .. MaxOps /\ moves \in 0 .. MaxPortal /\ faults \in 0 .. MaxFaults
HandlerTypes == pc \in [Handlers -> Pc] /\ loc \in [Handlers -> Loc]

\* A handler at l, with the local variables r, keeps to what it has read.
Sound(l, r) ==
    /\ r \in Loc /\ l \in Pc
    /\ Chain(r.read, r.path)
    /\ l \in {"grn", "write"} => CanTransition(r.read, r.to)
    /\ l = "list" => r.read \in LINK_DOCS
HandlersSound == HandlerTypes /\ \A h \in Handlers : Sound(pc[h], loc[h])

HandlerStep(h) ==
    \E l \in Pc, r \in Loc : /\ loc' = [loc EXCEPT ![h] = r] /\ Goto(h, l)
                             /\ Sound(l, r)

LEMMA FilingInvParts == FilingInv <=> FilingTypes /\ HandlersSound
<1>1. TypeOK <=> FilingTypes /\ HandlerTypes
  BY DEF TypeOK, FilingTypes, HandlerTypes
<1>2. HandlerTypes => \A h \in Handlers : pc[h] \in Pc /\ loc[h] \in Loc
  BY DEF HandlerTypes
<1>3. QED
  BY <1>1, <1>2 DEF FilingInv, HandlersSound, Sound, Walks, Asked, Lists

LEMMA SoundNext ==
    ASSUME HandlersSound, NEW h \in Handlers, HandlerStep(h)
    PROVE  HandlersSound'
<1>1. PICK l \in Pc, r \in Loc : loc' = [loc EXCEPT ![h] = r] /\ Goto(h, l) /\ Sound(l, r)
  BY DEF HandlerStep
<1>2. pc \in [Handlers -> Pc] /\ loc \in [Handlers -> Loc]
  BY DEF HandlersSound, HandlerTypes
<1>3. pc' \in [Handlers -> Pc] /\ loc' \in [Handlers -> Loc]
  BY <1>1, <1>2 DEF Goto
<1>4. ASSUME NEW g \in Handlers PROVE Sound(pc'[g], loc'[g])
  <2>1. CASE g = h
    BY <1>1, <1>2, <2>1 DEF Goto
  <2>2. CASE g # h
    <3>1. pc'[g] = pc[g] /\ loc'[g] = loc[g]
      BY <1>1, <1>2, <2>2 DEF Goto
    <3>2. QED
      BY <3>1 DEF HandlersSound
  <2>3. QED
    BY <2>1, <2>2
<1>5. \A g \in Handlers : Sound(pc[g], loc[g])'
  BY <1>4 DEF Sound, Chain
<1>6. QED
  BY <1>3, <1>5 DEF HandlersSound, HandlerTypes

LEMMA NoLocIsSound == NoLoc \in Loc /\ NoLoc.path = <<>> /\ Sound("idle", NoLoc)
<1>1. AllPending \in [Steps -> StepState]
  BY DEF AllPending, StepState
<1>2. [stage |-> "ready", objected |-> FALSE, paid |-> FALSE] \in Portal
  BY DEF Portal, PortalStage
<1>3. NoLoc \in Loc
  BY <1>1, <1>2 DEF NoLoc, Loc, Ops, Status
<1>4. NoLoc.path = <<>>
  BY DEF NoLoc
<1>5. QED
  BY <1>3, <1>4 DEF Sound, Chain, Pc

\* A handler that has nothing to do any more.
LEMMA Returns ==
    ASSUME NEW h \in Handlers, Return(h)
    PROVE  HandlerStep(h)
<1>1. "idle" \in Pc
  BY DEF Pc
<1>2. QED
  BY <1>1, NoLocIsSound DEF Return, HandlerStep

\* A handler that goes on with what it knows, not to write a status.
LEMMA GoesOn ==
    ASSUME HandlersSound, NEW h \in Handlers, NEW l \in Pc \ {"grn", "write", "list"}, Goto(h, l), UNCHANGED loc
    PROVE  HandlerStep(h)
<1>1. loc' = [loc EXCEPT ![h] = loc[h]] /\ loc[h] \in Loc
  BY DEF HandlersSound, HandlerTypes
<1>2. Sound(l, loc[h])
  BY <1>1 DEF HandlersSound, Sound
<1>3. QED
  BY <1>1, <1>2 DEF HandlerStep

\* A handler that has learnt a CNR.
LEMMA LearnsCnr ==
    ASSUME HandlersSound, NEW h \in Handlers, NEW l \in Pc \ {"grn", "write", "list"}, NEW c \in Cnrs \cup {NoCnr},
           Goto(h, l), loc' = [loc EXCEPT ![h].cnr = c]
    PROVE  HandlerStep(h)
<1> DEFINE r == [loc[h] EXCEPT !.cnr = c]
<1>1. loc[h] \in Loc /\ Sound(pc[h], loc[h])
  BY DEF HandlersSound, HandlerTypes
<1>2. r \in Loc /\ r.read = loc[h].read /\ r.path = loc[h].path
  BY <1>1 DEF Loc
<1>3. Sound(l, r)
  BY <1>1, <1>2 DEF Sound
<1>4. loc' = [loc EXCEPT ![h] = r]
  OBVIOUS
<1> HIDE DEF r
<1>5. QED
  BY <1>2, <1>3, <1>4 DEF HandlerStep

\* What a tick makes of the steps.
LEMMA TickedIsSteps ==
    ASSUME NEW s \in [Steps -> StepState], NEW ks
    PROVE  Ticked(s, ks) \in [Steps -> StepState]
BY DEF Ticked, StepState

-----------------------------------------------------------------------------
(* The steps that start a handler *)

LEMMA Begins ==
    ASSUME FilingTypes, NEW h \in Handlers, NEW l \in Pc \ {"list"}, NEW arguments \in Loc,
           arguments.path = <<>>, l \in {"grn", "write"} => CanTransition(status, arguments.to),
           Begin(h, l, arguments)
    PROVE  FilingTypes' /\ HandlerStep(h)
<1> DEFINE r == [arguments EXCEPT !.read = status, !.steps = steps, !.docs = docs]
<1>1. status \in Status /\ steps \in [Steps -> StepState] /\ docs \in Nat
  BY DEF FilingTypes
<1>2. r \in Loc /\ r.read = status /\ r.to = arguments.to /\ r.path = <<>>
  BY <1>1 DEF Loc
<1>3. loc' = [loc EXCEPT ![h] = r] /\ Goto(h, l)
  BY DEF Begin
<1> HIDE DEF r
<1>4. Sound(l, r)
  BY <1>2 DEF Sound, Chain
<1>5. HandlerStep(h)
  BY <1>2, <1>3, <1>4 DEF HandlerStep
<1>6. ops' \in 0 .. MaxOps
  BY FilingAssumption DEF Begin, Request, FilingTypes
<1>7. FilingTypes'
  BY <1>6 DEF Begin, Request, FilingTypes, filing, others
<1>8. QED
  BY <1>5, <1>7

\* The arguments of the requests.
LEMMA JustAnOp ==
    ASSUME NEW op \in Ops
    PROVE  [NoLoc EXCEPT !.op = op] \in Loc /\ [NoLoc EXCEPT !.op = op].path = <<>>
BY NoLocIsSound DEF Loc

LEMMA OpWithCnr ==
    ASSUME NEW op \in Ops, NEW c \in Cnrs \cup {NoCnr}
    PROVE  /\ [NoLoc EXCEPT !.op = op, !.cnr = c] \in Loc
           /\ [NoLoc EXCEPT !.op = op, !.cnr = c].path = <<>>
BY NoLocIsSound DEF Loc

LEMMA BeginTransitionSteps ==
    ASSUME FilingTypes, NEW h \in Handlers, NEW to \in Status, NEW c \in Cnrs \cup {NoCnr},
           BeginTransition(h, to, c)
    PROVE  FilingTypes' /\ HandlerStep(h)
<1>1. CanTransition(status, to)
  BY DEF BeginTransition
<1>2. "transition" \in Ops /\ {"grn", "write"} \subseteq Pc
  BY DEF Ops, Pc
<1>3. PICK l \in {"grn", "write"} :
        Begin(h, l, [NoLoc EXCEPT !.op = "transition", !.to = to, !.cnr = c])
  BY DEF BeginTransition
<1> DEFINE r == [NoLoc EXCEPT !.op = "transition", !.to = to, !.cnr = c]
<1>4. r \in Loc /\ r.path = <<>> /\ r.to = to
  <2>1. "transition" \in Ops
    BY <1>2
  <2>2. QED
    BY <2>1, NoLocIsSound DEF Loc
<1>5. l \in Pc \ {"list"} /\ Begin(h, l, r)
  BY <1>2, <1>3
<1> HIDE DEF r
<1>6. QED
  BY <1>1, <1>4, <1>5, Begins

LEMMA BeginRequestSteps ==
    ASSUME FilingTypes, NEW h \in Handlers, BeginRequest(h)
    PROVE  FilingTypes' /\ HandlerStep(h)
<1>1. {"pay", "docs", "bundle", "remove", "choose"} \subseteq Ops
  BY DEF Ops
<1>2. {"insert", "docs", "bundle", "delete", "attach"} \subseteq Pc \ {"grn", "write", "list"}
  BY DEF Pc
<1>3. ASSUME NEW to \in Status, NEW c \in Cnrs \cup {NoCnr}, BeginTransition(h, to, c)
      PROVE  FilingTypes' /\ HandlerStep(h)
  BY <1>3, BeginTransitionSteps
<1>4. ASSUME NEW l \in Pc \ {"grn", "write", "list"}, NEW op \in Ops,
             Begin(h, l, [NoLoc EXCEPT !.op = op])
      PROVE  FilingTypes' /\ HandlerStep(h)
  <2> DEFINE r == [NoLoc EXCEPT !.op = op]
  <2>1. r \in Loc /\ r.path = <<>>
    BY JustAnOp
  <2>2. Begin(h, l, r)
    BY <1>4
  <2> HIDE DEF r
  <2>3. QED
    BY <2>1, <2>2, Begins
<1>5. ASSUME NEW c \in Cnrs, BeginChoose(h, c)
      PROVE  FilingTypes' /\ HandlerStep(h)
  <2> DEFINE r == [NoLoc EXCEPT !.op = "choose", !.cnr = c]
  <2>1. r \in Loc /\ r.path = <<>>
    BY <1>1, <1>5, OpWithCnr
  <2>2. Begin(h, "attach", r)
    BY <1>5 DEF BeginChoose
  <2> HIDE DEF r
  <2>3. QED
    BY <1>2, <2>1, <2>2, Begins
<1>6. CASE BeginPayment(h)
  BY <1>1, <1>2, <1>4, <1>6 DEF BeginPayment
<1>7. CASE BeginDocuments(h)
  BY <1>1, <1>2, <1>4, <1>7 DEF BeginDocuments
<1>8. CASE BeginBundle(h)
  BY <1>1, <1>2, <1>4, <1>8 DEF BeginBundle
<1>9. CASE BeginRemove(h)
  BY <1>1, <1>2, <1>4, <1>9 DEF BeginRemove
<1>10. QED
  BY <1>3, <1>5, <1>6, <1>7, <1>8, <1>9 DEF BeginRequest

\* The tracker and the sync start with what they find.
LEMMA BeginRunSteps ==
    ASSUME FilingTypes, NEW h \in Handlers, BeginTrack(h) \/ BeginSync(h)
    PROVE  FilingTypes' /\ HandlerStep(h)
<1>1. {"close", "lookup", "load"} \subseteq Pc \ {"grn", "write", "list"} /\ {"track", "sync"} \subseteq Ops
  BY DEF Pc, Ops
<1>2. ASSUME BeginTrack(h) PROVE FilingTypes' /\ HandlerStep(h)
  <2> DEFINE r == [NoLoc EXCEPT !.op = "track", !.cnr = mcnr]
  <2>1. mcnr \in Cnrs \cup {NoCnr}
    BY DEF FilingTypes
  <2>2. r \in Loc /\ r.path = <<>>
    BY <1>1, <2>1, OpWithCnr
  <2>3. \E l \in {"close", "lookup"} : Goto(h, l) /\ loc' = [loc EXCEPT ![h] = r]
    BY <1>2 DEF BeginTrack
  <2> HIDE DEF r
  <2>4. HandlerStep(h)
    BY <1>1, <2>2, <2>3 DEF HandlerStep, Sound, Chain
  <2>5. FilingTypes'
    BY <1>2 DEF BeginTrack, FilingTypes, filing, others, events, bounds
  <2>6. QED
    BY <2>4, <2>5
<1>3. ASSUME BeginSync(h) PROVE FilingTypes' /\ HandlerStep(h)
  <2> DEFINE r == [NoLoc EXCEPT !.op = "sync", !.snap = portal]
  <2>1. portal \in Portal
    BY DEF FilingTypes
  <2>2. r \in Loc /\ r.path = <<>>
    BY <1>1, <2>1, NoLocIsSound DEF Loc
  <2>3. Goto(h, "load") /\ loc' = [loc EXCEPT ![h] = r]
    BY <1>3 DEF BeginSync
  <2> HIDE DEF r
  <2>4. HandlerStep(h)
    BY <1>1, <2>2, <2>3 DEF HandlerStep, Sound, Chain
  <2>5. FilingTypes'
    BY <1>3 DEF BeginSync, FilingTypes, filing, others, bounds
  <2>6. QED
    BY <2>4, <2>5
<1>4. QED
  BY <1>2, <1>3

-----------------------------------------------------------------------------
(* The steps of a handler at work *)

LEMMA QuietTypes ==
    ASSUME NEW h \in Handlers
    PROVE  /\ Undisturbed(h) \in {"no", "syncing", "settled"}
           /\ Finished(h) \in {"no", "syncing", "settled"}
BY DEF Undisturbed, Finished

LEMMA Labels ==
    /\ {"idle", "insert", "tick", "docs", "bundle", "delete", "attach", "setCnr", "register", "close",
        "lookup", "load", "hop", "keep", "fee", "paper", "save", "link"} \subseteq Pc \ {"grn", "write", "list"}
    /\ {"grn", "write", "list"} \subseteq Pc
BY DEF Pc

\* The steps of a request on the filing's own columns and documents.
LEMMA RequestSteps ==
    ASSUME FilingTypes, HandlersSound, NEW h \in Handlers,
           \/ CheckGrn(h) \/ Write(h) \/ Insert(h) \/ Tick(h) \/ SetDocuments(h) \/ BuildBundle(h)
           \/ Delete(h)
    PROVE  FilingTypes' /\ HandlerStep(h)
<1>l. loc[h] \in Loc /\ Sound(pc[h], loc[h])
  BY DEF HandlersSound, HandlerTypes
<1>r. /\ loc[h].to \in Status /\ loc[h].steps \in [Steps -> StepState] /\ loc[h].docs \in Nat
      /\ steps \in [Steps -> StepState]
  BY <1>l DEF Loc, FilingTypes
<1>1. ASSUME CheckGrn(h) PROVE FilingTypes' /\ HandlerStep(h)
  <2>1. FilingTypes'
    BY <1>1 DEF CheckGrn, FilingTypes, filing, others, events, bounds
  <2>2. CASE Return(h)
    BY <2>1, <2>2, Returns
  <2>3. CASE ~Return(h)
    <3>1. pc[h] = "grn" /\ Goto(h, "write") /\ UNCHANGED loc
      BY <1>1, <2>3 DEF CheckGrn
    <3>2. Sound("write", loc[h])
      BY <1>l, <3>1, Labels DEF Sound
    <3>3. loc' = [loc EXCEPT ![h] = loc[h]]
      BY <3>1 DEF HandlersSound, HandlerTypes
    <3>4. QED
      BY <1>l, <2>1, <3>1, <3>2, <3>3, Labels DEF HandlerStep
  <2>4. QED
    BY <2>1, <2>2, <2>3
<1>2. ASSUME Write(h) PROVE FilingTypes' /\ HandlerStep(h)
  <2>1. WrittenSteps(h) \in [Steps -> StepState]
    BY <1>r, TickedIsSteps DEF WrittenSteps
  <2>2. FilingTypes'
    BY <1>2, <1>r, <2>1 DEF Write, FilingTypes, others, bounds, TrackingStatus
  <2>3. HandlerStep(h)
    BY <1>2, Returns, GoesOn, Labels DEF Write
  <2>4. QED
    BY <2>2, <2>3
<1>3. ASSUME Insert(h) PROVE FilingTypes' /\ HandlerStep(h)
  <2>1. FilingTypes'
    BY <1>3, QuietTypes DEF Insert, FilingTypes, filing, bounds
  <2>2. HandlerStep(h)
    BY <1>3, Returns, GoesOn, Labels DEF Insert
  <2>3. QED
    BY <2>1, <2>2
<1>4. ASSUME Tick(h) PROVE FilingTypes' /\ HandlerStep(h)
  <2>1. FeeStep(h) \in [Steps -> StepState]
    BY <1>r, TickedIsSteps DEF FeeStep
  <2>2. FilingTypes'
    BY <1>4, <2>1, QuietTypes DEF Tick, FilingTypes, others, bounds
  <2>3. HandlerStep(h)
    BY <1>4, Returns, GoesOn, Labels DEF Tick
  <2>4. QED
    BY <2>2, <2>3
<1>5. ASSUME SetDocuments(h) PROVE FilingTypes' /\ HandlerStep(h)
  <2>0. listed' \subseteq Nat
    <3>1. 1 .. papers \subseteq Nat /\ listed \subseteq Nat
      BY DEF FilingTypes
    <3>2. listed' = listed \/ listed' \in SUBSET (1 .. papers)
      BY <1>5 DEF SetDocuments
    <3>3. QED
      BY <3>1, <3>2
  <2>1. FilingTypes'
    BY <1>5, <2>0 DEF SetDocuments, BundleAfter, FilingTypes, filing, bounds
  <2>2. QED
    BY <1>5, <2>1, Returns DEF SetDocuments
<1>6. ASSUME BuildBundle(h) PROVE FilingTypes' /\ HandlerStep(h)
  <2>1. FilingTypes'
    BY <1>6, <1>r DEF BuildBundle, FilingTypes, filing, bounds
  <2>2. QED
    BY <1>6, <2>1, Returns DEF BuildBundle
<1>7. ASSUME Delete(h) PROVE FilingTypes' /\ HandlerStep(h)
  <2>1. FilingTypes'
    BY <1>7 DEF Delete, FilingTypes, others, bounds
  <2>2. QED
    BY <1>7, <2>1, Returns DEF Delete
<1>8. QED
  BY <1>1, <1>2, <1>3, <1>4, <1>5, <1>6, <1>7

\* attachCnr, and what the tracker finds.
LEMMA AttachSteps ==
    ASSUME FilingTypes, HandlersSound, NEW h \in Handlers,
           Attach(h) \/ SetCnr(h) \/ Register(h) \/ Lookup(h) \/ TrackDeferred(h)
    PROVE  FilingTypes' /\ HandlerStep(h)
<1>l. loc[h] \in Loc
  BY DEF HandlersSound, HandlerTypes
<1>r. loc[h].cnr \in Cnrs \cup {NoCnr}
  BY <1>l DEF Loc
<1>f. ASSUME AttachFails(h) PROVE tracking' \in TrackingStatus /\ HandlerStep(h)
  <2>1. tracking' \in TrackingStatus
    BY <1>f DEF AttachFails, FilingTypes, TrackingStatus
  <2>2. HandlerStep(h)
    BY <1>f, Returns, GoesOn, Labels DEF AttachFails
  <2>3. QED
    BY <2>1, <2>2
<1>1. ASSUME Attach(h) PROVE FilingTypes' /\ HandlerStep(h)
  <2>1. tracking' \in TrackingStatus /\ HandlerStep(h)
    BY <1>1, <1>f, GoesOn, Labels DEF Attach, FilingTypes
  <2>2. FilingTypes'
    BY <1>1, <2>1 DEF Attach, FilingTypes, others, bounds
  <2>3. QED
    BY <2>1, <2>2
<1>2. ASSUME SetCnr(h) PROVE FilingTypes' /\ HandlerStep(h)
  <2>1. tracking' \in TrackingStatus /\ HandlerStep(h)
    BY <1>2, <1>f, GoesOn, Labels DEF SetCnr, FilingTypes
  <2>2. FilingTypes'
    BY <1>2, <1>r, <2>1, QuietTypes DEF SetCnr, FilingTypes, bounds
  <2>3. QED
    BY <2>1, <2>2
<1>3. ASSUME Register(h) PROVE FilingTypes' /\ HandlerStep(h)
  <2>1. "registered" \in Status /\ "matched" \in TrackingStatus
    BY DEF Status, TrackingStatus
  <2>2. FilingTypes'
    BY <1>3, <1>r, <2>1, QuietTypes DEF Register, FilingTypes, others, bounds
  <2>3. HandlerStep(h)
    <3>1. CASE Return(h)
      BY <3>1, Returns
    <3>2. CASE ~Return(h)
      <4> DEFINE r == [loc[h] EXCEPT !.read = "registered", !.path = <<>>]
      <4>1. loc' = [loc EXCEPT ![h].read = "registered", ![h].path = <<>>] /\ Goto(h, "fee")
        BY <1>3, <3>2 DEF Register
      <4>2. [loc EXCEPT ![h].read = "registered", ![h].path = <<>>] = [loc EXCEPT ![h] = r]
        BY DEF HandlersSound, HandlerTypes
      <4>0. <<>> \in Seq(Nodes)
        BY EmptySeq
      <4>3. r \in Loc /\ r.path = <<>>
        BY <1>l, <2>1, <4>0 DEF Loc
      <4> HIDE DEF r
      <4>4. Sound("fee", r)
        BY <4>3, Labels DEF Sound, Chain
      <4>5. QED
        BY <4>1, <4>2, <4>3, <4>4, Labels DEF HandlerStep
    <3>3. QED
      BY <3>1, <3>2
  <2>4. QED
    BY <2>2, <2>3
<1>4. ASSUME Lookup(h) PROVE FilingTypes' /\ HandlerStep(h)
  <2>1. tracking' \in TrackingStatus /\ cands' \subseteq Cnrs
    BY <1>4 DEF Lookup, FilingTypes, TrackingStatus
  <2>2. FilingTypes'
    BY <1>4, <2>1 DEF Lookup, FilingTypes, others, bounds
  <2>3. HandlerStep(h)
    <3>1. CASE Return(h)
      BY <3>1, Returns
    <3>2. CASE ~Return(h)
      <4>1. PICK c \in Cnrs : loc' = [loc EXCEPT ![h].cnr = c] /\ Goto(h, "attach")
        BY <1>4, <3>2 DEF Lookup
      <4>2. QED
        BY <4>1, LearnsCnr, Labels
    <3>3. QED
      BY <3>1, <3>2
  <2>4. QED
    BY <2>2, <2>3
<1>5. ASSUME TrackDeferred(h) PROVE FilingTypes' /\ HandlerStep(h)
  <2>1. FilingTypes'
    BY <1>5 DEF TrackDeferred, FilingTypes, TrackingStatus, others, bounds
  <2>2. QED
    BY <1>5, <2>1, Returns DEF TrackDeferred
<1>6. QED
  BY <1>1, <1>2, <1>3, <1>4, <1>5

\* What a sync finds to do: the moves it plans are allowed from the status it reads.
Planned(h) == LET goal == GoalFor(status, loc[h].snap, portalObjected)
              IN  IF goal = status THEN <<>> ELSE PathTo(status, goal)

LEMMA PlannedIsAWalk ==
    ASSUME FilingTypes, HandlersSound, NEW h \in Handlers
    PROVE  Planned(h) \in Seq(Nodes) /\ Chain(status, Planned(h))
<1> DEFINE goal == GoalFor(status, loc[h].snap, portalObjected)
<1>1. status \in Status /\ loc[h].snap \in Portal /\ portalObjected \in BOOLEAN
  BY DEF FilingTypes, HandlersSound, HandlerTypes, Loc
<1>2. goal # status => goal \in Nodes
  BY <1>1, GoalIsANode
<1>3. Planned(h) = IF goal = status THEN <<>> ELSE PathTo(status, goal)
  BY DEF Planned
<1> HIDE DEF goal
<1>4. CASE goal = status
  BY <1>3, <1>4 DEF Chain
<1>5. CASE goal # status
  BY <1>1, <1>2, <1>3, <1>5, PathToTypes
<1>6. QED
  BY <1>4, <1>5

LEMMA LoadFilingSteps ==
    ASSUME FilingTypes, HandlersSound, NEW h \in Handlers, LoadFiling(h)
    PROVE  FilingTypes' /\ HandlerStep(h)
<1>1. FilingTypes'
  BY DEF LoadFiling, FilingTypes, filing, others, bounds
<1>2. CASE Return(h)
  BY <1>1, <1>2, Returns
<1>3. CASE ~Return(h)
  <2> DEFINE path == Planned(h)
             r == [loc[h] EXCEPT !.read = status, !.path = path]
  <2>1. \E l \in {"fee", "hop"} :
           Goto(h, l) /\ loc' = [loc EXCEPT ![h].read = status, ![h].path = path]
    BY <1>3 DEF LoadFiling, Planned
  <2>2. loc[h] \in Loc /\ status \in Status /\ loc \in [Handlers -> Loc]
    BY DEF HandlersSound, HandlerTypes, FilingTypes
  <2>3. path \in Seq(Nodes) /\ Chain(status, path)
    BY PlannedIsAWalk
  <2> HIDE DEF path
  <2>4. r \in Loc /\ r.read = status /\ r.path = path
    BY <2>2, <2>3 DEF Loc
  <2>5. [loc EXCEPT ![h].read = status, ![h].path = path] = [loc EXCEPT ![h] = r]
    BY <2>2
  <2> HIDE DEF r
  <2>6. \A l \in {"fee", "hop"} : Sound(l, r)
    BY <2>3, <2>4, Labels DEF Sound
  <2>7. HandlerStep(h)
    BY <2>1, <2>4, <2>5, <2>6, Labels DEF HandlerStep
  <2>8. QED
    BY <1>1, <2>7
<1>4. QED
  BY <1>2, <1>3

LEMMA HopSteps ==
    ASSUME FilingTypes, HandlersSound, NEW h \in Handlers, Hop(h)
    PROVE  FilingTypes' /\ HandlerStep(h)
<1> DEFINE to == Head(loc[h].path)
           rest == Tail(loc[h].path)
           r == [loc[h] EXCEPT !.read = to, !.path = rest]
<1>1. loc[h] \in Loc /\ loc \in [Handlers -> Loc] /\ Chain(loc[h].read, loc[h].path)
  BY DEF HandlersSound, HandlerTypes, Sound
<1>2. loc[h].path \in Seq(Nodes) /\ loc[h].path # <<>> /\ loc[h].read \in Status
  BY <1>1 DEF Loc, Hop
<1>3. to \in Nodes /\ rest \in Seq(Nodes) /\ Chain(to, rest)
  BY <1>1, <1>2, ChainGoesOn
<1>4. to \in Status
  BY <1>3 DEF Nodes
<1>5. Ticked(steps, StepsFor(to)) \in [Steps -> StepState]
  BY TickedIsSteps DEF FilingTypes
<1>6. FilingTypes'
  BY <1>4, <1>5, QuietTypes DEF Hop, FilingTypes, TrackingStatus, others, bounds
<1>7. CASE Return(h)
  BY <1>6, <1>7, Returns
<1>8. CASE ~Return(h)
  <2>1. \E l \in {"fee", "hop"} :
           Goto(h, l) /\ loc' = [loc EXCEPT ![h].read = to, ![h].path = Tail(@)]
    BY <1>8 DEF Hop
  <2> HIDE DEF to
  <2>2. [loc EXCEPT ![h].read = to, ![h].path = Tail(@)] = [loc EXCEPT ![h] = r]
    BY <1>1
  <2> HIDE DEF rest
  <2>3. r \in Loc /\ r.read = to /\ r.path = rest
    BY <1>1, <1>3, <1>4 DEF Loc
  <2> HIDE DEF r
  <2>4. \A l \in {"fee", "hop"} : Sound(l, r)
    BY <1>3, <2>3, Labels DEF Sound
  <2>5. HandlerStep(h)
    BY <2>1, <2>2, <2>3, <2>4, Labels DEF HandlerStep
  <2>6. QED
    BY <1>6, <2>5
<1>9. QED
  BY <1>7, <1>8

LEMMA SyncSteps ==
    ASSUME FilingTypes, HandlersSound, NEW h \in Handlers, ReadMatter(h) \/ SyncFee(h)
    PROVE  FilingTypes' /\ HandlerStep(h)
<1>1. ASSUME ReadMatter(h) PROVE FilingTypes' /\ HandlerStep(h)
  <2>1. FilingTypes'
    BY <1>1 DEF ReadMatter, FilingTypes, filing, others, events, bounds
  <2>2. \E l \in {"keep", "attach"} : Goto(h, l) /\ loc' = [loc EXCEPT ![h].cnr = CourtCnr]
    BY <1>1 DEF ReadMatter
  <2>3. CourtCnr \in Cnrs \cup {NoCnr}
    BY FilingAssumption
  <2>4. QED
    BY <2>1, <2>2, <2>3, LearnsCnr, Labels
<1>2. ASSUME SyncFee(h) PROVE FilingTypes' /\ HandlerStep(h)
  <2>1. FilingTypes'
    BY <1>2 DEF SyncFee, FilingTypes, filing, others, events, bounds
  <2>2. HandlerStep(h)
    BY <1>2, GoesOn, Labels DEF SyncFee
  <2>3. QED
    BY <2>1, <2>2
<1>3. QED
  BY <1>1, <1>2

\* A sync that has a copy of the paper in hand.
LEMMA HasCopy ==
    ASSUME HandlersSound, NEW h \in Handlers, NEW k \in Nat,
           Goto(h, "link"), loc' = [loc EXCEPT ![h].copy = k]
    PROVE  HandlerStep(h)
<1> DEFINE r == [loc[h] EXCEPT !.copy = k]
<1>1. loc[h] \in Loc /\ Sound(pc[h], loc[h])
  BY DEF HandlersSound, HandlerTypes
<1>2. r \in Loc /\ r.read = loc[h].read /\ r.path = loc[h].path
  BY <1>1 DEF Loc
<1>3. Sound("link", r)
  BY <1>1, <1>2, Labels DEF Sound
<1>4. loc' = [loc EXCEPT ![h] = r]
  OBVIOUS
<1> HIDE DEF r
<1>5. QED
  BY <1>2, <1>3, <1>4, Labels DEF HandlerStep

\* The portal's papers.
LEMMA PaperSteps ==
    ASSUME FilingTypes, HandlersSound, NEW h \in Handlers,
           FindPaper(h) \/ SavePaper(h) \/ LinkPaper(h) \/ ListPaper(h)
    PROVE  FilingTypes' /\ HandlerStep(h)
<1>p. papers \in Nat /\ \A k \in 1 .. papers : k \in Nat
  BY DEF FilingTypes
<1>1. ASSUME FindPaper(h) PROVE FilingTypes' /\ HandlerStep(h)
  <2>1. FilingTypes'
    BY <1>1, QuietTypes DEF FindPaper, FilingTypes, filing, others, bounds
  <2>2. HandlerStep(h)
    BY <1>1, <1>p, HasCopy, Returns, GoesOn, Labels DEF FindPaper
  <2>3. QED
    BY <2>1, <2>2
<1>2. ASSUME SavePaper(h) PROVE FilingTypes' /\ HandlerStep(h)
  <2>1. FilingTypes'
    BY <1>2, <1>p, QuietTypes DEF SavePaper, FilingTypes, filing, bounds
  <2>2. HandlerStep(h)
    <3>1. CASE Return(h)
      BY <3>1, Returns
    <3>2. CASE ~Return(h)
      <4>1. papers + 1 \in Nat /\ Goto(h, "link") /\ loc' = [loc EXCEPT ![h].copy = papers + 1]
        BY <1>2, <1>p, <3>2 DEF SavePaper
      <4>2. QED
        BY <4>1, HasCopy
    <3>3. QED
      BY <3>1, <3>2
  <2>3. QED
    BY <2>1, <2>2
<1>3. ASSUME LinkPaper(h) PROVE FilingTypes' /\ HandlerStep(h)
  <2>1. FilingTypes'
    BY <1>3, QuietTypes DEF LinkPaper, FilingTypes, filing, others, bounds
  <2>2. CASE Return(h)
    BY <2>1, <2>2, Returns
  <2>3. CASE ~Return(h)
    <3>1. loc[h].read \in LINK_DOCS /\ Goto(h, "list") /\ UNCHANGED loc
      BY <1>3, <2>3 DEF LinkPaper
    <3>2. loc[h] \in Loc /\ Sound(pc[h], loc[h])
      BY DEF HandlersSound, HandlerTypes
    <3>3. Sound("list", loc[h])
      BY <3>1, <3>2, Labels DEF Sound
    <3>4. loc' = [loc EXCEPT ![h] = loc[h]]
      BY <3>1 DEF HandlersSound, HandlerTypes
    <3>5. QED
      BY <2>1, <3>1, <3>2, <3>3, <3>4, Labels DEF HandlerStep
  <2>4. QED
    BY <2>2, <2>3
<1>4. ASSUME ListPaper(h) PROVE FilingTypes' /\ HandlerStep(h)
  <2>1. loc[h].copy \in Nat
    BY DEF HandlersSound, HandlerTypes, Loc
  <2>0. listed' \subseteq Nat /\ docs' \in Nat
    <3>1. listed \subseteq Nat /\ docs \in Nat
      BY DEF FilingTypes
    <3>2. \/ listed' = listed /\ docs' = docs
          \/ listed' = listed \cup {loc[h].copy} /\ docs' = docs + 1
      BY <1>4 DEF ListPaper
    <3>3. {loc[h].copy} \subseteq Nat
      BY <2>1
    <3>4. listed' \subseteq Nat
      BY <3>1, <3>2, <3>3
    <3>5. docs' \in Nat
      BY <3>1, <3>2
    <3>6. QED
      BY <3>4, <3>5
  <2>2. FilingTypes'
    BY <1>4, <2>0, QuietTypes DEF ListPaper, FilingTypes, filing, bounds
  <2>3. QED
    BY <1>4, <2>2, Returns DEF ListPaper
<1>5. QED
  BY <1>1, <1>2, <1>3, <1>4

-----------------------------------------------------------------------------
(* The invariant *)

\* The portal's moves and the single statements leave the handlers alone.
LEMMA OutsideSteps ==
    ASSUME FilingTypes,
           \/ PortalMoves \/ EnterNumbers \/ DeletePayment
           \/ \E k \in Steps, v \in StepState : TickStep(k, v)
           \/ \E c \in Cnrs : EditMatter(c)
    PROVE  FilingTypes' /\ UNCHANGED <<pc, loc>>
<1>o. Request => ops' \in 0 .. MaxOps
  BY FilingAssumption DEF Request, FilingTypes
<1>1. ASSUME PortalMoves PROVE FilingTypes' /\ UNCHANGED <<pc, loc>>
  <2>1. moves' \in 0 .. MaxPortal /\ portal' \in Portal
    BY <1>1, FilingAssumption DEF PortalMoves, FilingTypes
  <2>2. QED
    BY <1>1, <2>1 DEF PortalMoves, FilingTypes, filing, others
<1>2. ASSUME EnterNumbers PROVE FilingTypes' /\ UNCHANGED <<pc, loc>>
  BY <1>o, <1>2 DEF EnterNumbers, Request, FilingTypes, TrackingStatus, others
<1>3. ASSUME DeletePayment PROVE FilingTypes' /\ UNCHANGED <<pc, loc>>
  BY <1>o, <1>3 DEF DeletePayment, HasPayment, Request, FilingTypes, filing
<1>4. ASSUME NEW k \in Steps, NEW v \in StepState, TickStep(k, v)
      PROVE  FilingTypes' /\ UNCHANGED <<pc, loc>>
  BY <1>o, <1>4 DEF TickStep, Request, FilingTypes, others
<1>5. ASSUME NEW c \in Cnrs, EditMatter(c) PROVE FilingTypes' /\ UNCHANGED <<pc, loc>>
  BY <1>o, <1>5 DEF EditMatter, Request, FilingTypes, filing
<1>6. QED
  BY <1>1, <1>2, <1>3, <1>4, <1>5

LEMMA CrashSteps ==
    ASSUME FilingTypes, NEW h \in Handlers, Crash(h)
    PROVE  FilingTypes' /\ HandlerStep(h)
<1>1. faults' \in 0 .. MaxFaults
  BY FilingAssumption DEF Crash, FilingTypes
<1>2. FilingTypes'
  BY <1>1 DEF Crash, FilingTypes, filing, others
<1>3. QED
  BY <1>2, Returns DEF Crash

LEMMA FilingInit == Init => FilingInv
<1> SUFFICES ASSUME Init PROVE FilingInv
  OBVIOUS
<1>1. AllPending \in [Steps -> StepState]
  BY DEF AllPending, StepState
<1>2. steps \in [Steps -> StepState]
  <2>1. [AllPending EXCEPT !["vakalat"] = "not_applicable"] \in [Steps -> StepState]
    BY <1>1 DEF StepState
  <2>2. QED
    BY <1>1, <2>1, TickedIsSteps DEF Init
<1>3. portal \in Portal
  BY DEF Init, Portal, PortalStage
<1>4. FilingTypes
  <2>1. numbered \in BOOLEAN /\ portalObjected \in BOOLEAN /\ exists \in BOOLEAN
    BY DEF Init
  <2>2. payments \in Nat /\ bundle \in Nat /\ docs \in Nat /\ papers \in Nat /\ listed \subseteq Nat
    BY DEF Init
  <2>3. ops \in 0 .. MaxOps /\ moves \in 0 .. MaxPortal /\ faults \in 0 .. MaxFaults
    BY FilingAssumption DEF Init
  <2>4. /\ status \in Status /\ fcnr \in Cnrs \cup {NoCnr} /\ tracking \in TrackingStatus
        /\ cands \subseteq Cnrs /\ mcnr \in Cnrs \cup {NoCnr}
    BY DEF Init, Status, TrackingStatus
  <2>5. objector \in {"none", "advocate", "portal"} /\ quiet \in {"no", "syncing", "settled"}
    BY DEF Init
  <2>6. QED
    BY <1>2, <1>3, <2>1, <2>2, <2>3, <2>4, <2>5 DEF FilingTypes
<1>5. HandlersSound
  BY NoLocIsSound, Labels DEF Init, HandlersSound, HandlerTypes
<1>6. QED
  BY <1>4, <1>5, FilingInvParts

LEMMA FilingNext == FilingInv /\ [Next]_vars => FilingInv'
<1> SUFFICES ASSUME FilingTypes, HandlersSound, [Next]_vars
             PROVE  FilingTypes' /\ HandlersSound'
  <2>1. (FilingInv <=> FilingTypes /\ HandlersSound)'
    BY FilingInvParts, PTL
  <2>2. QED
    BY <2>1, FilingInvParts
<1>1. ASSUME UNCHANGED <<pc, loc>> PROVE HandlersSound'
  BY <1>1 DEF HandlersSound, HandlerTypes, Sound, Chain
<1>2. CASE UNCHANGED vars
  <2>1. FilingTypes'
    BY <1>2 DEF FilingTypes, vars, filing, others, events, bounds
  <2>2. QED
    BY <1>1, <1>2, <2>1 DEF vars
<1>3. CASE \/ PortalMoves \/ EnterNumbers \/ DeletePayment
           \/ \E k \in Steps, v \in StepState : TickStep(k, v)
           \/ \E c \in Cnrs : EditMatter(c)
  BY <1>1, <1>3, OutsideSteps
<1>4. ASSUME NEW h \in Handlers,
             BeginRequest(h) \/ BeginTrack(h) \/ BeginSync(h) \/ Work(h) \/ Crash(h)
      PROVE  FilingTypes' /\ HandlersSound'
  <2>1. CASE BeginRequest(h)
    BY <2>1, BeginRequestSteps, SoundNext
  <2>2. CASE BeginTrack(h) \/ BeginSync(h)
    BY <2>2, BeginRunSteps, SoundNext
  <2>3. CASE Work(h)
    <3>1. FilingTypes' /\ HandlerStep(h)
      BY <2>3, RequestSteps, AttachSteps, LoadFilingSteps, HopSteps, SyncSteps, PaperSteps DEF Work
    <3>2. QED
      BY <3>1, SoundNext
  <2>4. CASE Crash(h)
    BY <2>4, CrashSteps, SoundNext
  <2>5. QED
    BY <1>4, <2>1, <2>2, <2>3, <2>4
<1>5. QED
  BY <1>2, <1>3, <1>4 DEF Next

LEMMA FilingKept == Spec => []FilingInv
BY FilingInit, FilingNext, PTL DEF Spec

-----------------------------------------------------------------------------
(* Theorems *)

\* The filing, its documents and the handlers' readings keep their types, and no
\* bound is passed, for any number of handlers.
THEOREM FilingTypesKept == Spec => []TypeOK
BY FilingKept, PTL DEF FilingInv

\* While the sync walks its path (advance), others may move, reopen or register
\* the filing: still each of its updates is one the status machine allows from
\* the status the filing has, since the update looks for the status the walk has
\* reached, and pathTo planned the walk from there.
THEOREM HopsStayAllowed == Spec => HopsAllowed
<1>1. ASSUME FilingInv, NEW h \in Handlers, Hop(h)
      PROVE  status' = status \/ CanTransition(status, status')
  <2>1. CASE UNCHANGED status
    BY <2>1
  <2>2. CASE Believed(h) /\ status' = Head(loc[h].path)
    <3>1. loc[h].path \in Seq(Nodes) /\ loc[h].path # <<>> /\ loc[h].read \in Status
      BY <1>1 DEF FilingInv, TypeOK, Loc, Hop
    <3>2. CanTransition(loc[h].read, Head(loc[h].path))
      BY <1>1, <3>1, ChainGoesOn DEF FilingInv, Walks
    <3>3. QED
      BY <2>2, <3>2 DEF Believed
  <2>3. QED
    BY <1>1, <2>1, <2>2 DEF Hop
<1>2. FilingInv => [\A h \in Handlers : Hop(h) => status' = status \/ CanTransition(status, status')]_vars
  BY <1>1
<1>3. QED
  BY <1>2, FilingKept, PTL DEF HopsAllowed

\* The steps that write the filing's status: a request's update, a registration,
\* a move of the sync.
LEMMA StatusWriters ==
    ASSUME [Next]_vars, status' # status
    PROVE  \E h \in Handlers : Write(h) \/ Register(h) \/ Hop(h)
<1>1. ~UNCHANGED vars
  BY DEF vars, filing
<1>2. /\ ~PortalMoves /\ ~EnterNumbers /\ ~DeletePayment
      /\ \A k \in Steps, v \in StepState : ~TickStep(k, v)
      /\ \A c \in Cnrs : ~EditMatter(c)
  BY DEF PortalMoves, EnterNumbers, DeletePayment, TickStep, EditMatter, filing
<1>3. PICK h \in Handlers : BeginRequest(h) \/ BeginTrack(h) \/ BeginSync(h) \/ Work(h) \/ Crash(h)
  BY <1>1, <1>2 DEF Next
<1>4. ~BeginRequest(h) /\ ~BeginTrack(h) /\ ~BeginSync(h) /\ ~Crash(h)
  BY DEF BeginRequest, BeginTransition, BeginPayment, BeginDocuments, BeginBundle, BeginRemove,
         BeginChoose, Begin, BeginTrack, BeginSync, Crash, filing
<1>5. /\ ~CheckGrn(h) /\ ~Insert(h) /\ ~Tick(h) /\ ~SetDocuments(h) /\ ~BuildBundle(h)
      /\ ~Delete(h) /\ ~Attach(h) /\ ~SetCnr(h) /\ ~Lookup(h) /\ ~TrackDeferred(h)
      /\ ~LoadFiling(h) /\ ~ReadMatter(h) /\ ~SyncFee(h)
      /\ ~FindPaper(h) /\ ~SavePaper(h) /\ ~LinkPaper(h) /\ ~ListPaper(h)
  BY DEF CheckGrn, Insert, Tick, SetDocuments, BuildBundle, Delete, Attach, SetCnr, Lookup, TrackDeferred,
         LoadFiling, ReadMatter, SyncFee, FindPaper, SavePaper, LinkPaper, ListPaper, filing
<1>6. QED
  BY <1>3, <1>4, <1>5 DEF Work

\* A registered filing leaves "registered" only by the update of a transition
\* that had read another status: no sync, tracker run or request that sees the
\* registration undoes it (the transition's update is by id alone).
THEOREM RegistrationIsNotUndone == Spec => RegistrationUndoneOnlyByStale
<1> DEFINE Undoes(h) == /\ pc[h] = "write" /\ loc[h].read # "registered"
                        /\ status' = loc[h].to
<1>1. ASSUME FilingInv, [Next]_vars, status = "registered", status' # "registered"
      PROVE  \E h \in Handlers : Undoes(h)
  <2>1. PICK h \in Handlers : Write(h) \/ Register(h) \/ Hop(h)
    BY <1>1, StatusWriters
  <2>2. ~Register(h)
    BY <1>1 DEF Register
  <2>3. ~Hop(h)
    <3> SUFFICES ASSUME Hop(h) PROVE FALSE
      OBVIOUS
    <3>1. loc[h].path \in Seq(Nodes) /\ loc[h].path # <<>> /\ loc[h].read \in Status
      BY <1>1 DEF FilingInv, TypeOK, Loc, Hop
    <3>2. CanTransition(loc[h].read, Head(loc[h].path))
      BY <1>1, <3>1, ChainGoesOn DEF FilingInv, Walks
    <3>3. loc[h].read = "registered"
      BY <1>1 DEF Hop, Believed
    <3>4. QED
      BY <3>2, <3>3, RegisteredIsFinal
  <2>4. Write(h)
    BY <2>1, <2>2, <2>3
  <2>5. CanTransition(loc[h].read, loc[h].to)
    BY <1>1, <2>4 DEF FilingInv, Asked, Write
  <2>6. loc[h].read # "registered"
    BY <2>5, RegisteredIsFinal
  <2>7. status' = loc[h].to
    BY <1>1, <2>4 DEF Write
  <2>8. QED
    BY <2>4, <2>6, <2>7 DEF Write
<1>2. FilingInv /\ [Next]_vars =>
        [status = "registered" /\ status' # "registered" =>
          \E h \in Handlers : /\ pc[h] = "write" /\ loc[h].read # "registered"
                              /\ status' = loc[h].to]_vars
  BY <1>1
<1>3. QED
  BY <1>2, FilingKept, PTL DEF Spec, RegistrationUndoneOnlyByStale

\* A bundle and the document list part only when a build that read the list
\* before it changed writes its bundle after, or when the sync, which believes
\* the filing to be submitted, refiled, accepted or registered (LINK_DOCS), lists
\* the portal's paper and keeps the bundle: replacing the list drops the bundle in
\* the same transaction, and nothing else writes either of the two.
THEOREM BundlesOfDocuments == Spec => BundleFollowsDocuments
<1> DEFINE Known(h) == \/ BuildBundle(h) /\ loc[h].docs # docs
                       \/ ListPaper(h) /\ loc[h].read \in LINK_DOCS
<1>1. ASSUME FilingInv, [Next]_vars, bundle \in {0, docs}, bundle' \notin {0, docs'}
      PROVE  \E h \in Handlers : Known(h)
  <2>1. ~UNCHANGED <<bundle, docs>>
    BY <1>1
  <2>2. ~UNCHANGED vars
    BY <2>1 DEF vars, others
  <2>3. /\ ~PortalMoves /\ ~EnterNumbers /\ ~DeletePayment
        /\ \A k \in Steps, v \in StepState : ~TickStep(k, v)
        /\ \A c \in Cnrs : ~EditMatter(c)
    BY <2>1 DEF PortalMoves, EnterNumbers, DeletePayment, TickStep, EditMatter, others
  <2>4. PICK h \in Handlers : BeginRequest(h) \/ BeginTrack(h) \/ BeginSync(h) \/ Work(h) \/ Crash(h)
    BY <1>1, <2>2, <2>3 DEF Next
  <2>5. ~BeginRequest(h) /\ ~BeginTrack(h) /\ ~BeginSync(h) /\ ~Crash(h)
    BY <2>1 DEF BeginRequest, BeginTransition, BeginPayment, BeginDocuments, BeginBundle, BeginRemove,
           BeginChoose, Begin, BeginTrack, BeginSync, Crash, others
  <2>6. /\ ~CheckGrn(h) /\ ~Write(h) /\ ~Insert(h) /\ ~Tick(h)
        /\ ~Delete(h) /\ ~Attach(h) /\ ~SetCnr(h) /\ ~Register(h) /\ ~Lookup(h) /\ ~TrackDeferred(h)
        /\ ~LoadFiling(h) /\ ~Hop(h) /\ ~ReadMatter(h) /\ ~SyncFee(h)
        /\ ~FindPaper(h) /\ ~SavePaper(h) /\ ~LinkPaper(h)
    BY <2>1 DEF CheckGrn, Write, Insert, Tick, Delete, Attach, SetCnr, Register, Lookup, TrackDeferred,
           LoadFiling, Hop, ReadMatter, SyncFee, FindPaper, SavePaper, LinkPaper, others
  <2>7. ~SetDocuments(h)
    BY <1>1, <2>1 DEF SetDocuments, BundleAfter
  <2>8. BuildBundle(h) \/ ListPaper(h)
    BY <2>4, <2>5, <2>6, <2>7 DEF Work
  <2>9. BuildBundle(h) => loc[h].docs # docs
    BY <1>1 DEF BuildBundle
  <2>10. ListPaper(h) => loc[h].read \in LINK_DOCS
    BY <1>1 DEF ListPaper, FilingInv, Lists
  <2>11. QED
    BY <2>8, <2>9, <2>10
<1>2. FilingInv /\ [Next]_vars =>
        [(bundle \in {0, docs} /\ bundle' \notin {0, docs'}) =>
          \E h \in Handlers : \/ BuildBundle(h) /\ loc[h].docs # docs
                              \/ ListPaper(h) /\ loc[h].read \in LINK_DOCS]_vars
  BY <1>1
<1>3. QED
  BY <1>2, FilingKept, PTL DEF Spec, BundleFollowsDocuments

-----------------------------------------------------------------------------
(* A second sync of the same portal *)

\* The sync has nothing to do: it would leave the status, or knows no way.
Rests == LET goal == GoalFor(status, portal, portalObjected)
         IN  goal = status \/ PathTo(status, goal) = <<>>
Paid == portal.paid => payments > 0
\* The matter has the portal's paper, and a final filing lists it.
Filed == Shown(portal) => papers > 0 /\ (papers = 1 /\ status \in LINK_DOCS => 1 \in listed)
\* No objection that the sync itself records makes the goal another one.
Stands(s) == \A b \in BOOLEAN : GoalFor(s, portal, b) = s

Syncs(h) == pc[h] # "idle" /\ loc[h].op = "sync"

\* A sync that is alone with the filing sees the portal as it is, has left the
\* filing at rest once it comes to the fee, and has entered the fee once it comes
\* to the papers.
Alone(h) ==
    /\ loc[h].snap = portal
    /\ pc[h] \in {"load", "hop", "attach", "setCnr", "register", "keep", "fee", "insert", "tick",
                   "paper", "save", "link", "list"}
    /\ pc[h] = "hop" => /\ loc[h].read = status /\ loc[h].path # <<>>
                        /\ Stands(loc[h].path[Len(loc[h].path)])
    /\ pc[h] \in {"fee", "insert", "tick", "paper", "save", "link", "list"} =>
          Rests /\ loc[h].read = status
    /\ pc[h] = "tick" => payments > 0
    /\ pc[h] \in {"paper", "save", "link", "list"} => Paid
    /\ pc[h] \in {"save", "link", "list"} => Shown(portal)
    /\ pc[h] \in {"link", "list"} => loc[h].copy \in 1 .. papers

SyncInv(h) ==
    /\ quiet # "no" => exists
    /\ quiet # "no" /\ Syncs(h) => Alone(h)
    /\ quiet = "settled" =>
          /\ Rests /\ Paid /\ Filed
          /\ Syncs(h) => pc[h] \in {"load", "fee", "paper", "link"} \/ (pc[h] = "list" /\ papers # 1)

OneSync  == quiet = "syncing" => \A g, h \in Handlers : Syncs(g) /\ Syncs(h) => g = h
QuietInv == OneSync /\ \A h \in Handlers : SyncInv(h)

LEMMA Ranks ==
    /\ RANK["ready"] = 2 /\ RANK["efiled"] = 3 /\ RANK["submitted"] = 4
    /\ RANK["objected"] = 5 /\ RANK["refiled"] = 5 /\ RANK["accepted"] = 6 /\ RANK["registered"] = 7
BY DEF RANK, Status

\* The goal is a fixed point: from there the sync has nowhere else to go,
\* whoever raised the objection.
LEMMA GoalStands ==
    ASSUME NEW s \in Status, NEW p \in Portal, NEW b \in BOOLEAN, NEW c \in BOOLEAN,
           GoalFor(s, p, b) # s
    PROVE  GoalFor(GoalFor(s, p, b), p, c) = GoalFor(s, p, b)
<1> DEFINE t == PortalStatus(p)
<1>1. t \in {"ready", "efiled", "submitted", "accepted", "registered", "objected"}
  BY DEF PortalStatus, Portal, PortalStage
<1>2. CASE t \in {"registered", "objected"}
  <2>1. GoalFor(s, p, b) = t
    BY <1>2 DEF GoalFor
  <2>2. GoalFor(t, p, c) = t
    BY <1>2 DEF GoalFor
  <2>3. QED
    BY <2>1, <2>2
<1>3. CASE t \notin {"registered", "objected"}
  <2>1. GoalFor(s, p, b) \in {t, "refiled"} /\ (GoalFor(s, p, b) = "refiled" => ~(RANK[t] > RANK["refiled"]))
    BY <1>1, <1>3 DEF GoalFor
  <2>2. GoalFor(t, p, c) = t
    BY <1>1, <1>3, Ranks DEF GoalFor
  <2>3. ~(RANK[t] > RANK["refiled"]) => GoalFor("refiled", p, c) = "refiled"
    BY <1>1, <1>3, Ranks DEF GoalFor
  <2>4. QED
    BY <2>1, <2>2, <2>3
<1>4. QED
  BY <1>2, <1>3

\* After a step that others could see there is nothing to keep.
LEMMA Disturbed ==
    ASSUME NEW h \in Handlers, quiet' = "no"
    PROVE  SyncInv(h)'
BY DEF SyncInv

\* A handler that returns leaves no sync at work.
LEMMA ReturnsIdle ==
    ASSUME HandlerTypes, NEW h \in Handlers, Return(h)
    PROVE  pc'[h] = "idle" /\ ~Syncs(h)'
BY DEF HandlerTypes, Return, Goto, Syncs

LEMMA RestsStays ==
    ASSUME UNCHANGED <<status, portal, portalObjected>>
    PROVE  Rests' <=> Rests
BY DEF Rests

\* The portal and the advocate, and what handlers do for them.
LEMMA OutsideDisturbs ==
    ASSUME \/ PortalMoves \/ EnterNumbers \/ DeletePayment
           \/ \E k \in Steps, v \in StepState : TickStep(k, v)
           \/ \E c \in Cnrs : EditMatter(c)
    PROVE  quiet' = "no" /\ UNCHANGED <<pc, loc>>
BY DEF PortalMoves, EnterNumbers, DeletePayment, TickStep, EditMatter, Request

LEMMA RequestDisturbs ==
    ASSUME NEW h \in Handlers,
           \/ BeginRequest(h) \/ Write(h) \/ SetDocuments(h) \/ BuildBundle(h) \/ Delete(h)
           \/ Lookup(h) \/ TrackDeferred(h) \/ Crash(h)
    PROVE  quiet' = "no"
BY DEF BeginRequest, BeginTransition, BeginPayment, BeginDocuments, BeginBundle, BeginRemove,
       BeginChoose, Begin, Request, Write, SetDocuments, BuildBundle, Delete, Lookup,
       TrackDeferred, Crash

\* Requests and the tracker, where they leave the quiet to others.
LEMMA OthersKeepQuiet ==
    ASSUME HandlerTypes, NEW h \in Handlers, SyncInv(h),
           \/ CheckGrn(h) \/ BeginTrack(h)
           \/ /\ loc[h].op # "sync"
              /\ Insert(h) \/ Tick(h) \/ Attach(h) \/ SetCnr(h) \/ Register(h)
    PROVE  SyncInv(h)'
<1>1. CASE CheckGrn(h)
  <2>1. UNCHANGED <<exists, status, portal, portalObjected, payments, papers, listed, quiet>> /\ pc[h] = "grn"
    BY <1>1 DEF CheckGrn, filing, others, events
  <2>2. ~(quiet # "no" /\ Syncs(h))
    BY <2>1 DEF SyncInv, Alone
  <2>3. Syncs(h)' => Syncs(h)
    <3>1. CASE Return(h)
      BY <3>1, ReturnsIdle
    <3>2. CASE ~Return(h)
      BY <1>1, <2>1, <3>2 DEF CheckGrn, Syncs
    <3>3. QED
      BY <3>1, <3>2
  <2>4. Rests' <=> Rests
    BY <2>1, RestsStays
  <2>5. QED
    BY <2>1, <2>2, <2>3, <2>4 DEF SyncInv, Paid, Filed
<1>2. CASE BeginTrack(h)
  <2>1. UNCHANGED <<exists, status, portal, portalObjected, payments, papers, listed, quiet>> /\ pc[h] = "idle"
    BY <1>2 DEF BeginTrack, filing, others, events
  <2>2. loc'[h].op = "track"
    BY <1>2, NoLocIsSound DEF BeginTrack, HandlerTypes, Loc
  <2>3. ~Syncs(h)' /\ ~Syncs(h)
    BY <2>1, <2>2 DEF Syncs
  <2>4. Rests' <=> Rests
    BY <2>1, RestsStays
  <2>5. QED
    BY <2>1, <2>3, <2>4 DEF SyncInv, Paid, Filed
<1>3. ASSUME loc[h].op # "sync", Insert(h) \/ Tick(h) \/ Attach(h) \/ SetCnr(h) \/ Register(h)
      PROVE  SyncInv(h)'
  <2>1. quiet' = "no"
    BY <1>3 DEF Insert, Tick, Attach, SetCnr, Register, Undisturbed, Finished
  <2>2. QED
    BY <2>1, Disturbed
<1>4. QED
  BY <1>1, <1>2, <1>3

\* The steps of a sync, one after the other.
LEMMA SyncLoads ==
    ASSUME FilingTypes, FilingTypes', HandlersSound, NEW h \in Handlers, SyncInv(h), LoadFiling(h)
    PROVE  SyncInv(h)'
<1>t. /\ status \in Status /\ loc[h] \in Loc /\ loc[h].snap \in Portal /\ portalObjected \in BOOLEAN
      /\ HandlerTypes
  BY DEF FilingTypes, HandlersSound, HandlerTypes, Loc
<1>1. /\ UNCHANGED <<exists, status, portal, portalObjected, payments, papers, listed, quiet>> /\ pc[h] = "load"
  BY DEF LoadFiling, filing, others
<1>2. Rests' <=> Rests
  BY <1>1, RestsStays
<1>3. CASE Return(h)
  <2>1. ~exists
    BY <1>t, <1>3 DEF LoadFiling, HandlerTypes, Return, Goto, Pc
  <2>2. quiet' = "no"
    BY <1>1, <2>1 DEF SyncInv
  <2>3. QED
    BY <2>2, Disturbed
<1>4. CASE ~Return(h)
  <2> DEFINE path == Planned(h)
             goal == GoalFor(status, loc[h].snap, portalObjected)
  <2>1. /\ exists /\ loc' = [loc EXCEPT ![h].read = status, ![h].path = path]
        /\ Goto(h, IF path = <<>> THEN "fee" ELSE "hop")
    BY <1>4 DEF LoadFiling, Planned
  <2>2. path \in Seq(Nodes)
    BY PlannedIsAWalk
  <2>3. path = (IF goal = status THEN <<>> ELSE PathTo(status, goal))
    BY DEF Planned
  <2>4. goal # status => goal \in Nodes
    BY <1>t, GoalIsANode
  <2>5. path # <<>> => goal # status /\ path[Len(path)] = goal
    BY <1>t, <2>3, <2>4, PathToTypes
  <2>6. path # <<>> => \A b \in BOOLEAN : GoalFor(goal, loc[h].snap, b) = goal
    BY <1>t, <2>5, GoalStands
  <2> HIDE DEF path
  <2>7. /\ loc'[h].op = loc[h].op /\ loc'[h].snap = loc[h].snap
        /\ loc'[h].read = status /\ loc'[h].path = path
        /\ pc'[h] = IF path = <<>> THEN "fee" ELSE "hop"
    BY <1>t, <2>1 DEF Goto, HandlerTypes, Loc
  <2>8. ASSUME quiet # "no", Syncs(h)
        PROVE  Alone(h)' /\ (path = <<>> => Rests)
    <3>1. loc[h].snap = portal
      BY <2>8 DEF SyncInv, Alone
    <3>2. path = <<>> => Rests
      BY <2>3, <3>1 DEF Rests
    <3>3. path # <<>> => Stands(loc[h].path[Len(loc[h].path)])'
      <4>1. path # <<>> => \A b \in BOOLEAN : GoalFor(path[Len(path)], portal, b) = path[Len(path)]
        BY <2>5, <2>6, <3>1
      <4>2. portal' = portal /\ loc'[h].path = path
        BY <1>1, <2>7
      <4>3. QED
        BY <4>1, <4>2 DEF Stands
    <3>4. QED
      BY <1>1, <1>2, <2>7, <3>1, <3>2, <3>3 DEF Alone
  <2>9. Syncs(h)' <=> Syncs(h)
    BY <1>1, <2>7 DEF Syncs
  <2>10. quiet = "settled" /\ Syncs(h) => path = <<>>
    <3>1. ASSUME quiet = "settled", Syncs(h) PROVE path = <<>>
      <4>1. Rests /\ loc[h].snap = portal
        BY <3>1 DEF SyncInv, Alone
      <4>2. QED
        BY <2>3, <4>1 DEF Rests
    <3>2. QED
      BY <3>1
  <2>11. exists'
    BY <1>1, <2>1
  <2>12. quiet' # "no" /\ Syncs(h)' => Alone(h)'
    BY <1>1, <2>8, <2>9
  <2>13. quiet' = "settled" => Rests' /\ Paid' /\ Filed' /\ (Syncs(h)' => pc'[h] \in {"load", "fee"})
    BY <1>1, <1>2, <2>7, <2>9, <2>10 DEF SyncInv, Paid, Filed
  <2>14. QED
    BY <2>11, <2>12, <2>13 DEF SyncInv
<1>5. QED
  BY <1>3, <1>4

\* A walk of more than one move ends where its rest ends.
LEMMA LastStays ==
    ASSUME NEW p \in Seq(Nodes), p # <<>>, Len(p) # 1
    PROVE  Tail(p) # <<>> /\ Tail(p)[Len(Tail(p))] = p[Len(p)]
<1> DEFINE n == Len(p)
           m == Len(Tail(p))
<1>1. /\ Tail(p) \in Seq(Nodes) /\ n \in Nat \ {0} /\ m = n - 1
      /\ \A i \in 1 .. m : Tail(p)[i] = p[i + 1]
  BY HeadTailProperties, EmptySeq
<1>2. m \in 1 .. m /\ m + 1 = n /\ m # 0
  BY <1>1
<1>3. Tail(p)[m] = p[n]
  BY <1>1, <1>2
<1>4. Tail(p) # <<>>
  BY <1>2, EmptySeq
<1>5. QED
  BY <1>3, <1>4

LEMMA SyncHops ==
    ASSUME FilingTypes, HandlersSound, NEW h \in Handlers, SyncInv(h), Hop(h)
    PROVE  SyncInv(h)'
<1> DEFINE path == loc[h].path
           to == Head(path)
<1>t. HandlerTypes /\ loc[h] \in Loc
  BY DEF HandlersSound, HandlerTypes
<1>1. path \in Seq(Nodes) /\ path # <<>> /\ pc[h] = "hop"
  BY <1>t DEF Hop, Loc
<1>2. UNCHANGED <<exists, portal, payments>> /\ quiet' = Undisturbed(h)
  BY DEF Hop, others
<1>3. CASE Return(h)
  <2>1. ~exists
    BY <1>t, <1>3 DEF Hop, HandlerTypes, Return, Goto, Pc
  <2>2. quiet' = "no"
    BY <1>2, <2>1 DEF SyncInv, Undisturbed
  <2>3. QED
    BY <2>2, Disturbed
<1>4. CASE ~Return(h)
  <2>1. /\ exists /\ loc' = [loc EXCEPT ![h].read = to, ![h].path = Tail(@)]
        /\ Goto(h, IF Len(path) = 1 THEN "fee" ELSE "hop")
    BY <1>4 DEF Hop
  <2>2. /\ loc'[h].op = loc[h].op /\ loc'[h].snap = loc[h].snap
        /\ loc'[h].read = to /\ loc'[h].path = Tail(path)
        /\ pc'[h] = IF Len(path) = 1 THEN "fee" ELSE "hop"
    BY <1>t, <2>1 DEF Goto, HandlerTypes, Loc
  <2>3. Syncs(h)' <=> Syncs(h)
    BY <1>1, <2>2 DEF Syncs
  <2>4. ASSUME quiet # "no", Syncs(h)
        PROVE  Alone(h)' /\ quiet' = "syncing"
    <3>1. /\ loc[h].snap = portal /\ loc[h].read = status
          /\ Stands(path[Len(path)])
      BY <1>1, <2>4 DEF SyncInv, Alone
    <3>2. status' = to
      BY <2>1, <3>1 DEF Hop, Believed
    <3>3. /\ Head(path) = path[1] /\ Tail(path) \in Seq(Nodes) /\ Len(path) \in Nat \ {0}
          /\ Len(Tail(path)) = Len(path) - 1
          /\ \A i \in 1 .. Len(Tail(path)) : Tail(path)[i] = path[i + 1]
      BY <1>1, HeadTailProperties, EmptySeq
    <3>4. ASSUME Len(path) = 1 PROVE Rests'
      <4>1. Stands(status')
        BY <3>1, <3>2, <3>3, <3>4
      <4>2. portalObjected' \in BOOLEAN
        BY DEF Hop, FilingTypes
      <4>3. GoalFor(status', portal', portalObjected') = status'
        BY <1>2, <4>1, <4>2 DEF Stands
      <4>4. QED
        BY <4>3 DEF Rests
    <3>5. ASSUME Len(path) # 1
          PROVE  Tail(path) # <<>> /\ Tail(path)[Len(Tail(path))] = path[Len(path)]
      BY <1>1, <3>5, LastStays
    <3>6. Len(path) # 1 => Stands(loc[h].path[Len(loc[h].path)])'
      <4>1. Len(path) # 1 => \A b \in BOOLEAN : GoalFor(Tail(path)[Len(Tail(path))], portal, b)
                                                 = Tail(path)[Len(Tail(path))]
        BY <3>1, <3>5 DEF Stands
      <4>2. portal' = portal /\ loc'[h].path = Tail(path)
        BY <1>2, <2>2
      <4>3. QED
        BY <4>1, <4>2 DEF Stands
    <3>7. Alone(h)'
      BY <1>2, <2>2, <3>1, <3>2, <3>4, <3>5, <3>6 DEF Alone
    <3>8. quiet' = "syncing"
      BY <1>2, <2>4 DEF Undisturbed, Syncs
    <3>9. QED
      BY <3>7, <3>8
  <2>5. quiet' # "no" => quiet # "no" /\ Syncs(h)
    BY <1>1, <1>2 DEF Undisturbed, Syncs
  <2>6. exists'
    BY <1>2, <2>1
  <2>7. QED
    BY <2>3, <2>4, <2>5, <2>6 DEF SyncInv
<1>5. QED
  BY <1>3, <1>4

LEMMA SyncRegisters ==
    ASSUME FilingTypes, HandlersSound, NEW h \in Handlers, SyncInv(h),
           \/ ReadMatter(h)
           \/ loc[h].op = "sync" /\ (Attach(h) \/ SetCnr(h) \/ Register(h))
    PROVE  SyncInv(h)'
<1>t. HandlerTypes /\ loc[h] \in Loc
  BY DEF HandlersSound, HandlerTypes
<1>1. CASE ReadMatter(h)
  <2>1. /\ UNCHANGED <<exists, status, portal, portalObjected, payments, papers, listed, quiet>> /\ pc[h] = "hop"
    BY <1>1 DEF ReadMatter, filing, others, events
  <2>2. /\ loc'[h].op = loc[h].op /\ loc'[h].snap = loc[h].snap
        /\ pc'[h] \in {"keep", "attach"}
    BY <1>t, <1>1 DEF ReadMatter, Goto, HandlerTypes, Loc
  <2>3. Syncs(h)' <=> Syncs(h)
    BY <2>1, <2>2 DEF Syncs
  <2>4. Rests' <=> Rests
    BY <2>1, RestsStays
  <2>5. quiet = "settled" => ~Syncs(h)
    BY <2>1 DEF SyncInv
  <2>6. quiet # "no" /\ Syncs(h) => Alone(h)'
    BY <2>1, <2>2 DEF SyncInv, Alone
  <2>7. QED
    BY <2>1, <2>3, <2>4, <2>5, <2>6 DEF SyncInv, Paid, Filed
<1>2. ASSUME loc[h].op = "sync", Attach(h) \/ SetCnr(h)
      PROVE  SyncInv(h)'
  <2>1. /\ UNCHANGED <<exists, status, portal, portalObjected, payments, papers, listed, loc>>
        /\ pc[h] \in {"attach", "setCnr"} /\ pc'[h] \in {"setCnr", "register", "keep"}
    BY <1>t, <1>2 DEF Attach, SetCnr, AttachFails, Goto, HandlerTypes, others
  <2>2. Syncs(h) /\ Syncs(h)'
    BY <1>2, <2>1 DEF Syncs
  <2>3. quiet # "settled" /\ quiet \in {"no", "syncing", "settled"}
    BY <2>1, <2>2 DEF SyncInv, FilingTypes
  <2>4. quiet' = quiet
    BY <1>2, <2>3 DEF Attach, SetCnr, Undisturbed
  <2>5. quiet # "no" => Alone(h)'
    BY <2>1, <2>2 DEF SyncInv, Alone
  <2>6. QED
    BY <2>1, <2>2, <2>3, <2>4, <2>5 DEF SyncInv
<1>3. ASSUME loc[h].op = "sync", Register(h)
      PROVE  SyncInv(h)'
  <2>0. quiet' = "no" \/ quiet # "no"
    BY <1>3 DEF Register, Undisturbed
  <2>1. ASSUME quiet # "no" PROVE SyncInv(h)'
    <3>1. pc[h] \in {"register", "keep", "close"} /\ Syncs(h) /\ exists
      BY <1>3, <2>1 DEF Register, Syncs, SyncInv
    <3>2. /\ UNCHANGED <<exists, portal, portalObjected, payments>> /\ status' = "registered"
          /\ pc'[h] = "fee" /\ quiet' = Undisturbed(h)
          /\ loc' = [loc EXCEPT ![h].read = "registered", ![h].path = <<>>]
      BY <1>t, <1>3, <3>1 DEF Register, Goto, HandlerTypes, others
    <3>r. loc'[h].op = "sync" /\ loc'[h].snap = loc[h].snap /\ loc'[h].read = "registered"
      BY <1>t, <1>3, <3>2 DEF HandlerTypes, Loc
    <3>3. Syncs(h)'
      BY <3>2, <3>r DEF Syncs
    <3>4. Rests'
      BY <3>2 DEF Rests, GoalFor
    <3>5. Alone(h)'
      BY <2>1, <3>1, <3>2, <3>r, <3>4 DEF SyncInv, Alone
    <3>6. quiet' = "syncing"
      BY <1>3, <2>1, <3>2 DEF Undisturbed
    <3>7. QED
      BY <3>1, <3>2, <3>3, <3>5, <3>6 DEF SyncInv
  <2>2. QED
    BY <2>0, <2>1, Disturbed
<1>4. QED
  BY <1>1, <1>2, <1>3

LEMMA SyncPays ==
    ASSUME FilingTypes, HandlersSound, NEW h \in Handlers, SyncInv(h),
           SyncFee(h) \/ (loc[h].op = "sync" /\ (Insert(h) \/ Tick(h)))
    PROVE  SyncInv(h)'
<1>t. HandlerTypes /\ loc[h] \in Loc /\ payments \in Nat /\ quiet \in {"no", "syncing", "settled"}
  BY DEF HandlersSound, HandlerTypes, FilingTypes
<1>1. /\ UNCHANGED <<exists, status, portal, portalObjected, papers, listed>>
      /\ pc[h] \in {"fee", "insert", "tick"}
  BY DEF SyncFee, Insert, Tick, filing, others, events
<1>2. Rests' <=> Rests
  BY <1>1, RestsStays
<1>3. quiet # "no" /\ Syncs(h) => Rests /\ loc[h].snap = portal /\ loc[h].read = status
  BY <1>1 DEF SyncInv, Alone
<1>4. ASSUME SyncFee(h) PROVE SyncInv(h)'
  <2>1. /\ UNCHANGED <<loc, quiet, payments>> /\ pc[h] = "fee"
        /\ pc'[h] = IF loc[h].snap.paid /\ payments = 0 THEN "insert" ELSE "paper"
    BY <1>t, <1>4 DEF SyncFee, Goto, HandlerTypes, others, events
  <2>2. Syncs(h)' <=> Syncs(h)
    BY <2>1 DEF Syncs
  <2>3. quiet # "no" /\ Syncs(h) => (pc'[h] = "paper" => Paid)
    <3>1. ~(loc[h].snap.paid /\ payments = 0) /\ loc[h].snap = portal => Paid
      BY <1>t DEF Paid
    <3>2. QED
      BY <1>3, <2>1, <3>1
  <2>4. quiet # "no" /\ Syncs(h) => Alone(h)'
    BY <1>1, <1>2, <1>3, <2>1, <2>3 DEF Alone, Paid
  <2>5. quiet = "settled" /\ Syncs(h) => pc'[h] = "paper"
    <3>1. quiet = "settled" => Paid
      BY DEF SyncInv
    <3>2. QED
      BY <1>3, <2>1, <3>1 DEF Paid
  <2>6. QED
    BY <1>1, <1>2, <2>1, <2>2, <2>4, <2>5 DEF SyncInv, Paid, Filed
<1>5. ASSUME loc[h].op = "sync", Insert(h) \/ Tick(h)
      PROVE  SyncInv(h)'
  <2>0. quiet' = "no" \/ quiet # "no"
    BY <1>5 DEF Insert, Tick, Undisturbed
  <2>1. ASSUME quiet # "no" PROVE SyncInv(h)'
    <3>1. pc[h] \in {"insert", "tick"} /\ Syncs(h) /\ exists
      BY <1>5, <2>1 DEF Insert, Tick, Syncs, SyncInv
    <3>2. /\ UNCHANGED loc /\ quiet' = Undisturbed(h)
          /\ \/ pc[h] = "insert" /\ payments' = payments + 1 /\ pc'[h] = "tick"
             \/ pc[h] = "tick" /\ payments' = payments /\ pc'[h] = "paper"
      BY <1>t, <1>5, <3>1 DEF Insert, Tick, Goto, HandlerTypes, others
    <3>3. Syncs(h)'
      BY <1>5, <3>2 DEF Syncs
    <3>4. quiet' = "syncing"
      BY <1>5, <2>1, <3>2 DEF Undisturbed
    <3>5. payments' > 0
      BY <1>t, <2>1, <3>1, <3>2 DEF SyncInv, Alone
    <3>6. Alone(h)'
      BY <1>1, <1>2, <1>3, <2>1, <3>1, <3>2, <3>5 DEF Alone, Paid
    <3>7. QED
      BY <1>1, <3>1, <3>3, <3>4, <3>6 DEF SyncInv
  <2>2. QED
    BY <2>0, <2>1, Disturbed
<1>6. QED
  BY <1>4, <1>5

\* The papers: the sync that finds, saves or lists one leaves the filing as a
\* further sync will want it.
LEMMA SyncFiles ==
    ASSUME FilingTypes, HandlersSound, NEW h \in Handlers, SyncInv(h),
           FindPaper(h) \/ SavePaper(h) \/ LinkPaper(h) \/ ListPaper(h)
    PROVE  SyncInv(h)'
<1>t. /\ HandlerTypes /\ loc[h] \in Loc /\ papers \in Nat /\ quiet \in {"no", "syncing", "settled"}
  BY DEF HandlersSound, HandlerTypes, FilingTypes
<1>1. /\ UNCHANGED <<exists, status, portal, portalObjected, payments>>
      /\ pc[h] \in {"paper", "save", "link", "list"}
  BY DEF FindPaper, SavePaper, LinkPaper, ListPaper, filing, others
<1>2. (Rests' <=> Rests) /\ (Paid' <=> Paid)
  BY <1>1, RestsStays DEF Paid
<1>3. quiet # "no" /\ Syncs(h) =>
        /\ exists /\ Rests /\ Paid /\ loc[h].snap = portal /\ loc[h].read = status
        /\ pc[h] \in {"save", "link", "list"} => Shown(portal)
        /\ pc[h] \in {"link", "list"} => loc[h].copy \in 1 .. papers
  BY <1>1 DEF SyncInv, Alone
\* A step that ends the sync.
<1>e. ASSUME Return(h), quiet' = Finished(h), quiet # "no" /\ Syncs(h) => Filed'
      PROVE  SyncInv(h)'
  <2>1. ~Syncs(h)'
    BY <1>t, <1>e, ReturnsIdle
  <2>2. quiet' \in {"no", "settled"} /\ (quiet' = "settled" => quiet # "no" /\ Syncs(h))
    BY <1>1, <1>e DEF Finished, Undisturbed, Syncs
  <2>3. quiet' = "settled" => exists' /\ Rests' /\ Paid' /\ Filed'
    BY <1>1, <1>2, <1>3, <1>e, <2>2
  <2>4. QED
    BY <2>1, <2>2, <2>3 DEF SyncInv
\* A step that goes on with the sync.
<1>g. ASSUME NEW l \in {"save", "link", "list"}, Goto(h, l), UNCHANGED <<quiet, papers, listed>>,
             loc'[h].op = loc[h].op, loc'[h].snap = loc[h].snap, loc'[h].read = loc[h].read,
             quiet # "no" /\ Syncs(h) =>
                /\ Shown(portal) /\ (l # "save" => loc'[h].copy \in 1 .. papers)
                /\ quiet = "settled" => l = "link" \/ (l = "list" /\ papers # 1)
      PROVE  SyncInv(h)'
  <2>1. pc'[h] = l /\ (Syncs(h)' <=> Syncs(h))
    BY <1>1, <1>t, <1>g DEF Goto, HandlerTypes, Syncs
  <2>2. quiet # "no" /\ Syncs(h) => Alone(h)'
    BY <1>1, <1>2, <1>3, <1>g, <2>1 DEF Alone
  <2>3. Filed' <=> Filed
    BY <1>1, <1>g DEF Filed
  <2>4. QED
    BY <1>1, <1>2, <1>g, <2>1, <2>2, <2>3 DEF SyncInv
<1>4. ASSUME FindPaper(h) PROVE SyncInv(h)'
  <2>1. UNCHANGED <<papers, listed>>
    BY <1>4 DEF FindPaper, others
  <2>2. CASE ~Shown(loc[h].snap) /\ Return(h) /\ quiet' = Finished(h)
    <3>1. quiet # "no" /\ Syncs(h) => Filed'
      BY <1>1, <1>3, <2>2 DEF Filed
    <3>2. QED
      BY <1>e, <2>2, <3>1
  <2>3. ASSUME NEW k \in 1 .. papers, Shown(loc[h].snap), loc' = [loc EXCEPT ![h].copy = k],
               Goto(h, "link"), UNCHANGED quiet
        PROVE  SyncInv(h)'
    <3>1. /\ loc'[h].op = loc[h].op /\ loc'[h].snap = loc[h].snap /\ loc'[h].read = loc[h].read
          /\ loc'[h].copy = k
      BY <1>t, <2>3 DEF HandlerTypes, Loc
    <3>2. QED
      BY <1>3, <1>g, <2>1, <2>3, <3>1
  <2>4. CASE Shown(loc[h].snap) /\ papers = 0 /\ Goto(h, "save") /\ UNCHANGED <<loc, quiet>>
    <3>1. quiet # "no" /\ Syncs(h) => Shown(portal) /\ quiet # "settled"
      BY <1>3, <2>4 DEF SyncInv, Filed
    <3>2. QED
      BY <1>g, <2>1, <2>4, <3>1
  <2>5. QED
    BY <1>4, <2>2, <2>3, <2>4 DEF FindPaper
<1>5. ASSUME SavePaper(h) PROVE SyncInv(h)'
  <2>0. quiet' = "no" \/ (quiet # "no" /\ Syncs(h) /\ quiet' = "syncing")
    BY <1>1, <1>5 DEF SavePaper, Undisturbed, Syncs
  <2>1. ASSUME quiet # "no", Syncs(h), quiet' = "syncing" PROVE SyncInv(h)'
    <3>1. /\ papers' = papers + 1 /\ loc' = [loc EXCEPT ![h].copy = papers + 1] /\ Goto(h, "link")
          /\ pc[h] = "save"
      BY <1>3, <1>5, <2>1 DEF SavePaper
    <3>2. /\ loc'[h].op = loc[h].op /\ loc'[h].snap = loc[h].snap /\ loc'[h].read = loc[h].read
          /\ loc'[h].copy = papers + 1 /\ pc'[h] = "link"
      BY <1>t, <3>1 DEF HandlerTypes, Loc, Goto
    <3>3. loc'[h].copy \in 1 .. papers'
      BY <1>t, <3>1, <3>2
    <3>4. Alone(h)'
      BY <1>1, <1>2, <1>3, <2>1, <3>1, <3>2, <3>3 DEF Alone
    <3>5. QED
      BY <1>1, <1>3, <2>1, <3>4 DEF SyncInv
  <2>2. QED
    BY <2>0, <2>1, Disturbed
<1>6. ASSUME LinkPaper(h) PROVE SyncInv(h)'
  <2>1. UNCHANGED <<papers, listed>> /\ pc[h] = "link"
    BY <1>6 DEF LinkPaper, others
  <2>2. CASE loc[h].read \in LINK_DOCS /\ loc[h].copy \notin listed
    <3>1. Goto(h, "list") /\ UNCHANGED <<loc, quiet>>
      BY <1>6, <2>2 DEF LinkPaper
    <3>2. quiet = "settled" /\ Syncs(h) => papers # 1
      <4>1. quiet = "settled" => Filed
        BY DEF SyncInv
      <4>2. ASSUME quiet = "settled", Syncs(h), papers = 1 PROVE FALSE
        <5>1. loc[h].copy = 1 /\ Shown(portal) /\ loc[h].read = status
          BY <1>3, <2>1, <4>2
        <5>2. QED
          BY <2>2, <4>1, <4>2, <5>1 DEF Filed
      <4>3. QED
        BY <4>2
    <3>3. QED
      BY <1>3, <1>g, <2>1, <3>1, <3>2
  <2>3. CASE ~(loc[h].read \in LINK_DOCS /\ loc[h].copy \notin listed)
    <3>1. Return(h) /\ quiet' = Finished(h)
      BY <1>6, <2>3 DEF LinkPaper
    <3>2. quiet # "no" /\ Syncs(h) => Filed'
      BY <1>t, <1>1, <1>3, <2>1, <2>3 DEF Filed
    <3>3. QED
      BY <1>e, <3>1, <3>2
  <2>4. QED
    BY <2>2, <2>3
<1>7. ASSUME ListPaper(h) PROVE SyncInv(h)'
  <2>1. /\ Return(h) /\ quiet' = Finished(h) /\ UNCHANGED papers /\ pc[h] = "list"
        /\ exists => listed' = listed \cup {loc[h].copy}
    BY <1>7 DEF ListPaper
  <2>2. quiet # "no" /\ Syncs(h) => Filed'
    BY <1>t, <1>1, <1>3, <2>1 DEF Filed
  <2>3. QED
    BY <1>e, <2>1, <2>2
<1>8. QED
  BY <1>4, <1>5, <1>6, <1>7

LEMMA SyncBegins ==
    ASSUME FilingTypes, HandlersSound, NEW h \in Handlers, SyncInv(h), BeginSync(h)
    PROVE  SyncInv(h)'
<1>1. /\ UNCHANGED <<exists, status, portal, portalObjected, payments, papers, listed>> /\ pc[h] = "idle" /\ exists
      /\ quiet' \in {"no", "syncing", "settled"} /\ (quiet' = "settled" => quiet = "settled")
  BY DEF BeginSync, filing, others
<1>2. pc'[h] = "load" /\ loc'[h].op = "sync" /\ loc'[h].snap = portal
  <2>1. loc'[h] = [NoLoc EXCEPT !.op = "sync", !.snap = portal] /\ pc'[h] = "load"
    BY DEF BeginSync, HandlersSound, HandlerTypes, Goto
  <2>2. QED
    BY <2>1, NoLocIsSound DEF Loc
<1>3. Syncs(h)' /\ Alone(h)'
  BY <1>1, <1>2 DEF Syncs, Alone
<1>4. Rests' <=> Rests
  BY <1>1, RestsStays
<1>5. exists'
  BY <1>1
<1>6. QED
  BY <1>1, <1>2, <1>3, <1>4, <1>5 DEF SyncInv, Paid, Filed

\* What a handler's step does to its own sync.
LEMMA OwnStep ==
    ASSUME FilingTypes, FilingTypes', HandlersSound, NEW h \in Handlers, SyncInv(h),
           BeginRequest(h) \/ BeginTrack(h) \/ BeginSync(h) \/ Work(h) \/ Crash(h)
    PROVE  SyncInv(h)'
<1>1. HandlerTypes
  BY DEF HandlersSound
<1>2. CASE \/ BeginRequest(h) \/ Write(h) \/ SetDocuments(h) \/ BuildBundle(h) \/ Delete(h)
           \/ Lookup(h) \/ TrackDeferred(h) \/ Crash(h)
  BY <1>2, RequestDisturbs, Disturbed
<1>3. CASE \/ CheckGrn(h) \/ BeginTrack(h)
           \/ /\ loc[h].op # "sync"
              /\ Insert(h) \/ Tick(h) \/ Attach(h) \/ SetCnr(h) \/ Register(h)
  BY <1>1, <1>3, OthersKeepQuiet
<1>4. CASE \/ ReadMatter(h)
           \/ loc[h].op = "sync" /\ (Attach(h) \/ SetCnr(h) \/ Register(h))
  BY <1>4, SyncRegisters
<1>5. CASE SyncFee(h) \/ (loc[h].op = "sync" /\ (Insert(h) \/ Tick(h)))
  BY <1>5, SyncPays
<1>6. CASE LoadFiling(h)
  BY <1>6, SyncLoads
<1>7. CASE Hop(h)
  BY <1>7, SyncHops
<1>8. CASE BeginSync(h)
  BY <1>8, SyncBegins
<1>9. CASE FindPaper(h) \/ SavePaper(h) \/ LinkPaper(h) \/ ListPaper(h)
  BY <1>9, SyncFiles
<1>10. QED
  BY <1>2, <1>3, <1>4, <1>5, <1>6, <1>7, <1>8, <1>9 DEF Work

\* All that a sync under way relies on.
Unseen == /\ UNCHANGED <<exists, status, portal, portalObjected, payments, papers, quiet>>
          /\ papers = 1 => UNCHANGED listed

\* What a handler's step can be to the sync of another: a disturbance, a step it
\* does not see, the start of the only sync, or a step of the sync under way.
LEMMA SeenByOthers ==
    ASSUME NEW g \in Handlers, SyncInv(g), quiet \in {"no", "syncing", "settled"},
           BeginRequest(g) \/ BeginTrack(g) \/ BeginSync(g) \/ Work(g) \/ Crash(g)
    PROVE  \/ quiet' = "no" \/ Unseen
           \/ UnderWay = {} /\ quiet # "settled" /\ quiet' = "syncing" /\ BeginSync(g)
           \/ Syncs(g) /\ quiet = "syncing" /\ quiet' # "no"
<1>1. CASE \/ BeginRequest(g) \/ Write(g) \/ SetDocuments(g) \/ BuildBundle(g) \/ Delete(g)
           \/ Lookup(g) \/ TrackDeferred(g) \/ Crash(g)
  BY <1>1, RequestDisturbs
<1>2. CASE BeginTrack(g) \/ CheckGrn(g) \/ LoadFiling(g) \/ ReadMatter(g) \/ SyncFee(g)
  BY <1>2 DEF BeginTrack, CheckGrn, LoadFiling, ReadMatter, SyncFee, Unseen, filing, others, events
<1>3. CASE BeginSync(g)
  <2>1. UNCHANGED <<exists, status, portal, portalObjected, payments, papers, listed>>
    BY <1>3 DEF BeginSync, filing, others
  <2>2. quiet' = IF quiet = "settled" THEN "settled" ELSE IF UnderWay = {} THEN "syncing" ELSE "no"
    BY <1>3 DEF BeginSync
  <2>3. QED
    BY <1>3, <2>1, <2>2 DEF Unseen
<1>4. CASE Insert(g) \/ Tick(g) \/ Attach(g) \/ SetCnr(g) \/ Register(g) \/ Hop(g)
  <2>1. /\ pc[g] \in {"insert", "tick", "attach", "setCnr", "register", "keep", "close", "hop"}
        /\ quiet' # "no" => quiet # "no" /\ loc[g].op = "sync"
    BY <1>4 DEF Insert, Tick, Attach, SetCnr, Register, Hop, Undisturbed, Finished
  <2>2. ASSUME quiet' # "no" PROVE Syncs(g) /\ quiet = "syncing"
    <3>1. Syncs(g)
      BY <2>1, <2>2 DEF Syncs
    <3>2. quiet # "settled"
      BY <2>1, <3>1 DEF SyncInv
    <3>3. QED
      BY <2>1, <2>2, <3>1, <3>2
  <2>3. QED
    BY <2>2
<1>5. CASE FindPaper(g) \/ LinkPaper(g)
  <2>1. /\ UNCHANGED <<exists, status, portal, portalObjected, payments, papers, listed>>
        /\ pc[g] \in {"paper", "link"}
    BY <1>5 DEF FindPaper, LinkPaper, filing, others
  <2>2. quiet' = quiet \/ quiet' = Finished(g)
    BY <1>5 DEF FindPaper, LinkPaper
  <2>3. quiet' # quiet /\ quiet' # "no" => Syncs(g) /\ quiet = "syncing"
    BY <2>1, <2>2 DEF Finished, Undisturbed, Syncs
  <2>4. QED
    BY <2>1, <2>3 DEF Unseen
<1>6. CASE SavePaper(g)
  <2>1. pc[g] = "save" /\ (quiet' # "no" => quiet # "no" /\ loc[g].op = "sync")
    BY <1>6 DEF SavePaper, Undisturbed
  <2>2. quiet' # "no" => Syncs(g) /\ quiet # "settled"
    BY <2>1 DEF Syncs, SyncInv
  <2>3. QED
    BY <2>1, <2>2
<1>7. CASE ListPaper(g)
  <2>1. /\ UNCHANGED <<exists, status, portal, portalObjected, payments, papers>>
        /\ pc[g] = "list" /\ quiet' = Finished(g)
    BY <1>7 DEF ListPaper, filing
  <2>2. quiet' # "no" => Syncs(g) /\ quiet # "no" /\ quiet' = "settled"
    BY <2>1 DEF Finished, Undisturbed, Syncs
  <2>3. quiet = "settled" /\ Syncs(g) => papers # 1
    BY <2>1 DEF SyncInv
  <2>4. QED
    BY <2>1, <2>2, <2>3 DEF Unseen
<1>8. QED
  BY <1>1, <1>2, <1>3, <1>4, <1>5, <1>6, <1>7 DEF Work

LEMMA OtherHandler ==
    ASSUME FilingTypes, HandlersSound, NEW g \in Handlers, NEW h \in Handlers, g # h,
           BeginRequest(g) \/ BeginTrack(g) \/ BeginSync(g) \/ Work(g) \/ Crash(g)
    PROVE  pc'[h] = pc[h] /\ loc'[h] = loc[h]
<1>1. HandlerStep(g)
  BY BeginRequestSteps, BeginRunSteps, RequestSteps, AttachSteps, LoadFilingSteps, HopSteps, SyncSteps,
     PaperSteps, CrashSteps DEF Work
<1>2. PICK l \in Pc, r \in Loc : loc' = [loc EXCEPT ![g] = r] /\ pc' = [pc EXCEPT ![g] = l]
  BY <1>1 DEF HandlerStep, Goto
<1>3. pc \in [Handlers -> Pc] /\ loc \in [Handlers -> Loc]
  BY DEF HandlersSound, HandlerTypes
<1>4. QED
  BY <1>2, <1>3

\* A sync is under way that was, unless it has just begun.
LEMMA StartsSync ==
    ASSUME HandlerTypes, NEW g \in Handlers, ~BeginSync(g), quiet' # "no",
           BeginRequest(g) \/ BeginTrack(g) \/ BeginSync(g) \/ Work(g) \/ Crash(g)
    PROVE  Syncs(g)' => Syncs(g)
<1>t. loc \in [Handlers -> Loc] /\ loc[g] \in Loc
  BY DEF HandlerTypes
<1>1. CASE Return(g)
  BY <1>1, ReturnsIdle
<1>2. CASE BeginTrack(g)
  <2>1. loc'[g].op = "track"
    BY <1>t, <1>2, NoLocIsSound DEF BeginTrack, Loc
  <2>2. QED
    BY <2>1 DEF Syncs
<1>3. CASE \/ (CheckGrn(g) \/ Insert(g) \/ Tick(g) \/ Attach(g) \/ SetCnr(g) \/ LinkPaper(g)) /\ ~Return(g)
           \/ SyncFee(g)
  <2>1. UNCHANGED loc /\ pc[g] # "idle"
    BY <1>3 DEF CheckGrn, Insert, Tick, Attach, SetCnr, SyncFee, LinkPaper, AttachFails
  <2>2. QED
    BY <2>1 DEF Syncs
<1>4. CASE (LoadFiling(g) \/ Hop(g) \/ ReadMatter(g) \/ Register(g) \/ FindPaper(g) \/ SavePaper(g)) /\ ~Return(g)
  <2>1. pc[g] # "idle"
    BY <1>4 DEF LoadFiling, Hop, ReadMatter, Register, FindPaper, SavePaper
  <2>2. loc'[g].op = loc[g].op
    <3>1. \/ \E r, p : loc' = [loc EXCEPT ![g].read = r, ![g].path = p]
          \/ \E c : loc' = [loc EXCEPT ![g].cnr = c]
          \/ \E k : loc' = [loc EXCEPT ![g].copy = k]
          \/ UNCHANGED loc
      <4>1. CASE LoadFiling(g)
        BY <1>4, <4>1 DEF LoadFiling
      <4>2. CASE Hop(g)
        BY <1>4, <4>2 DEF Hop
      <4>3. CASE ReadMatter(g) \/ FindPaper(g)
        BY <1>4, <4>3 DEF ReadMatter, FindPaper
      <4>4. CASE Register(g) \/ SavePaper(g)
        <5>1. CASE Register(g)
          <6>1. loc' = [loc EXCEPT ![g].read = "registered", ![g].path = <<>>]
            BY <1>4, <5>1 DEF Register
          <6>2. QED
            BY <6>1
        <5>2. CASE SavePaper(g)
          BY <1>4, <5>2 DEF SavePaper
        <5>3. QED
          BY <4>4, <5>1, <5>2
      <4>5. QED
        BY <1>4, <4>1, <4>2, <4>3, <4>4
    <3>2. QED
      BY <1>t, <3>1 DEF Loc
  <2>3. QED
    BY <2>1, <2>2 DEF Syncs
<1>5. ~(\/ BeginRequest(g) \/ Write(g) \/ SetDocuments(g) \/ BuildBundle(g) \/ Delete(g)
        \/ Lookup(g) \/ TrackDeferred(g) \/ Crash(g))
  BY RequestDisturbs
<1>6. ListPaper(g) => Return(g)
  BY DEF ListPaper
<1>7. QED
  BY <1>1, <1>2, <1>3, <1>4, <1>5, <1>6 DEF Work


LEMMA QuietInit == Init => QuietInv
BY DEF Init, QuietInv, OneSync, SyncInv, Syncs

LEMMA QuietNext == FilingInv /\ FilingInv' /\ QuietInv /\ [Next]_vars => QuietInv'
<1> SUFFICES ASSUME FilingTypes, FilingTypes', HandlersSound, QuietInv, [Next]_vars
             PROVE  QuietInv'
  <2>1. FilingInv => FilingTypes /\ HandlersSound
    BY FilingInvParts
  <2>2. FilingInv' => FilingTypes'
    BY DEF FilingInv, TypeOK, FilingTypes
  <2>3. QED
    BY <2>1, <2>2
<1>t. HandlerTypes /\ quiet \in {"no", "syncing", "settled"}
  BY DEF HandlersSound, FilingTypes
<1>i. OneSync /\ \A h \in Handlers : SyncInv(h)
  BY DEF QuietInv
<1>1. CASE UNCHANGED vars
  <2>1. /\ UNCHANGED <<exists, status, portal, portalObjected, payments, papers, listed, quiet, pc, loc>>
    BY <1>1 DEF vars, filing, others, events
  <2>2. Rests' <=> Rests
    BY <2>1, RestsStays
  <2>3. ASSUME NEW h \in Handlers PROVE SyncInv(h)'
    <3>1. Alone(h)' <=> Alone(h)
      BY <2>1, <2>2 DEF Alone, Stands, Paid
    <3>2. QED
      BY <1>i, <2>1, <2>2, <3>1 DEF SyncInv, Syncs, Paid, Filed
  <2>4. OneSync'
    BY <1>i, <2>1 DEF OneSync, Syncs
  <2>5. QED
    BY <2>3, <2>4 DEF QuietInv
<1>2. CASE \/ PortalMoves \/ EnterNumbers \/ DeletePayment
           \/ \E k \in Steps, v \in StepState : TickStep(k, v)
           \/ \E c \in Cnrs : EditMatter(c)
  <2>1. quiet' = "no"
    BY <1>2, OutsideDisturbs
  <2>2. QED
    BY <2>1, Disturbed DEF QuietInv, OneSync
<1>3. ASSUME NEW g \in Handlers,
             BeginRequest(g) \/ BeginTrack(g) \/ BeginSync(g) \/ Work(g) \/ Crash(g)
      PROVE  QuietInv'
  <2>1. SyncInv(g)'
    BY <1>3, <1>i, OwnStep
  <2>2. ASSUME NEW h \in Handlers, h # g PROVE pc'[h] = pc[h] /\ loc'[h] = loc[h] /\ (Syncs(h)' <=> Syncs(h))
    <3>1. pc'[h] = pc[h] /\ loc'[h] = loc[h]
      BY <1>3, <2>2, OtherHandler
    <3>2. QED
      BY <3>1 DEF Syncs
  <2>3. CASE quiet' = "no"
    BY <2>3, Disturbed DEF QuietInv, OneSync
  <2>4. ASSUME \A h \in Handlers : h # g => ~Syncs(h) PROVE QuietInv'
    <3>1. ASSUME NEW h \in Handlers PROVE SyncInv(h)' /\ (Syncs(h)' => h = g)
      <4>1. CASE h = g
        BY <4>1, <2>1
      <4>2. CASE h # g
        BY <4>2, <2>1, <2>2, <2>4 DEF SyncInv
      <4>3. QED
        BY <4>1, <4>2
    <3>2. QED
      BY <3>1 DEF QuietInv, OneSync
  <2>5. CASE Unseen /\ ~(BeginSync(g) /\ quiet = "syncing")
    <3>1. Rests' <=> Rests
      BY <2>5, RestsStays DEF Unseen
    <3>2. ASSUME NEW h \in Handlers, h # g PROVE SyncInv(h)'
      <4>1. Alone(h)' <=> Alone(h)
        BY <2>2, <2>5, <3>1, <3>2 DEF Alone, Stands, Paid, Unseen
      <4>2. QED
        BY <1>i, <2>2, <2>5, <3>1, <3>2, <4>1 DEF SyncInv, Paid, Filed, Unseen
    <3>3. quiet = "syncing" => (Syncs(g)' => Syncs(g))
      BY <1>3, <1>t, <1>i, <2>5, StartsSync DEF Unseen
    <3>4. OneSync'
      BY <1>i, <2>2, <2>5, <3>3 DEF OneSync, Unseen
    <3>5. QED
      BY <2>1, <3>2, <3>4 DEF QuietInv
  <2>6. CASE UnderWay = {}
    BY <2>4, <2>6 DEF UnderWay, Syncs
  <2>7. CASE Syncs(g) /\ quiet = "syncing"
    BY <1>i, <2>4, <2>7 DEF OneSync
  <2>8. BeginSync(g) /\ quiet = "syncing" => UnderWay = {} \/ quiet' = "no"
    BY DEF BeginSync
  <2>9. QED
    BY <1>3, <1>i, <1>t, <2>3, <2>5, <2>6, <2>7, <2>8, SeenByOthers
<1>4. QED
  BY <1>1, <1>2, <1>3 DEF Next

\* "Idempotent: a second run with nothing new on the portal changes nothing"
\* (efiling-portal-sync.service.ts): however a run that no other run overlapped
\* found the filing, once it has finished and nobody but further runs has touched
\* the filing or the portal, no step of these, however many they are, changes
\* the filing, its matter or its payments, nor the documents unless two runs have
\* saved the portal's paper at once.
THEOREM SyncsSettle == Spec => SyncIdempotent
<1>1. Spec => []QuietInv
  <2>1. Init => QuietInv
    BY QuietInit
  <2>2. FilingInv /\ FilingInv' /\ QuietInv /\ [Next]_vars => QuietInv'
    BY QuietNext
  <2>3. QED
    BY <2>1, <2>2, FilingKept, PTL DEF Spec
<1> DEFINE Same == /\ UNCHANGED <<filing, mcnr, payments>>
                   /\ papers <= 1 => UNCHANGED <<papers, listed, docs>>
<1>2. ASSUME FilingTypes, QuietInv, NEW h \in Handlers, quiet = "settled", SyncStep(h)
      PROVE  Same
  <2>1. Work(h) /\ loc[h].op = "sync" /\ SyncInv(h)
    BY <1>2 DEF SyncStep, QuietInv
  <2>2. pc[h] # "idle"
    BY <2>1 DEF Work, CheckGrn, Write, Insert, Tick, SetDocuments, BuildBundle, Delete,
                Attach, SetCnr, Register, Lookup, TrackDeferred, LoadFiling, Hop, ReadMatter, SyncFee,
                FindPaper, SavePaper, LinkPaper, ListPaper
  <2>3. /\ pc[h] \in {"load", "fee", "paper", "link", "list"}
        /\ pc[h] = "list" => papers # 1 /\ loc[h].copy \in 1 .. papers
    BY <1>2, <2>1, <2>2 DEF SyncInv, Alone, Syncs
  <2>4. LoadFiling(h) \/ SyncFee(h) \/ FindPaper(h) \/ LinkPaper(h) \/ ListPaper(h)
    BY <2>1, <2>3 DEF Work, CheckGrn, Write, Insert, Tick, SetDocuments, BuildBundle, Delete,
                Attach, SetCnr, Register, Lookup, TrackDeferred, Hop, ReadMatter, SavePaper
  <2>5. ListPaper(h) => ~(papers <= 1)
    <3>1. ListPaper(h) => papers \in Nat /\ papers # 1 /\ loc[h].copy \in 1 .. papers
      BY <1>2, <2>3 DEF ListPaper, FilingTypes
    <3>2. QED
      BY <3>1
  <2>6. CASE ListPaper(h)
    BY <2>5, <2>6 DEF ListPaper
  <2>7. CASE ~ListPaper(h)
    BY <2>4, <2>7 DEF LoadFiling, SyncFee, FindPaper, LinkPaper, others
  <2>8. QED
    BY <2>6, <2>7
<1>3. FilingInv /\ QuietInv =>
        [\A h \in Handlers :
            quiet = "settled" /\ SyncStep(h) =>
               /\ UNCHANGED <<filing, mcnr, payments>>
               /\ papers <= 1 => UNCHANGED <<papers, listed, docs>>]_vars
  BY <1>2, FilingInvParts
<1>4. []FilingInv /\ []QuietInv => SyncIdempotent
  <2>1. []FilingInv /\ []QuietInv =>
          [][\A h \in Handlers :
                quiet = "settled" /\ SyncStep(h) =>
                   /\ UNCHANGED <<filing, mcnr, payments>>
                   /\ papers <= 1 => UNCHANGED <<papers, listed, docs>>]_vars
    BY <1>3, PTL
  <2>2. QED
    BY <2>1 DEF SyncIdempotent
<1>5. QED
  BY <1>1, <1>4, FilingKept, PTL

=============================================================================
