-------------------------- MODULE CppSessionProofs --------------------------
(***************************************************************************)
(* Proofs about CppSession, for every set of bus objects and of channels,  *)
(* of bus objects that ask for a channel that does not exist, and for      *)
(* every number of frames.                                                 *)
(***************************************************************************)
EXTENDS CppSession, FiniteSetTheorems, SequenceTheorems, TLAPS

USE CppBusesAssumption, CppChannelAssumption, CppFramesAssumption

-----------------------------------------------------------------------------
(***************************************************************************)
(* The session's owners and users: the inductive invariant.                *)
(***************************************************************************)

LivePcs == {"configure", "open", "snapshot", "deliver"}
Pcs == {"new", "failed", "leaked", "acquired", "added", "configure", "open",
        "snapshot", "deliver", "stopped", "remove", "close", "reset", "shut"}

\* Between add_bus and remove_bus; between acquire_session and remove_bus.
Counted(b) == pc[b] \in LivePcs \cup {"added", "stopped", "remove"}
Using(b) == pc[b] \in LivePcs \cup Opening \cup {"stopped", "remove"}

\* The types of what a session's life depends on.
LifeTypeOK ==
    /\ registry \in Buses \cup {NoBus} /\ claimed \in Buses \cup {NoBus}
    /\ overlap \in BOOLEAN
    /\ pc \in [Buses -> Pcs]
    /\ session \in [Buses -> Buses \cup {NoBus}]
    /\ listeners \in [Buses -> SUBSET Buses]
    /\ refs \in [Buses -> Nat]
    /\ closed \in [Buses -> BOOLEAN]

\* Who points to a session, and that no session is there before its maker is.
Owners ==
    /\ \A b \in Buses : session[b] # NoBus <=> pc[b] \notin {"new", "failed", "leaked", "shut"}
    /\ \A s \in Buses : pc[s] = "new" =>
         registry # s /\ closed[s] = FALSE /\ \A b \in Buses : session[b] # s

\* A session lists and counts the bus objects between add_bus and remove_bus, and
\* those whose constructor threw in between.
ListenersExact ==
    /\ \A s \in Buses : \A b \in listeners[s] :
         pc[b] = "failed" \/ (session[b] = s /\ Counted(b))
    /\ \A b \in Buses : Counted(b) => b \in listeners[session[b]]
    /\ \A s \in Buses : refs[s] = Cardinality(listeners[s])

\* The interface is held for somebody, unless a session's own constructor leaked it.
ClaimHeld ==
    claimed # NoBus => pc[claimed] = "leaked" \/ \E b \in Buses : session[b] = claimed

\* While nothing has overlapped, nobody opens while somebody stops,
\* everybody uses the registered session, which is open, and a session that
\* is being closed is not registered.
Served ==
    overlap = FALSE =>
        /\ \A b, d \in Buses : ~(pc[b] \in Opening /\ pc[d] \in Stopping)
        /\ \A b \in Buses : Using(b) =>
             session[b] = registry /\ claimed = registry /\ closed[registry] = FALSE
        /\ \A b \in Buses : pc[b] = "close" => registry = NoBus

LifeInv == LifeTypeOK /\ Owners /\ ListenersExact /\ ClaimHeld /\ Served

lifeVars == <<registry, claimed, overlap, pc, session, listeners, refs, closed>>

LEMMA BusSets ==
  ASSUME NEW S \in SUBSET Buses
  PROVE  /\ IsFiniteSet(S) /\ Cardinality(S) \in Nat /\ Cardinality(S) <= Cardinality(Buses)
         /\ \A b \in Buses : b \notin S => Cardinality(S \cup {b}) = Cardinality(S) + 1
         /\ \A b \in S : Cardinality(S \ {b}) = Cardinality(S) - 1
         /\ Cardinality(S) = 1 => \A b, d \in S : b = d
<1>1. IsFiniteSet(S) /\ Cardinality(S) <= Cardinality(Buses) BY FS_Subset
<1>2. Cardinality(S) \in Nat BY <1>1, FS_CardinalityType
<1>3. \A b \in Buses : b \notin S => Cardinality(S \cup {b}) = Cardinality(S) + 1
  BY <1>1, FS_AddElement
<1>4. \A b \in S : Cardinality(S \ {b}) = Cardinality(S) - 1 BY <1>1, FS_RemoveElement
<1>5. Cardinality(S) = 1 => \A b, d \in S : b = d BY <1>1, FS_Singleton
<1> QED BY <1>1, <1>2, <1>3, <1>4, <1>5

LEMMA LifeInit == Init => LifeInv
<1> SUFFICES ASSUME Init PROVE LifeInv
  OBVIOUS
<1> USE DEF Init
<1>1. LifeTypeOK BY DEF LifeTypeOK, Pcs
<1>2. Owners BY DEF Owners
<1>3. ListenersExact
  <2>1. Cardinality({}) = 0 BY FS_EmptySet
  <2> QED BY <2>1 DEF ListenersExact, Counted, LivePcs
<1>4. ClaimHeld BY DEF ClaimHeld
<1>5. Served BY DEF Served, Using, LivePcs, Opening, Stopping
<1> QED BY <1>1, <1>2, <1>3, <1>4, <1>5 DEF LifeInv

\* What the history variable remembers.
LEMMA Overlaps ==
  ASSUME LifeTypeOK, NEW S, NoteOverlap(S)
  PROVE  /\ overlap' \in BOOLEAN
         /\ overlap' = FALSE => overlap = FALSE /\ \A b \in Buses : pc[b] \notin S
BY DEF NoteOverlap, LifeTypeOK

\* A bus object gets a session, the registered one or one of its own.
LEMMA JoinStep ==
  ASSUME LifeInv, NEW b \in Buses, AcquireSession(b) \/ CreateSession(b) PROVE LifeInv'
<1> USE DEF LifeInv, LifeTypeOK
<1>1. PICK s \in Buses :
        /\ session' = [session EXCEPT ![b] = s]
        /\ registry' = s
        /\ \/ s = registry /\ claimed' = claimed /\ \E d \in Buses : session[d] = s
           \/ s = b /\ claimed' = b /\ ~Registered
  BY DEF AcquireSession, CreateSession, Registered, Holders
<1>2. /\ pc[b] = "new" /\ pc' = [pc EXCEPT ![b] = "acquired"]
      /\ UNCHANGED <<listeners, refs, closed>>
  BY DEF AcquireSession, CreateSession, Goto, sessVars
<1>3. overlap' \in BOOLEAN
      /\ (overlap' = FALSE => overlap = FALSE /\ \A d \in Buses : pc[d] \notin Stopping)
  <2>1. NoteOverlap(Stopping) BY DEF AcquireSession, CreateSession
  <2> QED BY <2>1, Overlaps
<1>4. LifeTypeOK' BY <1>1, <1>2, <1>3 DEF Pcs
<1>5. \A d \in Buses : d # b => pc'[d] = pc[d] /\ session'[d] = session[d] BY <1>1, <1>2
<1>6. pc'[b] = "acquired" /\ session'[b] = s BY <1>1, <1>2
<1>7. s # NoBus /\ pc'[s] # "new"
  <2>1. CASE s = b BY <1>6, <2>1
  <2>2. CASE s # b BY <1>1, <1>5, <2>2 DEF Owners
  <2> QED BY <2>1, <2>2
<1>8. Owners'
  <2>1. \A d \in Buses : session'[d] # NoBus <=> pc'[d] \notin {"new", "failed", "leaked", "shut"}
    BY <1>5, <1>6, <1>7 DEF Owners
  <2>2. ASSUME NEW t \in Buses, pc'[t] = "new"
        PROVE  registry' # t /\ closed'[t] = FALSE /\ \A d \in Buses : session'[d] # t
    <3>1. t # b /\ pc[t] = "new" /\ t # s BY <1>5, <1>6, <1>7, <2>2
    <3> QED BY <1>1, <1>2, <1>5, <1>6, <3>1 DEF Owners
  <2> QED BY <2>1, <2>2 DEF Owners
<1>9. ListenersExact'
  <2>1. \A d \in Buses : Counted(d)' <=> Counted(d)
    BY <1>2, <1>5, <1>6 DEF Counted, LivePcs
  <2>2. ~Counted(b) /\ pc[b] # "failed" BY <1>2 DEF Counted, LivePcs
  <2>3. \A t \in Buses : b \notin listeners[t] BY <2>2 DEF ListenersExact
  <2>4. \A t \in Buses : \A d \in listeners[t] :
          pc'[d] = "failed" \/ (session'[d] = t /\ Counted(d)')
    BY <1>5, <2>1, <2>3 DEF ListenersExact
  <2>5. \A d \in Buses : Counted(d)' => d \in listeners[session'[d]]
    BY <1>5, <2>1, <2>2 DEF ListenersExact
  <2> QED BY <1>2, <2>4, <2>5 DEF ListenersExact
<1>10. ClaimHeld'
  <2>1. CASE s = b /\ claimed' = b BY <1>6, <2>1 DEF ClaimHeld
  <2>2. CASE claimed' = claimed
    <3>1. session[b] = NoBus BY <1>2 DEF Owners
    <3>2. claimed # NoBus /\ pc[claimed] = "leaked" => pc'[claimed] = "leaked"
      BY <1>2, <1>5
    <3> QED BY <1>5, <2>2, <3>1, <3>2 DEF ClaimHeld
  <2> QED BY <1>1, <2>1, <2>2
<1>11. Served'
  <2> SUFFICES ASSUME overlap' = FALSE
               PROVE  /\ \A d, e \in Buses : ~(pc'[d] \in Opening /\ pc'[e] \in Stopping)
                      /\ \A d \in Buses : Using(d)' =>
                           session'[d] = s /\ claimed' = s /\ closed[s] = FALSE
                      /\ \A d \in Buses : pc'[d] # "close"
    BY <1>1, <1>2 DEF Served
  <2>1. overlap = FALSE /\ \A d \in Buses : pc[d] \notin Stopping BY <1>3
  <2>2. \A d \in Buses : pc'[d] \notin Stopping BY <1>5, <1>6, <2>1 DEF Stopping
  <2>3. \A d \in Buses : session[d] # NoBus => Using(d)
    BY <2>1 DEF Owners, Using, Pcs, LivePcs, Opening, Stopping
  <2>4. \A d \in Buses : Using(d) => session[d] = registry /\ claimed = registry
                                      /\ closed[registry] = FALSE
    BY <2>1 DEF Served
  <2>5. claimed' = s /\ closed[s] = FALSE
    <3>1. CASE s = registry /\ claimed' = claimed /\ \E d \in Buses : session[d] = s
      BY <1>7, <2>3, <2>4, <3>1
    <3>2. CASE s = b /\ claimed' = b BY <1>2, <3>2 DEF Owners
    <3> QED BY <1>1, <3>1, <3>2
  <2>6. ASSUME NEW d \in Buses, d # b, Using(d) PROVE session[d] = s
    <3>1. session[d] = registry BY <2>4, <2>6
    <3>2. session[d] # NoBus BY <2>6 DEF Owners, Using, LivePcs, Opening
    <3>3. Registered BY <3>1, <3>2 DEF Registered, Holders
    <3> QED BY <1>1, <3>1, <3>3
  <2>7. \A d \in Buses : Using(d)' => session'[d] = s
    BY <1>5, <1>6, <2>6 DEF Using
  <2> QED BY <2>2, <2>5, <2>7 DEF Stopping
<1> QED BY <1>4, <1>8, <1>9, <1>10, <1>11

\* A session's own constructor throws; nobody has a session then.
LEMMA LeakStep ==
  ASSUME LifeInv, NEW b \in Buses, CreateSessionLeaks(b) \/ SessionFails(b) PROVE LifeInv'
<1> USE DEF LifeInv, LifeTypeOK
<1>1. PICK to \in {"leaked", "failed"} :
        /\ pc' = [pc EXCEPT ![b] = to]
        /\ \/ claimed' = b /\ to = "leaked" /\ claimed = NoBus
           \/ claimed' = claimed
  BY DEF CreateSessionLeaks, SessionFails, Goto, regVars
<1>2. /\ pc[b] = "new" /\ ~Registered
      /\ UNCHANGED <<registry, overlap, session, listeners, refs, closed>>
  BY DEF CreateSessionLeaks, SessionFails, regVars, sessVars
<1>3. pc'[b] = to /\ \A d \in Buses : d # b => pc'[d] = pc[d] BY <1>1
<1>4. LifeTypeOK' BY <1>1, <1>2 DEF Pcs
<1>5. Owners' BY <1>2, <1>3 DEF Owners
<1>6. ListenersExact'
  <2>1. \A d \in Buses : Counted(d)' <=> Counted(d) BY <1>2, <1>3 DEF Counted, LivePcs
  <2>2. \A t \in Buses : \A d \in listeners[t] : pc[d] = "failed" => pc'[d] = "failed"
    BY <1>2, <1>3
  <2> QED BY <1>2, <2>1, <2>2 DEF ListenersExact
<1>7. ClaimHeld'
  <2>1. CASE claimed' = b /\ to = "leaked" BY <1>3, <2>1 DEF ClaimHeld
  <2>2. CASE claimed' = claimed BY <1>2, <1>3, <2>2 DEF ClaimHeld
  <2> QED BY <1>1, <2>1, <2>2
<1>8. Served'
  <2> SUFFICES ASSUME overlap = FALSE
               PROVE  /\ \A d, e \in Buses : ~(pc'[d] \in Opening /\ pc'[e] \in Stopping)
                      /\ \A d \in Buses : Using(d)' =>
                           session[d] = registry /\ claimed' = registry /\ closed[registry] = FALSE
                      /\ \A d \in Buses : pc'[d] = "close" => registry = NoBus
    BY <1>2 DEF Served
  <2>1. \A d \in Buses : Using(d)' => Using(d) BY <1>3 DEF Using, LivePcs, Opening
  <2>2. \A d \in Buses : Using(d) => claimed' = claimed
    <3>1. \A d \in Buses : Using(d) => session[d] # NoBus
      BY DEF Owners, Using, LivePcs, Opening
    <3> QED BY <1>1, <3>1 DEF Served
  <2>3. \A d, e \in Buses : ~(pc'[d] \in Opening /\ pc'[e] \in Stopping)
    BY <1>3 DEF Served, Opening, Stopping
  <2> QED BY <1>3, <2>1, <2>2, <2>3 DEF Served
<1> QED BY <1>4, <1>5, <1>6, <1>7, <1>8

\* add_bus.
LEMMA AddStep ==
  ASSUME LifeInv, NEW b \in Buses, AddBus(b) PROVE LifeInv'
<1> USE DEF LifeInv, LifeTypeOK
<1>1. PICK s \in Buses : s = session[b] BY DEF AddBus, Owners
<1>2. PICK to \in {"added", "configure"} : pc' = [pc EXCEPT ![b] = to] BY DEF AddBus, Goto
<1>3. /\ pc[b] = "acquired"
      /\ listeners' = [listeners EXCEPT ![s] = listeners[s] \cup {b}]
      /\ refs' = [refs EXCEPT ![s] = refs[s] + 1]
      /\ UNCHANGED <<registry, claimed, overlap, session, closed>>
  BY <1>1 DEF AddBus, regVars
<1>4. pc'[b] = to /\ \A d \in Buses : d # b => pc'[d] = pc[d] BY <1>2
<1>5. LifeTypeOK' BY <1>2, <1>3 DEF Pcs
<1>6. Owners' BY <1>3, <1>4 DEF Owners
<1>7. ListenersExact'
  <2>1. /\ \A d \in Buses : d # b => (Counted(d)' <=> Counted(d))
        /\ Counted(b)' /\ ~Counted(b)
    BY <1>3, <1>4 DEF Counted, LivePcs
  <2>2. b \notin listeners[s] BY <1>3, <2>1 DEF ListenersExact
  <2>3. /\ listeners'[s] = listeners[s] \cup {b} /\ refs'[s] = refs[s] + 1
        /\ \A t \in Buses : t # s => listeners'[t] = listeners[t] /\ refs'[t] = refs[t]
    BY <1>3
  <2>4. \A t \in Buses : \A d \in listeners'[t] :
          pc'[d] = "failed" \/ (session'[d] = t /\ Counted(d)')
    BY <1>1, <1>3, <1>4, <2>1, <2>3 DEF ListenersExact
  <2>5. \A d \in Buses : Counted(d)' => d \in listeners'[session'[d]]
    <3> SUFFICES ASSUME NEW d \in Buses, Counted(d)' PROVE d \in listeners'[session[d]]
      BY <1>3
    <3>1. session[d] \in Buses BY <1>1, <2>1 DEF Owners, Counted, LivePcs
    <3> QED BY <1>1, <2>1, <2>3, <3>1 DEF ListenersExact
  <2>6. Cardinality(listeners[s] \cup {b}) = Cardinality(listeners[s]) + 1
    BY <2>2, BusSets
  <2>7. \A t \in Buses : refs'[t] = Cardinality(listeners'[t])
    BY <2>3, <2>6 DEF ListenersExact
  <2> QED BY <2>4, <2>5, <2>7 DEF ListenersExact
<1>8. ClaimHeld' BY <1>3, <1>4 DEF ClaimHeld
<1>9. Served'
  <2>1. \A d \in Buses : Using(d)' => Using(d)
    BY <1>3, <1>4 DEF Using, LivePcs, Opening
  <2>2. \A d \in Buses : /\ pc'[d] \in Opening => pc[d] \in Opening
                         /\ pc'[d] \in Stopping => pc[d] \in Stopping
                         /\ pc'[d] = "close" => pc[d] = "close"
    BY <1>3, <1>4 DEF Opening, Stopping
  <2> QED BY <1>3, <2>1, <2>2 DEF Served
<1> QED BY <1>5, <1>6, <1>7, <1>8, <1>9

\* A pointer to the session goes, and maybe the session.
LEMMA ReleaseStep ==
  ASSUME LifeInv, NEW b \in Buses, NoSuchChannel(b) \/ ResetSession(b) PROVE LifeInv'
<1> USE DEF LifeInv, LifeTypeOK
<1>1. PICK s \in Buses : s = session[b] BY DEF NoSuchChannel, ResetSession, Owners
<1>2. PICK to \in {"failed", "shut"} :
        /\ pc' = [pc EXCEPT ![b] = to]
        /\ pc[b] \in {"added", "reset"} /\ (pc[b] = "added" => to = "failed")
  <2>1. CASE NoSuchChannel(b) BY <2>1 DEF NoSuchChannel, Goto
  <2>2. CASE ResetSession(b) BY <2>2 DEF ResetSession, Goto
  <2> QED BY <2>1, <2>2
<1>3. /\ session' = [session EXCEPT ![b] = NoBus]
      /\ UNCHANGED <<registry, overlap, listeners, refs>>
  BY DEF NoSuchChannel, ResetSession, ReleaseSession
<1>4. \/ /\ \A d \in Buses : session[d] = s <=> d = b
         /\ closed' = [closed EXCEPT ![s] = TRUE]
         /\ claimed' = IF claimed = s THEN NoBus ELSE claimed
      \/ /\ \E d \in Buses : d # b /\ session[d] = s
         /\ UNCHANGED <<closed, claimed>>
  BY <1>1 DEF NoSuchChannel, ResetSession, ReleaseSession, Holders
<1>5. /\ pc'[b] = to /\ session'[b] = NoBus
      /\ \A d \in Buses : d # b => pc'[d] = pc[d] /\ session'[d] = session[d]
  BY <1>2, <1>3
<1>6. LifeTypeOK' BY <1>2, <1>3, <1>4 DEF Pcs
<1>7. Owners'
  <2>1. \A d \in Buses : session'[d] # NoBus <=> pc'[d] \notin {"new", "failed", "leaked", "shut"}
    BY <1>5 DEF Owners
  <2>2. pc[s] # "new" BY <1>1 DEF Owners
  <2>3. \A t \in Buses : t # s => closed'[t] = closed[t] BY <1>4
  <2> QED BY <1>3, <1>5, <2>1, <2>2, <2>3 DEF Owners
<1>8. ListenersExact'
  <2>1. /\ \A d \in Buses : d # b => (Counted(d)' <=> Counted(d))
        /\ ~Counted(b)' /\ (Counted(b) => to = "failed")
    BY <1>2, <1>5 DEF Counted, LivePcs
  <2>2. pc[b] # "failed" BY <1>2
  <2>3. \A t \in Buses : \A d \in listeners[t] :
          pc'[d] = "failed" \/ (session'[d] = t /\ Counted(d)')
    BY <1>5, <2>1, <2>2 DEF ListenersExact
  <2>4. \A d \in Buses : Counted(d)' => d \in listeners[session'[d]]
    BY <1>5, <2>1 DEF ListenersExact
  <2> QED BY <1>3, <2>3, <2>4 DEF ListenersExact
<1>9. ClaimHeld'
  <2> SUFFICES ASSUME claimed' # NoBus, pc'[claimed'] # "leaked"
               PROVE  \E d \in Buses : session'[d] = claimed'
    BY DEF ClaimHeld
  <2>1. claimed' = claimed /\ (claimed = s => \E d \in Buses : d # b /\ session[d] = s)
    BY <1>1, <1>4
  <2>2. pc[claimed] # "leaked" BY <1>2, <1>5, <2>1
  <2>3. PICK d \in Buses : session[d] = claimed BY <2>1, <2>2 DEF ClaimHeld
  <2> QED BY <1>1, <1>5, <2>1, <2>3
<1>10. Served'
  <2>1. \A d \in Buses : /\ Using(d)' => Using(d) /\ d # b
                         /\ pc'[d] \in Opening => pc[d] \in Opening
                         /\ pc'[d] \in Stopping => pc[d] \in Stopping
                         /\ pc'[d] = "close" => pc[d] = "close"
    BY <1>2, <1>5 DEF Using, LivePcs, Opening, Stopping
  <2>2. ASSUME overlap = FALSE, NEW d \in Buses, Using(d)'
        PROVE  session'[d] = registry /\ claimed' = registry /\ closed'[registry] = FALSE
    <3>1. session[d] = registry /\ claimed = registry /\ closed[registry] = FALSE /\ d # b
      BY <2>1, <2>2 DEF Served
    <3>2. registry \in Buses BY <2>1, <2>2, <3>1 DEF Owners, Using, LivePcs, Opening
    <3>3. claimed' = claimed /\ closed'[registry] = closed[registry] BY <1>4, <3>1, <3>2
    <3> QED BY <1>5, <3>1, <3>3
  <2> QED BY <1>3, <2>1, <2>2 DEF Served
<1> QED BY <1>6, <1>7, <1>8, <1>9, <1>10

\* A step of a thread that keeps its session and stays counted, or not counted.
LEMMA GoesOnStep ==
  ASSUME LifeInv, NEW b \in Buses, NEW to \in Pcs, pc' = [pc EXCEPT ![b] = to],
         pc[b] \in LivePcs \cup {"stopped"}, to \in LivePcs \cup {"stopped", "remove"},
         pc[b] = "stopped" => to = "remove",
         UNCHANGED <<registry, claimed, session, listeners, refs, closed>>,
         \/ UNCHANGED overlap /\ (to \in Stopping => pc[b] \in Stopping)
         \/ NoteOverlap(Opening)
  PROVE  LifeInv'
<1> USE DEF LifeInv, LifeTypeOK
<1>1. pc'[b] = to /\ \A d \in Buses : d # b => pc'[d] = pc[d] OBVIOUS
<1>2. /\ overlap' \in BOOLEAN
      /\ overlap' = FALSE => overlap = FALSE
      /\ overlap' = FALSE /\ to \in Stopping
           => pc[b] \in Stopping \/ \A d \in Buses : pc[d] \notin Opening
  <2>1. CASE UNCHANGED overlap /\ (to \in Stopping => pc[b] \in Stopping) BY <2>1
  <2>2. CASE NoteOverlap(Opening) BY <2>2, Overlaps
  <2> QED BY <2>1, <2>2
<1>3. LifeTypeOK' BY <1>2
<1>4. \A d \in Buses : (Counted(d)' <=> Counted(d)) /\ (Using(d)' => Using(d))
  BY <1>1 DEF Counted, Using, LivePcs
<1>5. \A d \in Buses :
        \/ pc'[d] = pc[d]
        \/ pc'[d] \in LivePcs \cup {"stopped", "remove"} /\ pc[d] \in LivePcs \cup {"stopped"}
  BY <1>1 DEF LivePcs
<1>6. Owners' BY <1>5 DEF Owners, LivePcs
<1>7. ListenersExact' BY <1>4, <1>5 DEF ListenersExact, LivePcs
<1>8. ClaimHeld' BY <1>5 DEF ClaimHeld, LivePcs
<1>9. Served'
  <2> SUFFICES ASSUME overlap' = FALSE
               PROVE  /\ \A d, e \in Buses : ~(pc'[d] \in Opening /\ pc'[e] \in Stopping)
                      /\ \A d \in Buses : Using(d)' =>
                           session[d] = registry /\ claimed = registry /\ closed[registry] = FALSE
                      /\ \A d \in Buses : pc'[d] = "close" => registry = NoBus
    BY DEF Served
  <2>1. overlap = FALSE BY <1>2
  <2>2. \A d \in Buses : /\ pc'[d] \in Opening => pc[d] \in Opening
                         /\ pc'[d] = "close" => pc[d] = "close"
    BY <1>5 DEF Opening, LivePcs
  <2>3. \A d \in Buses : pc'[d] \in Stopping => pc[d] \in Stopping \/ (d = b /\ to \in Stopping)
    BY <1>1
  <2>4. \A d, e \in Buses : ~(pc'[d] \in Opening /\ pc'[e] \in Stopping)
    BY <1>2, <2>1, <2>2, <2>3 DEF Served
  <2> QED BY <1>4, <2>1, <2>2, <2>4 DEF Served
<1> QED BY <1>3, <1>6, <1>7, <1>8, <1>9

\* remove_bus.
LEMMA RemoveStep ==
  ASSUME LifeInv, NEW b \in Buses, RemoveBus(b) PROVE LifeInv'
<1> USE DEF LifeInv, LifeTypeOK
<1>0. pc[b] = "remove" BY DEF RemoveBus
<1>1. PICK s \in Buses : s = session[b] BY <1>0 DEF Owners
<1>2. b \in listeners[s] BY <1>0, <1>1 DEF ListenersExact, Counted
<1>3. PICK n \in Nat : n = Cardinality(listeners[s]) BY BusSets
<1>4. refs[s] = n /\ n # 0 /\ Dropped(refs[s]) = n - 1
  <2>1. listeners[s] # {} /\ IsFiniteSet(listeners[s]) BY <1>2, BusSets
  <2>2. refs[s] = n /\ n # 0 BY <1>3, <2>1, FS_EmptySet DEF ListenersExact
  <2> QED BY <2>2 DEF Dropped
<1>5. /\ listeners' = [listeners EXCEPT ![s] = listeners[s] \ {b}]
      /\ refs' = [refs EXCEPT ![s] = n - 1]
      /\ UNCHANGED <<claimed, overlap, session, closed>>
  BY <1>1, <1>4 DEF RemoveBus
<1>6. \/ /\ n = 1 /\ pc' = [pc EXCEPT ![b] = "close"]
         /\ registry' = IF registry = s \/ ~Registered THEN NoBus ELSE registry
      \/ pc' = [pc EXCEPT ![b] = "reset"] /\ UNCHANGED registry
  BY <1>1, <1>4 DEF RemoveBus, Goto
<1>7. /\ pc'[b] \in {"close", "reset"} /\ pc' \in [Buses -> Pcs]
      /\ \A d \in Buses : d # b => pc'[d] = pc[d]
  BY <1>6 DEF Pcs
<1>8. LifeTypeOK' BY <1>4, <1>5, <1>6, <1>7
<1>9. Owners'
  <2>1. \A t \in Buses : registry' = t => registry = t BY <1>6
  <2> QED BY <1>0, <1>5, <1>7, <2>1 DEF Owners
<1>10. ListenersExact'
  <2>1. \A d \in Buses : (d # b => (Counted(d)' <=> Counted(d)))
    BY <1>7 DEF Counted
  <2>2. ~Counted(b)' BY <1>7 DEF Counted, LivePcs
  <2>3. /\ listeners'[s] = listeners[s] \ {b} /\ refs'[s] = n - 1
        /\ \A t \in Buses : t # s => listeners'[t] = listeners[t] /\ refs'[t] = refs[t]
    BY <1>5
  <2>4. ASSUME NEW t \in Buses, NEW d \in listeners'[t]
        PROVE  pc'[d] = "failed" \/ (session'[d] = t /\ Counted(d)')
    <3>1. d \in listeners[t] /\ d \in Buses BY <2>3, <2>4
    <3>2. d # b
      <4>1. b \in listeners[t] => t = s BY <1>0, <1>1 DEF ListenersExact
      <4> QED BY <2>3, <2>4, <4>1
    <3> QED BY <1>5, <1>7, <2>1, <3>1, <3>2 DEF ListenersExact
  <2>5. \A d \in Buses : Counted(d)' => d \in listeners'[session'[d]]
    <3> SUFFICES ASSUME NEW d \in Buses, Counted(d)' PROVE d \in listeners'[session[d]]
      BY <1>5
    <3>1. d # b /\ Counted(d) BY <2>1, <2>2
    <3>2. session[d] \in Buses BY <3>1 DEF Owners, Counted, LivePcs
    <3> QED BY <2>3, <3>1, <3>2 DEF ListenersExact
  <2>6. Cardinality(listeners[s] \ {b}) = n - 1 BY <1>2, <1>3, BusSets
  <2>7. \A t \in Buses : refs'[t] = Cardinality(listeners'[t])
    BY <2>3, <2>6 DEF ListenersExact
  <2> QED BY <2>4, <2>5, <2>7 DEF ListenersExact
<1>11. ClaimHeld' BY <1>0, <1>5, <1>7 DEF ClaimHeld
<1>12. Served'
  <2> SUFFICES ASSUME overlap = FALSE
               PROVE  /\ \A d, e \in Buses : ~(pc'[d] \in Opening /\ pc'[e] \in Stopping)
                      /\ \A d \in Buses : Using(d)' =>
                           session[d] = registry' /\ claimed = registry' /\ closed[registry'] = FALSE
                      /\ \A d \in Buses : pc'[d] = "close" => registry' = NoBus
    BY <1>5 DEF Served
  <2>1. session[b] = registry /\ claimed = registry BY <1>0 DEF Served, Using
  <2>2. \A d \in Buses : pc[d] \notin Opening BY <1>0 DEF Served, Stopping
  <2>3. \A d, e \in Buses : ~(pc'[d] \in Opening /\ pc'[e] \in Stopping)
    BY <1>7, <2>2 DEF Opening
  <2>4. CASE n = 1 /\ registry' = NoBus
    <3>1. ASSUME NEW d \in Buses PROVE ~Using(d)'
      <4>1. Using(d)' => d # b /\ Using(d) BY <1>7 DEF Using, LivePcs, Opening
      <4>2. Using(d) => Counted(d) BY <2>2 DEF Using, Counted, Opening
      <4>3. Using(d) => d \in listeners[s]
        <5>1. Using(d) => session[d] = s BY <1>1, <2>1 DEF Served
        <5> QED BY <4>2, <5>1 DEF ListenersExact
      <4>4. d \in listeners[s] => d = b
        <5>1. listeners[s] \in SUBSET Buses /\ Cardinality(listeners[s]) = 1 BY <1>3, <2>4
        <5>2. \A x, y \in listeners[s] : x = y BY <5>1, BusSets
        <5> QED BY <1>2, <5>2
      <4> QED BY <4>1, <4>3, <4>4
    <3> QED BY <2>3, <2>4, <3>1
  <2>5. CASE registry' = registry /\ pc'[b] = "reset"
    <3>1. \A d \in Buses : Using(d)' => Using(d) BY <1>7 DEF Using, LivePcs, Opening
    <3>2. \A d \in Buses : pc'[d] = "close" => pc[d] = "close" BY <1>7, <2>5
    <3> QED BY <2>3, <2>5, <3>1, <3>2 DEF Served
  <2> QED BY <1>1, <1>6, <2>1, <2>4, <2>5
<1> QED BY <1>8, <1>9, <1>10, <1>11, <1>12

\* close.
LEMMA CloseStep ==
  ASSUME LifeInv, NEW b \in Buses, CloseSession(b) PROVE LifeInv'
<1> USE DEF LifeInv, LifeTypeOK
<1>0. pc[b] = "close" BY DEF CloseSession
<1>1. PICK s \in Buses : s = session[b] BY <1>0 DEF Owners
<1>2. /\ closed' = [closed EXCEPT ![s] = TRUE]
      /\ claimed' = IF claimed = s THEN NoBus ELSE claimed
      /\ pc' = [pc EXCEPT ![b] = "reset"]
      /\ UNCHANGED <<registry, overlap, session, listeners, refs>>
  BY <1>1 DEF CloseSession, Goto
<1>3. pc'[b] = "reset" /\ \A d \in Buses : d # b => pc'[d] = pc[d] BY <1>2
<1>4. LifeTypeOK' BY <1>2 DEF Pcs
<1>5. Owners'
  <2>1. pc[s] # "new" /\ \A t \in Buses : t # s => closed'[t] = closed[t]
    BY <1>1, <1>2 DEF Owners
  <2> QED BY <1>0, <1>2, <1>3, <2>1 DEF Owners
<1>6. ListenersExact'
  <2>1. \A d \in Buses : Counted(d)' <=> Counted(d) BY <1>0, <1>3 DEF Counted, LivePcs
  <2>2. \A d \in Buses : pc[d] = "failed" => pc'[d] = "failed" BY <1>0, <1>3
  <2> QED BY <1>2, <2>1, <2>2 DEF ListenersExact
<1>7. ClaimHeld' BY <1>0, <1>2, <1>3 DEF ClaimHeld
<1>8. Served'
  <2>1. overlap = FALSE => registry = NoBus BY <1>0 DEF Served
  <2>2. \A d \in Buses : Using(d)' => Using(d) BY <1>3 DEF Using, LivePcs, Opening
  <2>3. overlap = FALSE => \A d \in Buses : ~Using(d)
    BY <2>1 DEF Served, Owners, Using, LivePcs, Opening
  <2>4. \A d \in Buses : /\ pc'[d] \in Opening => pc[d] \in Opening
                         /\ pc'[d] \in Stopping => pc[d] \in Stopping
    BY <1>0, <1>3 DEF Opening, Stopping
  <2> QED BY <1>2, <2>1, <2>2, <2>3, <2>4 DEF Served
<1> QED BY <1>4, <1>5, <1>6, <1>7, <1>8

LEMMA LifeStep == ASSUME LifeInv, [Next]_vars PROVE LifeInv'
<1>1. ASSUME UNCHANGED lifeVars PROVE LifeInv'
  BY <1>1 DEF lifeVars, LifeInv, LifeTypeOK, Owners, ListenersExact, ClaimHeld, Served,
              Counted, Using
<1> USE DEF regVars, busVars, queueVars, pollVars, sessVars, Goto
<1>2. ASSUME NEW b \in Buses, ConfigureStep(b) \/ ConfigureFails(b) PROVE LifeInv'
  <2>1. CASE ConfigureStep(b)
    <3>1. CASE UNCHANGED pc BY <1>1, <2>1, <3>1 DEF ConfigureStep, lifeVars
    <3>2. CASE pc' = [pc EXCEPT ![b] = "open"]
      BY <2>1, <3>2, GoesOnStep DEF ConfigureStep, Pcs, LivePcs, Stopping
    <3> QED BY <2>1, <3>1, <3>2 DEF ConfigureStep
  <2>2. CASE ConfigureFails(b)
    BY <2>2, GoesOnStep DEF ConfigureFails, Pcs, LivePcs, Stopping
  <2> QED BY <1>2, <2>1, <2>2
<1>3. ASSUME NEW b \in Buses, Use(b) PROVE LifeInv'
  <2>1. CASE Send(b) \/ RecvQueued(b) BY <1>1, <2>1 DEF Send, RecvQueued, lifeVars
  <2>2. CASE PollRead(b) \/ PollSnapshot(b)
    BY <2>2, GoesOnStep DEF PollRead, PollSnapshot, Pcs, LivePcs, Stopping
  <2>3. CASE PollDeliver(b)
    <3>1. UNCHANGED <<regVars, session, sessVars>> /\ pc[b] = "deliver" BY <2>3 DEF PollDeliver
    <3>2. UNCHANGED pc \/ pc' = [pc EXCEPT ![b] = "open"] BY <2>3 DEF PollDeliver
    <3> QED BY <1>1, <3>1, <3>2, GoesOnStep DEF lifeVars, Pcs, LivePcs, Stopping
  <2> QED BY <1>3, <2>1, <2>2, <2>3 DEF Use
<1>4. ASSUME NEW b \in Buses, Shutdown(b) \/ CloseChannel(b) PROVE LifeInv'
  BY <1>4, GoesOnStep DEF Shutdown, CloseChannel, Pcs, LivePcs, Stopping
<1>5. ASSUME NEW c \in Channels, Receive(c) PROVE LifeInv'
  BY <1>1, <1>5 DEF Receive, lifeVars
<1>6. CASE UNCHANGED vars BY <1>1, <1>6 DEF vars, lifeVars
<1>7. ASSUME NEW b \in Buses, Constructor(b) PROVE LifeInv'
  BY <1>2, <1>7, JoinStep, LeakStep, AddStep, ReleaseStep DEF Constructor
<1>8. ASSUME NEW b \in Buses, Stop(b) PROVE LifeInv'
  BY <1>4, <1>8, RemoveStep, CloseStep, ReleaseStep DEF Stop
<1> QED BY <1>3, <1>5, <1>6, <1>7, <1>8 DEF Next

THEOREM LifeInvariant == Spec => []LifeInv
<1>1. LifeInv /\ [Next]_vars => LifeInv' BY LifeStep
<1> QED BY <1>1, LifeInit, PTL DEF Spec

\* A bus object that was not shut down has an open session that holds the interface and
\* lists it, as long as making and shutting down never overlapped.
THEOREM LiveBusesServed == Spec => []LiveBusIsServed
<1>1. LifeInv => LiveBusIsServed
  <2> SUFFICES ASSUME LifeInv, overlap = FALSE, NEW b \in Buses, Live(b)
               PROVE  b \in listeners[session[b]] /\ ~closed[session[b]] /\ claimed = session[b]
    BY DEF LiveBusIsServed, LifeInv, LifeTypeOK
  <2>1. Counted(b) /\ Using(b) BY DEF Live, Counted, Using, LivePcs
  <2>2. b \in listeners[session[b]] BY <2>1 DEF LifeInv, ListenersExact
  <2>3. closed[session[b]] = FALSE /\ claimed = session[b] BY <2>1 DEF LifeInv, Served
  <2> QED BY <2>2, <2>3
<1> QED BY <1>1, LifeInvariant, PTL

\* Once every bus object is gone, the interface is free, overlap or not, and also
\* when a constructor left a reference behind.
THEOREM InterfaceComesBack == Spec => []InterfaceGivenBack
<1>1. LifeInv => InterfaceGivenBack
  BY DEF LifeInv, LifeTypeOK, Owners, ClaimHeld, InterfaceGivenBack
<1> QED BY <1>1, LifeInvariant, PTL

-----------------------------------------------------------------------------
(***************************************************************************)
(* configure_channel: bus objects that do not share a channel, apart from  *)
(* those whose constructor throws before it.                               *)
(***************************************************************************)
Requests == Settings \cup {"RESET", "START"}
Sessions == Buses \cup {NoBus}
ChannelStates == [on : BOOLEAN, set : [Settings -> Sessions]]

\* The elements of a concatenation.
LEMMA Concatenation ==
  ASSUME NEW S, NEW s \in Seq(S), NEW t \in Seq(S)
  PROVE  /\ s \o t \in Seq(S) /\ Len(s \o t) = Len(s) + Len(t)
         /\ \A i \in 1 .. Len(s) + Len(t) :
               (s \o t)[i] = IF i <= Len(s) THEN s[i] ELSE t[i - Len(s)]
BY ConcatProperties

LEMMA TransferList ==
  ASSUME NEW b \in Buses
  PROVE  /\ Len(Transfers(b)) = IF b \in FdBuses THEN 5 ELSE 4
         /\ LET t == Transfers(b) IN
            /\ t[1] = "RESET" /\ t[2] = "BITTIMING"
            /\ IF b \in FdBuses
                 THEN t[3] = "DATA_BITTIMING" /\ t[4] = "TERMINATION" /\ t[5] = "START"
                 ELSE t[3] = "TERMINATION" /\ t[4] = "START"
<1> DEFINE p == <<"RESET", "BITTIMING">>
           d == IF b \in FdBuses THEN <<"DATA_BITTIMING">> ELSE <<>>
           q == <<"TERMINATION", "START">>
<1>1. /\ p \in Seq(Requests) /\ Len(p) = 2 /\ p[1] = "RESET" /\ p[2] = "BITTIMING"
      /\ q \in Seq(Requests) /\ Len(q) = 2 /\ q[1] = "TERMINATION" /\ q[2] = "START"
  BY DEF Requests, Settings
<1>2. /\ d \in Seq(Requests)
      /\ IF b \in FdBuses THEN Len(d) = 1 /\ d[1] = "DATA_BITTIMING" ELSE Len(d) = 0
  <2>1. CASE b \in FdBuses
    <3>1. d = <<"DATA_BITTIMING">> BY <2>1
    <3> HIDE DEF d
    <3> QED BY <2>1, <3>1 DEF Requests, Settings
  <2>2. CASE b \notin FdBuses
    <3>1. d = <<>> BY <2>2
    <3> HIDE DEF d
    <3> QED BY <2>2, <3>1
  <2> QED BY <2>1, <2>2
<1> HIDE DEF p, d, q
<1>3. p \in Seq(Requests) /\ q \in Seq(Requests) /\ d \in Seq(Requests) BY <1>1, <1>2
<1> DEFINE u == p \o d
           v == u \o q
<1>4. u \in Seq(Requests) /\ Len(u) = Len(p) + Len(d) BY <1>3, Concatenation
<1>5. \A i \in 1 .. Len(p) + Len(d) : u[i] = IF i <= Len(p) THEN p[i] ELSE d[i - Len(p)]
  BY <1>3, Concatenation
<1> HIDE DEF u
<1>6. Len(v) = Len(u) + Len(q) BY <1>3, <1>4, Concatenation
<1>7. \A i \in 1 .. Len(u) + Len(q) : v[i] = IF i <= Len(u) THEN u[i] ELSE q[i - Len(u)]
  BY <1>3, <1>4, Concatenation
<1> HIDE DEF v
<1>8. Transfers(b) = v BY DEF Transfers, p, d, q, u, v
<1>9. CASE b \in FdBuses
  <2>1. Len(d) = 1 /\ d[1] = "DATA_BITTIMING" BY <1>2, <1>9
  <2>2. Len(u) = 3 /\ u[1] = "RESET" /\ u[2] = "BITTIMING" /\ u[3] = "DATA_BITTIMING"
    BY <1>1, <1>4, <1>5, <2>1
  <2>3. Len(v) = 5 /\ v[1] = u[1] /\ v[2] = u[2] /\ v[3] = u[3] /\ v[4] = q[1] /\ v[5] = q[2]
    BY <1>1, <1>6, <1>7, <2>2
  <2> QED BY <1>1, <1>8, <1>9, <2>2, <2>3
<1>10. CASE b \notin FdBuses
  <2>1. Len(d) = 0 BY <1>2, <1>10
  <2>2. Len(u) = 2 /\ u[1] = "RESET" /\ u[2] = "BITTIMING"
    BY <1>1, <1>4, <1>5, <2>1
  <2>3. Len(v) = 4 /\ v[1] = u[1] /\ v[2] = u[2] /\ v[3] = q[1] /\ v[4] = q[2]
    BY <1>1, <1>6, <1>7, <2>2
  <2> QED BY <1>1, <1>8, <1>10, <2>2, <2>3
<1> QED BY <1>9, <1>10

\* What a bus object has set by its first t - 1 transfers.
ConfiguredTo(b, t) ==
    LET c == channel[ChannelOf[b]] IN
    /\ t > 2 => c.set["BITTIMING"] = b
    /\ b \in FdBuses /\ t > 3 => c.set["DATA_BITTIMING"] = b
    /\ t > (IF b \in FdBuses THEN 4 ELSE 3) => c.set["TERMINATION"] = b

ConfInv ==
    /\ pc \in [Buses -> Pcs]
    /\ transfer \in [Buses -> Nat]
    /\ \A b \in Buses : transfer[b] \in 1 .. Len(Transfers(b))
    /\ \A b \in Buses : pc[b] \in {"new", "acquired"} => transfer[b] = 1
    /\ \A b \in BadBuses : pc[b] \in {"new", "acquired", "added", "failed", "leaked"}
    /\ channel \in [Channels -> ChannelStates]

\* The settings of the channel of a bus object that nobody shares it with.
OpenPcs == {"open", "snapshot", "deliver"}
Configured ==
    \A b \in Buses : /\ pc[b] = "configure" => ConfiguredTo(b, transfer[b])
                     /\ pc[b] \in OpenPcs => ConfiguredTo(b, 6) /\ channel[ChannelOf[b]].on = TRUE

\* What a request for the channel of a bus object changes.
Applied(b, r) ==
    /\ channel' \in [Channels -> ChannelStates]
    /\ \A c \in Channels \ {ChannelOf[b]} : channel'[c] = channel[c]
    /\ r = "START" => channel'[ChannelOf[b]].on = TRUE
    /\ \A x \in Settings :
         channel'[ChannelOf[b]].set[x] = IF r = x THEN b ELSE channel[ChannelOf[b]].set[x]

LEMMA RequestTyped ==
  ASSUME NEW b \in Buses, NEW r \in Requests, channel \in [Channels -> ChannelStates],
         Request(b, r)
  PROVE  Applied(b, r)
<1> USE DEF Applied
<1>1. ChannelOf[b] \in Channels /\ b \in Sessions BY DEF Sessions
<1>2. CASE r = "RESET" BY <1>1, <1>2 DEF Request, ChannelStates, Settings
<1>3. CASE r = "START" BY <1>1, <1>3 DEF Request, ChannelStates, Settings
<1>4. CASE r \in Settings
  <2>1. r # "RESET" /\ r # "START" BY <1>4 DEF Settings
  <2>2. channel' = [channel EXCEPT ![ChannelOf[b]] = [@ EXCEPT !.set[r] = b]]
    BY <1>4, <2>1 DEF Request
  <2>3. channel[ChannelOf[b]] \in ChannelStates BY <1>1
  <2>4. [channel[ChannelOf[b]] EXCEPT !.set[r] = b] \in ChannelStates
    BY <1>1, <1>4, <2>3 DEF ChannelStates
  <2>5. channel'[ChannelOf[b]] = [channel[ChannelOf[b]] EXCEPT !.set[r] = b] BY <1>1, <2>2
  <2>6. channel' \in [Channels -> ChannelStates]
        /\ \A c \in Channels \ {ChannelOf[b]} : channel'[c] = channel[c]
    <3> HIDE DEF ChannelStates
    <3> QED BY <1>1, <2>2, <2>4
  <2>7. channel'[ChannelOf[b]].on = channel[ChannelOf[b]].on BY <2>3, <2>5 DEF ChannelStates
  <2>8. \A x \in Settings :
          channel'[ChannelOf[b]].set[x] = IF r = x THEN b ELSE channel[ChannelOf[b]].set[x]
    BY <1>4, <2>3, <2>5 DEF ChannelStates
  <2> QED BY <2>1, <2>6, <2>7, <2>8
<1> QED BY <1>2, <1>3, <1>4 DEF Requests

\* The transfer that comes next, and the settings after it.
LEMMA NextTransfer ==
  ASSUME NEW b \in Buses, NEW t \in 1 .. Len(Transfers(b)),
         channel \in [Channels -> ChannelStates], Request(b, Transfers(b)[t])
  PROVE  /\ channel' \in [Channels -> ChannelStates]
         /\ \A c \in Channels \ {ChannelOf[b]} : channel'[c] = channel[c]
         /\ ConfiguredTo(b, t) => ConfiguredTo(b, t + 1)'
         /\ t = Len(Transfers(b)) => channel'[ChannelOf[b]].on = TRUE
<1>1. PICK r \in Requests :
         /\ r = Transfers(b)[t]
         /\ IF b \in FdBuses
              THEN \/ t = 1 /\ r = "RESET"
                   \/ t = 2 /\ r = "BITTIMING"
                   \/ t = 3 /\ r = "DATA_BITTIMING"
                   \/ t = 4 /\ r = "TERMINATION"
                   \/ t = 5 /\ r = "START"
              ELSE \/ t = 1 /\ r = "RESET"
                   \/ t = 2 /\ r = "BITTIMING"
                   \/ t = 3 /\ r = "TERMINATION"
                   \/ t = 4 /\ r = "START"
  <2>1. CASE b \in FdBuses
    <3>1. t \in 1 .. 5 BY <2>1, TransferList
    <3>2. /\ Transfers(b)[1] = "RESET" /\ Transfers(b)[2] = "BITTIMING"
          /\ Transfers(b)[3] = "DATA_BITTIMING" /\ Transfers(b)[4] = "TERMINATION"
          /\ Transfers(b)[5] = "START"
      BY <2>1, TransferList
    <3>3. t = 1 \/ t = 2 \/ t = 3 \/ t = 4 \/ t = 5 BY <3>1
    <3> QED BY <2>1, <3>2, <3>3 DEF Requests, Settings
  <2>2. CASE b \notin FdBuses
    <3>1. t \in 1 .. 4 BY <2>2, TransferList
    <3>2. /\ Transfers(b)[1] = "RESET" /\ Transfers(b)[2] = "BITTIMING"
          /\ Transfers(b)[3] = "TERMINATION" /\ Transfers(b)[4] = "START"
      BY <2>2, TransferList
    <3>3. t = 1 \/ t = 2 \/ t = 3 \/ t = 4 BY <3>1
    <3> QED BY <2>2, <3>2, <3>3 DEF Requests, Settings
  <2> QED BY <2>1, <2>2
<1>2. Request(b, r) BY <1>1
<1>3. Applied(b, r) BY <1>2, RequestTyped
<1>4. ConfiguredTo(b, t) => ConfiguredTo(b, t + 1)'
  <2>1. /\ channel'[ChannelOf[b]].set["BITTIMING"]
             = IF r = "BITTIMING" THEN b ELSE channel[ChannelOf[b]].set["BITTIMING"]
        /\ channel'[ChannelOf[b]].set["DATA_BITTIMING"]
             = IF r = "DATA_BITTIMING" THEN b ELSE channel[ChannelOf[b]].set["DATA_BITTIMING"]
        /\ channel'[ChannelOf[b]].set["TERMINATION"]
             = IF r = "TERMINATION" THEN b ELSE channel[ChannelOf[b]].set["TERMINATION"]
    BY <1>3 DEF Applied, Settings
  <2> QED BY <1>1, <2>1 DEF ConfiguredTo
<1>5. t = Len(Transfers(b)) => r = "START"
  BY <1>1, TransferList
<1> QED BY <1>3, <1>4, <1>5 DEF Applied

confVars == <<pc, transfer, channel>>

LEMMA ConfStep ==
  ASSUME ConfInv, [Next]_vars
  PROVE  /\ ConfInv'
         /\ (\A b, d \in Buses \ BadBuses : ChannelOf[b] = ChannelOf[d] => b = d) /\ Configured
              => Configured'
<1> DEFINE Own == \A b, d \in Buses \ BadBuses : ChannelOf[b] = ChannelOf[d] => b = d
           Goal == ConfInv' /\ (Own /\ Configured => Configured')
<1>1. ASSUME UNCHANGED confVars PROVE Goal
  BY <1>1 DEF confVars, ConfInv, Configured, ConfiguredTo
<1>2. ASSUME NEW b \in Buses, AddBus(b) PROVE Goal
  <2>1. /\ pc[b] = "acquired" /\ UNCHANGED <<transfer, channel>>
        /\ pc' = [pc EXCEPT ![b] = IF b \in BadBuses THEN "added" ELSE "configure"]
    BY <1>2 DEF AddBus, Goto, devVars
  <2>2. ConfInv' BY <2>1 DEF ConfInv, Pcs
  <2>3. ConfiguredTo(b, transfer[b])' BY <2>1 DEF ConfInv, ConfiguredTo
  <2>4. Configured => Configured'
    BY <2>1, <2>3 DEF Configured, ConfInv, ConfiguredTo, OpenPcs
  <2> QED BY <2>2, <2>4
<1>3. ASSUME NEW b \in Buses \ BadBuses, NEW x \in Buses \ {b}, Own, Configured,
             ConfInv, ConfInv',
             \A c \in Channels \ {ChannelOf[b]} : channel'[c] = channel[c],
             UNCHANGED <<pc[x], transfer[x]>>
      PROVE  /\ pc'[x] = "configure" => ConfiguredTo(x, transfer[x])'
             /\ pc'[x] \in OpenPcs => ConfiguredTo(x, 6)' /\ channel'[ChannelOf[x]].on = TRUE
  <2>1. CASE x \in BadBuses
    BY <1>3, <2>1 DEF ConfInv, OpenPcs
  <2>2. CASE x \notin BadBuses
    <3>1. channel'[ChannelOf[x]] = channel[ChannelOf[x]] BY <1>3, <2>2
    <3> QED BY <1>3, <3>1 DEF Configured, ConfiguredTo, ConfInv
  <2> QED BY <2>1, <2>2
<1>4. ASSUME NEW b \in Buses, ConfigureStep(b) PROVE Goal
  <2>1. /\ pc[b] = "configure" /\ Request(b, Transfers(b)[transfer[b]])
        /\ transfer[b] \in 1 .. Len(Transfers(b)) /\ channel \in [Channels -> ChannelStates]
        /\ Len(Transfers(b)) = IF b \in FdBuses THEN 5 ELSE 4
        /\ ChannelOf[b] \in Channels /\ b \notin BadBuses
    BY <1>4, TransferList DEF ConfigureStep, ConfInv
  <2>2. PICK t \in 1 .. Len(Transfers(b)) : t = transfer[b] BY <2>1
  <2>3. /\ channel' \in [Channels -> ChannelStates]
        /\ \A c \in Channels \ {ChannelOf[b]} : channel'[c] = channel[c]
        /\ ConfiguredTo(b, t) => ConfiguredTo(b, t + 1)'
        /\ t = Len(Transfers(b)) => channel'[ChannelOf[b]].on = TRUE
    BY <2>1, <2>2, NextTransfer
  <2>4. CASE t = Len(Transfers(b))
    <3>1. pc' = [pc EXCEPT ![b] = "open"] /\ UNCHANGED transfer
      BY <1>4, <2>2, <2>4 DEF ConfigureStep, Goto
    <3>2. ConfInv' BY <2>1, <2>3, <3>1 DEF ConfInv, Pcs
    <3>3. ASSUME Own, Configured PROVE Configured'
      <4>1. ConfiguredTo(b, t) BY <2>1, <2>2, <3>3 DEF Configured
      <4>2. ConfiguredTo(b, t + 1)' /\ channel'[ChannelOf[b]].on = TRUE
        BY <2>3, <2>4, <4>1
      <4>3. ConfiguredTo(b, 6)' BY <2>1, <2>4, <4>2 DEF ConfiguredTo
      <4>4. \A x \in Buses \ {b} : UNCHANGED <<pc[x], transfer[x]>> BY <3>1 DEF ConfInv
      <4>5. pc'[b] = "open" BY <3>1 DEF ConfInv
      <4> QED BY <1>3, <2>1, <2>3, <3>2, <3>3, <4>2, <4>3, <4>4, <4>5 DEF Configured
    <3> QED BY <3>2, <3>3
  <2>5. CASE t # Len(Transfers(b))
    <3>1. transfer' = [transfer EXCEPT ![b] = t + 1] /\ UNCHANGED pc
      BY <1>4, <2>2, <2>5 DEF ConfigureStep
    <3>2. t + 1 \in 1 .. Len(Transfers(b)) /\ t + 1 \in Nat BY <2>1, <2>5
    <3>3. \A x \in Buses : transfer'[x] \in 1 .. Len(Transfers(x))
      BY <3>1, <3>2 DEF ConfInv
    <3>4. ConfInv' BY <2>1, <2>3, <3>1, <3>2, <3>3 DEF ConfInv
    <3>5. ASSUME Own, Configured PROVE Configured'
      <4>1. ConfiguredTo(b, t) BY <2>1, <2>2, <3>5 DEF Configured
      <4>2. ConfiguredTo(b, t + 1)' BY <2>3, <4>1
      <4>3. transfer'[b] = t + 1 BY <3>1 DEF ConfInv
      <4>4. ConfiguredTo(b, transfer[b])' BY <4>2, <4>3 DEF ConfiguredTo
      <4>5. \A x \in Buses \ {b} : UNCHANGED <<pc[x], transfer[x]>> BY <3>1 DEF ConfInv
      <4>6. pc'[b] \notin OpenPcs BY <2>1, <3>1 DEF OpenPcs
      <4> QED BY <1>3, <2>1, <2>3, <3>4, <3>5, <4>4, <4>5, <4>6 DEF Configured
    <3> QED BY <3>4, <3>5
  <2> QED BY <2>4, <2>5
<1>5. ASSUME NEW b \in Buses, CloseChannel(b) PROVE Goal
  <2>1. /\ pc[b] = "stopped" /\ pc' = [pc EXCEPT ![b] = "remove"] /\ UNCHANGED transfer
        /\ Request(b, "RESET") \/ UNCHANGED channel
        /\ channel \in [Channels -> ChannelStates] /\ b \notin BadBuses
    BY <1>5 DEF CloseChannel, Goto, ConfInv
  <2>2. /\ channel' \in [Channels -> ChannelStates]
        /\ \A c \in Channels \ {ChannelOf[b]} : channel'[c] = channel[c]
    BY <2>1, RequestTyped DEF Requests, Applied
  <2>3. ConfInv' BY <2>1, <2>2 DEF ConfInv, Pcs
  <2>4. ASSUME Own, Configured PROVE Configured'
    <3>1. pc'[b] = "remove" BY <2>1 DEF ConfInv
    <3>2. \A x \in Buses \ {b} : UNCHANGED <<pc[x], transfer[x]>> BY <2>1 DEF ConfInv
    <3> QED BY <1>3, <2>1, <2>2, <2>3, <2>4, <3>1, <3>2 DEF Configured, OpenPcs
  <2> QED BY <2>3, <2>4
<1> USE DEF Goto, busVars, devVars
<1>6. ASSUME NEW b \in Buses, NEW to \in Pcs, pc' = [pc EXCEPT ![b] = to],
             to \notin {"new", "configure"},
             to \in {"failed", "leaked"} \/ (pc[b] = "new" /\ to = "acquired")
               \/ pc[b] \in OpenPcs \cup {"configure", "remove", "close", "reset"},
             to = "acquired" => pc[b] = "new",
             to \in OpenPcs => pc[b] \in OpenPcs,
             UNCHANGED <<transfer, channel>>
      PROVE  Goal
  <2>1. ConfInv' BY <1>6 DEF ConfInv, OpenPcs
  <2>2. ASSUME NEW x \in Buses
        PROVE  /\ pc'[x] = "configure" => pc[x] = "configure"
               /\ pc'[x] \in OpenPcs => pc[x] \in OpenPcs
    BY <1>6 DEF ConfInv
  <2> QED BY <1>6, <2>1, <2>2 DEF Configured, ConfiguredTo
<1>7. ASSUME NEW b \in Buses, Constructor(b) PROVE Goal
  <2> USE DEF Pcs, OpenPcs
  <2>1. CASE AcquireSession(b) \/ CreateSession(b)
    BY <1>6, <2>1 DEF AcquireSession, CreateSession
  <2>2. CASE CreateSessionLeaks(b) \/ SessionFails(b)
    BY <1>6, <2>2 DEF CreateSessionLeaks, SessionFails
  <2>3. CASE NoSuchChannel(b) \/ ConfigureFails(b)
    BY <1>6, <2>3 DEF NoSuchChannel, ConfigureFails
  <2> QED BY <1>2, <1>4, <1>7, <2>1, <2>2, <2>3 DEF Constructor
<1>8. ASSUME NEW b \in Buses, Use(b) PROVE Goal
  <2> USE DEF Pcs, OpenPcs
  <2>1. CASE Send(b) \/ RecvQueued(b) BY <1>1, <2>1 DEF Send, RecvQueued, confVars
  <2>2. CASE PollRead(b) BY <1>6, <2>2 DEF PollRead
  <2>3. CASE PollSnapshot(b) BY <1>6, <2>3 DEF PollSnapshot
  <2>4. CASE PollDeliver(b)
    <3>1. pc[b] = "deliver" /\ UNCHANGED <<transfer, channel>> BY <2>4 DEF PollDeliver
    <3>2. UNCHANGED pc \/ pc' = [pc EXCEPT ![b] = "open"] BY <2>4 DEF PollDeliver
    <3> QED BY <1>1, <1>6, <3>1, <3>2 DEF confVars
  <2> QED BY <1>8, <2>1, <2>2, <2>3, <2>4 DEF Use
<1>9. ASSUME NEW b \in Buses, Stop(b) PROVE Goal
  <2> USE DEF Pcs, OpenPcs
  <2>1. CASE Shutdown(b) BY <1>6, <2>1 DEF Shutdown
  <2>2. CASE RemoveBus(b)
    <3>1. pc[b] = "remove" /\ UNCHANGED <<transfer, channel>> BY <2>2 DEF RemoveBus
    <3>2. pc' = [pc EXCEPT ![b] = "close"] \/ pc' = [pc EXCEPT ![b] = "reset"]
      BY <2>2 DEF RemoveBus
    <3> QED BY <1>6, <3>1, <3>2
  <2>3. CASE CloseSession(b) \/ ResetSession(b)
    BY <1>6, <2>3 DEF CloseSession, ResetSession
  <2> QED BY <1>5, <1>9, <2>1, <2>2, <2>3 DEF Stop
<1>10. ASSUME NEW c \in Channels, Receive(c) PROVE UNCHANGED confVars
  BY <1>10 DEF Receive, confVars
<1>11. UNCHANGED vars => UNCHANGED confVars BY DEF vars, confVars
<1> QED BY <1>1, <1>7, <1>8, <1>9, <1>10, <1>11 DEF Next

THEOREM ConfInvariant == Spec => []ConfInv
<1>1. Init => ConfInv
  <2> SUFFICES ASSUME Init PROVE ConfInv
    OBVIOUS
  <2>1. \A b \in Buses : 1 \in 1 .. Len(Transfers(b)) BY TransferList
  <2>2. channel \in [Channels -> ChannelStates] BY DEF Init, ChannelStates, Sessions
  <2> QED BY <2>1, <2>2 DEF Init, ConfInv, Pcs
<1>2. ConfInv /\ [Next]_vars => ConfInv' BY ConfStep
<1> QED BY <1>1, <1>2, PTL DEF Spec

\* An open bus object that shares its channel with none that can be opened finds it
\* running with the settings it asked for, whoever configures, resets and closes other
\* channels meanwhile.
THEOREM ChannelsMine ==
  ASSUME \A b, d \in Buses \ BadBuses : ChannelOf[b] = ChannelOf[d] => b = d
  PROVE  Spec => []ChannelIsMine
<1>1. Init => Configured BY DEF Init, Configured, OpenPcs
<1>2. ConfInv /\ Configured /\ [Next]_vars => Configured' BY ConfStep
<1>3. ConfInv /\ Configured => ChannelIsMine
  BY DEF Configured, ConfiguredTo, ChannelIsMine, Live, OpenPcs, Settings
<1> QED BY <1>1, <1>2, <1>3, ConfInvariant, PTL DEF Spec

-----------------------------------------------------------------------------
(***************************************************************************)
(* Frames: types.                                                          *)
(***************************************************************************)
FrameTypeOK ==
    /\ seen \in [Buses -> Seq(Nat)] /\ queue \in [Buses -> Seq(Nat)]
    /\ since \in [Buses -> Nat]
    /\ frame \in [Buses -> Frames]
    /\ todo \in [Buses -> SUBSET Buses]
    /\ received \in [Channels -> Nat]
    /\ \A c \in Channels : received[c] <= MaxFrames[c]
    /\ pipe \in Seq(Frames)

frameVars == <<seen, queue, since, frame, todo, received, pipe>>

\* A channel hands a frame to the host.
LEMMA FrameForType ==
  ASSUME FrameTypeOK, NEW c \in Channels, FrameFor(c)
  PROVE  /\ received' = [received EXCEPT ![c] = received[c] + 1]
         /\ received' \in [Channels -> Nat]
         /\ \A d \in Channels : received'[d] <= MaxFrames[d]
         /\ [chan |-> c, n |-> received[c] + 1] \in Frames
         /\ pipe' = Append(pipe, [chan |-> c, n |-> received[c] + 1])
         /\ pipe' \in Seq(Frames)
<1> USE DEF FrameTypeOK
<1>1. received' = [received EXCEPT ![c] = received[c] + 1] /\ received[c] < MaxFrames[c]
  BY DEF FrameFor
<1>2. received' \in [Channels -> Nat] /\ received'[c] = received[c] + 1 BY <1>1
<1>3. \A d \in Channels : received'[d] <= MaxFrames[d] BY <1>1, <1>2
<1>4. pipe' = Append(pipe, [chan |-> c, n |-> received[c] + 1])
  BY <1>2 DEF FrameFor
<1>5. [chan |-> c, n |-> received[c] + 1] \in Frames BY DEF Frames
<1>6. pipe' \in Seq(Frames)
  <2> HIDE DEF Frames
  <2> QED BY <1>4, <1>5, AppendProperties
<1> QED BY <1>1, <1>2, <1>3, <1>4, <1>5, <1>6

\* What serving a bus object does to it: nothing, or the frame is put in its queue.
LEMMA DeliveryTyped ==
  ASSUME FrameTypeOK, NEW l \in Buses, NEW n \in Nat, OnMessageReceived(l, n)
  PROVE  /\ \/ pc[l] \in Stopping \cup {"shut"} /\ UNCHANGED <<queue, seen>>
            \/ seen' = [seen EXCEPT ![l] = Append(seen[l], n)]
         /\ seen' \in [Buses -> Seq(Nat)] /\ queue' \in [Buses -> Seq(Nat)]
<1> USE DEF FrameTypeOK
<1>1. CASE pc[l] \in Stopping \cup {"shut"} BY <1>1 DEF OnMessageReceived
<1>2. CASE pc[l] \notin Stopping \cup {"shut"}
  <2>1. /\ queue' = [queue EXCEPT ![l] = Append(queue[l], n)]
        /\ seen' = [seen EXCEPT ![l] = Append(seen[l], n)]
    BY <1>2 DEF OnMessageReceived
  <2>2. Append(queue[l], n) \in Seq(Nat) /\ Append(seen[l], n) \in Seq(Nat)
    BY AppendProperties
  <2> QED BY <2>1, <2>2
<1> QED BY <1>1, <1>2

LEMMA FrameTypeStep ==
  ASSUME LifeInv, FrameTypeOK, [Next]_vars PROVE FrameTypeOK'
<1> USE DEF FrameTypeOK
<1>1. ASSUME UNCHANGED frameVars PROVE FrameTypeOK' BY <1>1 DEF frameVars
<1> USE DEF busVars, queueVars, pollVars, devVars
<1>2. ASSUME NEW b \in Buses, AddBus(b) PROVE FrameTypeOK'
  <2>1. since' = [since EXCEPT ![b] = received[ChannelOf[b]]]
        /\ UNCHANGED <<seen, queue, frame, todo, received, pipe>>
    BY <1>2 DEF AddBus
  <2> QED BY <2>1
<1>3. ASSUME NEW c \in Channels, FrameFor(c), UNCHANGED <<seen, queue, since, frame, todo>>
      PROVE  FrameTypeOK'
  BY <1>3, FrameForType
<1>4. ASSUME NEW b \in Buses, RecvQueued(b) PROVE FrameTypeOK'
  <2>1. queue[b] # <<>> /\ queue' = [queue EXCEPT ![b] = Tail(queue[b])]
        /\ UNCHANGED <<seen, since, frame, todo, received, pipe>>
    BY <1>4 DEF RecvQueued
  <2>2. Tail(queue[b]) \in Seq(Nat) BY <2>1, HeadTailProperties
  <2> QED BY <2>1, <2>2
<1>5. ASSUME NEW b \in Buses, PollRead(b) PROVE FrameTypeOK'
  <2>1. pipe # <<>> /\ frame' = [frame EXCEPT ![b] = Head(pipe)] /\ pipe' = Tail(pipe)
        /\ UNCHANGED <<seen, queue, since, todo, received>>
    BY <1>5 DEF PollRead
  <2>2. Head(pipe) \in Frames /\ Tail(pipe) \in Seq(Frames) BY <2>1, HeadTailProperties
  <2> QED BY <2>1, <2>2
<1>6. ASSUME NEW b \in Buses, PollSnapshot(b) PROVE FrameTypeOK'
  <2>1. PICK S \in SUBSET Buses : todo' = [todo EXCEPT ![b] = S]
    <3>1. session[b] \in Buses BY <1>6 DEF PollSnapshot, LifeInv, LifeTypeOK, Owners
    <3> QED BY <1>6, <3>1 DEF PollSnapshot, LifeInv, LifeTypeOK
  <2>2. UNCHANGED <<seen, queue, since, frame, received, pipe>> BY <1>6 DEF PollSnapshot
  <2> QED BY <2>1, <2>2
<1>7. ASSUME NEW b \in Buses, PollDeliver(b) PROVE FrameTypeOK'
  <2>1. UNCHANGED <<since, frame, received, pipe>> BY <1>7 DEF PollDeliver
  <2>2. CASE UNCHANGED <<queue, seen, todo>> BY <2>1, <2>2
  <2>3. CASE \E l \in todo[b] : /\ OnMessageReceived(l, frame[b].n)
                                /\ todo' = [todo EXCEPT ![b] = @ \ {l}]
    <3>1. PICK l \in todo[b] : /\ OnMessageReceived(l, frame[b].n)
                               /\ todo' = [todo EXCEPT ![b] = @ \ {l}]
      BY <2>3
    <3>2. PICK n \in Nat : n = frame[b].n BY DEF Frames
    <3>3. seen' \in [Buses -> Seq(Nat)] /\ queue' \in [Buses -> Seq(Nat)]
      BY <3>1, <3>2, DeliveryTyped
    <3>4. todo' \in [Buses -> SUBSET Buses] BY <3>1
    <3> QED BY <2>1, <3>3, <3>4
  <2> QED BY <1>7, <2>2, <2>3 DEF PollDeliver
<1>8. ASSUME NEW b \in Buses,
             \/ AcquireSession(b) \/ CreateSession(b) \/ CreateSessionLeaks(b) \/ SessionFails(b)
             \/ NoSuchChannel(b) \/ ConfigureStep(b) \/ ConfigureFails(b) \/ Shutdown(b)
             \/ CloseChannel(b) \/ RemoveBus(b) \/ CloseSession(b) \/ ResetSession(b)
      PROVE  UNCHANGED frameVars
  BY <1>8 DEF AcquireSession, CreateSession, CreateSessionLeaks, SessionFails, NoSuchChannel,
              ConfigureStep, ConfigureFails, Shutdown, CloseChannel, RemoveBus, CloseSession,
              ResetSession, frameVars
<1>9. ASSUME NEW b \in Buses, Send(b) PROVE FrameTypeOK'
  <2>1. ChannelOf[b] \in Channels OBVIOUS
  <2> QED BY <1>3, <1>9, <2>1 DEF Send
<1>10. ASSUME NEW c \in Channels, Receive(c) PROVE FrameTypeOK' BY <1>3, <1>10 DEF Receive
<1>11. UNCHANGED vars => UNCHANGED frameVars BY DEF vars, frameVars
<1>12. ASSUME NEW b \in Buses, Constructor(b) \/ Use(b) \/ Stop(b) PROVE FrameTypeOK'
  BY <1>1, <1>2, <1>4, <1>5, <1>6, <1>7, <1>8, <1>9, <1>12 DEF Constructor, Use, Stop
<1> QED BY <1>1, <1>10, <1>11, <1>12 DEF Next

LEMMA FrameTypes == Spec => []FrameTypeOK
<1>1. Init => FrameTypeOK
  <2> SUFFICES ASSUME Init PROVE FrameTypeOK
    OBVIOUS
  <2>1. <<>> \in Seq(Nat) /\ <<>> \in Seq(Frames) BY EmptySeq
  <2>2. frame \in [Buses -> Frames]
    <3> DEFINE f0 == [chan |-> CHOOSE c \in Channels : TRUE, n |-> 1]
    <3>1. frame \in [Buses -> {f0}] BY DEF Init
    <3>2. ASSUME NEW b \in Buses PROVE f0 \in Frames
      <4>1. ChannelOf[b] \in Channels OBVIOUS
      <4>2. (CHOOSE c \in Channels : TRUE) \in Channels BY <4>1
      <4> QED BY <4>2 DEF Frames
    <3> HIDE DEF f0
    <3> QED BY <3>1, <3>2
  <2> QED BY <2>1, <2>2 DEF Init, FrameTypeOK
<1>2. LifeInv /\ FrameTypeOK /\ [Next]_vars => FrameTypeOK' BY FrameTypeStep
<1> QED BY <1>1, <1>2, LifeInvariant, PTL DEF Spec

\* The type invariant: in particular who has a session, and that no session counts more
\* bus objects than there are.
THEOREM TypeCorrect == Spec => []TypeOK
<1>1. LifeInv /\ ConfInv /\ FrameTypeOK => TypeOK
  <2> SUFFICES ASSUME LifeInv, ConfInv, FrameTypeOK PROVE TypeOK
    OBVIOUS
  <2>1. refs \in [Buses -> 0 .. Cardinality(Buses)]
    <3>1. refs \in [Buses -> Nat] /\ \A s \in Buses : refs[s] = Cardinality(listeners[s])
      BY DEF LifeInv, LifeTypeOK, ListenersExact
    <3>2. \A S \in SUBSET Buses : Cardinality(S) <= Cardinality(Buses)
      BY FS_Subset
    <3>3. Cardinality(Buses) \in Nat BY FS_CardinalityType
    <3>4. \A s \in Buses : listeners[s] \in SUBSET Buses BY DEF LifeInv, LifeTypeOK
    <3> QED BY <3>1, <3>2, <3>3, <3>4
  <2>2. /\ {registry, claimed} \subseteq Buses \cup {NoBus} /\ overlap \in BOOLEAN
        /\ session \in [Buses -> Buses \cup {NoBus}]
        /\ listeners \in [Buses -> SUBSET Buses] /\ closed \in [Buses -> BOOLEAN]
    BY DEF LifeInv, LifeTypeOK
  <2>3. \A b \in Buses : session[b] # NoBus <=> pc[b] \notin {"new", "failed", "leaked", "shut"}
    BY DEF LifeInv, Owners
  <2>4. /\ pc \in [Buses -> {"new", "failed", "leaked", "acquired", "added", "configure", "open",
                             "snapshot", "deliver", "stopped", "remove", "close", "reset", "shut"}]
        /\ \A b \in Buses : transfer[b] \in 1 .. Len(Transfers(b))
    BY DEF ConfInv, Pcs
  <2> QED BY <2>1, <2>2, <2>3, <2>4 DEF TypeOK, FrameTypeOK
<1> QED BY <1>1, LifeInvariant, ConfInvariant, FrameTypes, PTL

-----------------------------------------------------------------------------
(***************************************************************************)
(* Frames: none is lost, none is doubled.                                  *)
(***************************************************************************)
Elements(s) == {s[i] : i \in DOMAIN s}
Distinct(s) == \A i, j \in DOMAIN s : s[i] = s[j] => i = j

LEMMA AppendElement ==
  ASSUME NEW S, NEW s \in Seq(S), NEW x \in S
  PROVE  /\ Elements(Append(s, x)) = Elements(s) \cup {x}
         /\ Distinct(s) /\ x \notin Elements(s) => Distinct(Append(s, x))
<1> DEFINE u == Append(s, x)
           L == Len(s)
<1>1. L \in Nat /\ DOMAIN s = 1 .. L BY LenProperties
<1>2. DOMAIN u = 1 .. L + 1 /\ u[L + 1] = x /\ \A i \in 1 .. L : u[i] = s[i]
  <2>1. u \in Seq(S) /\ Len(u) = L + 1 /\ u[L + 1] = x /\ \A i \in 1 .. L : u[i] = s[i]
    BY AppendProperties
  <2> HIDE DEF u
  <2>2. DOMAIN u = 1 .. Len(u) BY <2>1, LenProperties
  <2> QED BY <2>1, <2>2
<1> HIDE DEF u, L
<1>3. Elements(u) = Elements(s) \cup {x}
  <2>1. ASSUME NEW y \in Elements(u) PROVE y \in Elements(s) \cup {x}
    <3>1. PICK i \in DOMAIN u : y = u[i] BY <2>1 DEF Elements
    <3>2. i = L + 1 \/ i \in 1 .. L BY <1>1, <1>2
    <3> QED BY <1>1, <1>2, <3>1, <3>2 DEF Elements
  <2>2. ASSUME NEW y \in Elements(s) PROVE y \in Elements(u)
    <3>1. PICK i \in DOMAIN s : y = s[i] BY <2>2 DEF Elements
    <3>2. i \in DOMAIN u /\ u[i] = s[i] BY <1>1, <1>2
    <3> QED BY <3>1, <3>2 DEF Elements
  <2>3. x \in Elements(u)
    <3>1. L + 1 \in DOMAIN u BY <1>1, <1>2
    <3> QED BY <1>2, <3>1 DEF Elements
  <2> QED BY <2>1, <2>2, <2>3
<1>4. ASSUME Distinct(s), x \notin Elements(s) PROVE Distinct(u)
  <2> SUFFICES ASSUME NEW i \in DOMAIN u, NEW j \in DOMAIN u, u[i] = u[j] PROVE i = j
    BY DEF Distinct
  <2>1. (i \in 1 .. L \/ i = L + 1) /\ (j \in 1 .. L \/ j = L + 1) BY <1>1, <1>2
  <2>2. \A k \in 1 .. L : u[k] \in Elements(s) BY <1>1, <1>2 DEF Elements
  <2>3. CASE i \in 1 .. L /\ j \in 1 .. L BY <1>1, <1>2, <1>4, <2>3 DEF Distinct
  <2>4. CASE i = L + 1 \/ j = L + 1 BY <1>2, <1>4, <2>1, <2>2, <2>4
  <2> QED BY <2>1, <2>3, <2>4
<1> QED BY <1>3, <1>4 DEF u

LEMMA HeadElement ==
  ASSUME NEW S, NEW s \in Seq(S), s # <<>>, Distinct(s)
  PROVE  /\ Head(s) \in Elements(s) /\ Head(s) \in S
         /\ Elements(Tail(s)) = Elements(s) \ {Head(s)}
         /\ Distinct(Tail(s))
<1> DEFINE u == Tail(s)
           h == Head(s)
           L == Len(s)
<1>1. L \in Nat \ {0} /\ DOMAIN s = 1 .. L /\ h = s[1] /\ h \in S
  BY EmptySeq, LenProperties, HeadTailProperties
<1>2. DOMAIN u = 1 .. L - 1 /\ \A i \in 1 .. L - 1 : u[i] = s[i + 1]
  <2>1. u \in Seq(S) /\ Len(u) = L - 1 /\ \A i \in 1 .. Len(u) : u[i] = s[i + 1]
    BY HeadTailProperties
  <2> HIDE DEF u
  <2>2. DOMAIN u = 1 .. Len(u) BY <2>1, LenProperties
  <2> QED BY <2>1, <2>2
<1> HIDE DEF u, L, h
<1>3. 1 \in DOMAIN s /\ h \in Elements(s) BY <1>1 DEF Elements
<1>4. ASSUME NEW y \in Elements(u) PROVE y \in Elements(s) \ {h}
  <2>1. PICK i \in DOMAIN u : y = u[i] BY <1>4 DEF Elements
  <2>2. i + 1 \in DOMAIN s /\ i + 1 # 1 /\ y = s[i + 1] BY <1>1, <1>2, <2>1
  <2>3. s[i + 1] # s[1] BY <1>3, <2>2 DEF Distinct
  <2> QED BY <1>1, <2>2, <2>3 DEF Elements
<1>5. ASSUME NEW y \in Elements(s) \ {h} PROVE y \in Elements(u)
  <2>1. PICK i \in DOMAIN s : y = s[i] BY <1>5 DEF Elements
  <2>2. i # 1 BY <1>1, <1>5, <2>1
  <2>3. i - 1 \in 1 .. L - 1 /\ (i - 1) + 1 = i BY <1>1, <2>2
  <2>4. u[i - 1] = s[i] BY <1>2, <2>3
  <2> QED BY <1>2, <2>1, <2>3, <2>4 DEF Elements
<1>6. Distinct(u)
  <2> SUFFICES ASSUME NEW i \in DOMAIN u, NEW j \in DOMAIN u, u[i] = u[j] PROVE i = j
    BY DEF Distinct
  <2>1. i + 1 \in DOMAIN s /\ j + 1 \in DOMAIN s BY <1>1, <1>2
  <2>2. s[i + 1] = s[j + 1] BY <1>2
  <2>3. i + 1 = j + 1 BY <2>1, <2>2 DEF Distinct
  <2> QED BY <1>1, <1>2, <2>3
<1> QED BY <1>1, <1>3, <1>4, <1>5, <1>6 DEF u, h

\* Frame n of the channel of a bus object.
FrameOf(l, n) == [chan |-> ChannelOf[l], n |-> n]

\* A thread holds a frame it read.
Polling(p) == pc[p] \in {"snapshot", "deliver"}
HoldsFor(p, l, n) == Polling(p) /\ frame[p].chan = ChannelOf[l] /\ frame[p].n = n
WillServe(p, l) == pc[p] = "snapshot" \/ (pc[p] = "deliver" /\ l \in todo[p])

\* A frame that was received is in the pipe, or in the hands of one thread.
OnePlace ==
    /\ Distinct(pipe)
    /\ \A f \in Elements(pipe) : f.n <= received[f.chan]
    /\ \A p \in Buses : Polling(p) =>
         frame[p].n <= received[frame[p].chan] /\ frame[p] \notin Elements(pipe)
    /\ \A p, q \in Buses : Polling(p) /\ Polling(q) /\ p # q => frame[p] # frame[q]

\* What a bus object got is not in the pipe, and no thread will give it again.
GotOnce ==
    /\ \A p \in Buses : pc[p] = "deliver" => \A l \in todo[p] : ChannelOf[l] = frame[p].chan
    /\ \A l \in Buses :
         /\ Distinct(seen[l])
         /\ \A n \in Elements(seen[l]) :
              /\ n <= received[ChannelOf[l]]
              /\ FrameOf(l, n) \notin Elements(pipe)
              /\ \A p \in Buses : HoldsFor(p, l, n) => ~WillServe(p, l)

\* What was received while a bus object is open it got, or it is under way to it.
Arrives ==
    overlap = FALSE =>
        \A l \in Buses : Live(l) =>
            \A n \in since[l] + 1 .. received[ChannelOf[l]] :
                \/ n \in Elements(seen[l])
                \/ FrameOf(l, n) \in Elements(pipe)
                \/ \E p \in Buses : HoldsFor(p, l, n) /\ WillServe(p, l)

FrameInv == OnePlace /\ GotOnce /\ Arrives

LEMMA FrameForms ==
  ASSUME NEW f \in Frames, NEW l \in Buses, NEW n
  PROVE  f.chan \in Channels /\ f.n \in Nat /\ (f = FrameOf(l, n) <=> f.chan = ChannelOf[l] /\ f.n = n)
BY DEF Frames, FrameOf

\* A step that leaves the frames alone, opens a bus object only as it attaches it, and
\* lets no thread take up a frame, or put one down that somebody still waits for.
Quiet ==
    /\ UNCHANGED <<seen, frame, todo, received, pipe>>
    /\ overlap' = FALSE => overlap = FALSE
    /\ \A p \in Buses :
         \/ pc'[p] = pc[p]
         \/ /\ pc'[p] \notin {"snapshot", "deliver"} /\ pc[p] # "snapshot"
            /\ pc[p] = "deliver" => todo[p] = {}
    /\ \A l \in Buses : Live(l)' =>
         \/ Live(l) /\ since'[l] = since[l]
         \/ since'[l] = received[ChannelOf[l]]

LEMMA QuietStep == ASSUME FrameTypeOK, FrameInv, Quiet PROVE FrameInv'
<1> USE DEF FrameInv, FrameTypeOK
<1>1. UNCHANGED <<seen, frame, todo, received, pipe>> BY DEF Quiet
<1>2. \A p \in Buses : Polling(p)' => Polling(p) /\ pc'[p] = pc[p] BY DEF Quiet, Polling
<1>3. OnePlace' BY <1>1, <1>2 DEF OnePlace
<1>4. ASSUME NEW p \in Buses, NEW l \in Buses, NEW n, HoldsFor(p, l, n)'
      PROVE  HoldsFor(p, l, n) /\ (WillServe(p, l)' => WillServe(p, l))
  BY <1>1, <1>2, <1>4 DEF HoldsFor, WillServe
<1>5. GotOnce'
  <2>1. \A p \in Buses : pc'[p] = "deliver" => \A l \in todo[p] : ChannelOf[l] = frame[p].chan
    BY <1>2 DEF GotOnce, Polling
  <2>2. \A l \in Buses : \A n \in Elements(seen[l]) :
          \A p \in Buses : HoldsFor(p, l, n)' => ~WillServe(p, l)'
    BY <1>4 DEF GotOnce
  <2> QED BY <1>1, <2>1, <2>2 DEF GotOnce
<1>6. Arrives'
  <2> SUFFICES ASSUME overlap' = FALSE, NEW l \in Buses, Live(l)',
                      NEW n \in since'[l] + 1 .. received[ChannelOf[l]]
               PROVE  \/ n \in Elements(seen[l])
                      \/ FrameOf(l, n) \in Elements(pipe)
                      \/ \E p \in Buses : HoldsFor(p, l, n)' /\ WillServe(p, l)'
    BY <1>1 DEF Arrives
  <2>1. received[ChannelOf[l]] \in Nat OBVIOUS
  <2>2. CASE since'[l] = received[ChannelOf[l]]
    <3>1. received[ChannelOf[l]] + 1 .. received[ChannelOf[l]] = {} BY <2>1
    <3> QED BY <2>2, <3>1
  <2>3. CASE Live(l) /\ since'[l] = since[l]
    <3>1. \/ n \in Elements(seen[l])
          \/ FrameOf(l, n) \in Elements(pipe)
          \/ \E p \in Buses : HoldsFor(p, l, n) /\ WillServe(p, l)
      BY <2>3 DEF Arrives, Quiet
    <3>2. ASSUME NEW p \in Buses, HoldsFor(p, l, n), WillServe(p, l)
          PROVE  HoldsFor(p, l, n)' /\ WillServe(p, l)'
      <4>1. pc'[p] = pc[p] BY <3>2 DEF Quiet, WillServe
      <4> QED BY <1>1, <3>2, <4>1 DEF HoldsFor, WillServe, Polling
    <3> QED BY <3>1, <3>2
  <2> QED BY <2>2, <2>3 DEF Quiet
<1> QED BY <1>3, <1>5, <1>6

\* A frame arrives and stays in the pipe.
LEMMA ReceiveStep ==
  ASSUME FrameTypeOK, FrameInv, NEW c \in Channels, FrameFor(c),
         UNCHANGED <<overlap, pc, seen, since, frame, todo>>
  PROVE  FrameInv'
<1> USE DEF FrameInv, FrameTypeOK
<1>1. PICK f \in Frames :
         /\ f = [chan |-> c, n |-> received[c] + 1]
         /\ pipe' = Append(pipe, f)
  BY FrameForType
<1>2. /\ received' = [received EXCEPT ![c] = received[c] + 1]
      /\ received'[c] = received[c] + 1
      /\ \A d \in Channels : received[d] \in Nat /\ received'[d] \in Nat /\ received[d] <= received'[d]
      /\ \A d \in Channels : d # c => received'[d] = received[d]
  <2>1. received' = [received EXCEPT ![c] = received[c] + 1] BY FrameForType
  <2>2. received'[c] = received[c] + 1 /\ \A d \in Channels : d # c => received'[d] = received[d]
    BY <2>1
  <2>4. ASSUME NEW d \in Channels
        PROVE  received[d] \in Nat /\ received'[d] \in Nat /\ received[d] <= received'[d]
    <3>1. PICK r \in Nat : r = received[d] OBVIOUS
    <3>2. received'[d] = r \/ received'[d] = r + 1 BY <2>2, <3>1
    <3> QED BY <3>1, <3>2
  <2> QED BY <2>1, <2>2, <2>4
<1>3. f.chan = c /\ f.n = received[c] + 1 BY <1>1
<1>4. \A p \in Buses : frame[p] \in Frames /\ frame[p].chan \in Channels /\ frame[p].n \in Nat
  BY DEF Frames
<1>5. \A g \in Elements(pipe) : g \in Frames /\ g.chan \in Channels /\ g.n \in Nat
  <2>1. \A i \in DOMAIN pipe : pipe[i] \in Frames
    <3> HIDE DEF Frames
    <3> QED BY LenProperties
  <2> QED BY <2>1 DEF Elements, Frames
<1>6. f \notin Elements(pipe)
  <2>1. \A g \in Elements(pipe) : g.chan = c => g.n <= received[c] BY DEF OnePlace
  <2>2. received[c] \in Nat OBVIOUS
  <2> QED BY <1>3, <1>5, <2>1, <2>2
<1>7. Elements(pipe') = Elements(pipe) \cup {f} /\ Distinct(pipe')
  <2> HIDE DEF Frames
  <2> QED BY <1>1, <1>6, AppendElement DEF OnePlace
<1>8. OnePlace'
  <2>1. \A g \in Elements(pipe') : g.n <= received'[g.chan]
    <3>1. \A g \in Elements(pipe) : g.n <= received'[g.chan]
      <4>1. \A g \in Elements(pipe) : g.n <= received[g.chan] BY DEF OnePlace
      <4> QED BY <1>2, <1>5, <4>1
    <3>2. f.n <= received'[f.chan] BY <1>2, <1>3
    <3> QED BY <1>7, <3>1, <3>2
  <2>2. \A p \in Buses : Polling(p) => frame[p].n <= received[frame[p].chan] BY DEF OnePlace
  <2>3. \A p \in Buses : Polling(p) => frame[p].n <= received'[frame[p].chan]
    BY <1>2, <1>4, <2>2
  <2>4. \A p \in Buses : Polling(p) => frame[p] # f
    <3>1. received[c] \in Nat OBVIOUS
    <3> QED BY <1>3, <1>4, <2>2, <3>1
  <2>5. \A p \in Buses : Polling(p) => frame[p] \notin Elements(pipe')
    BY <1>7, <2>4 DEF OnePlace
  <2>6. \A p, q \in Buses : Polling(p) /\ Polling(q) /\ p # q => frame[p] # frame[q]
    BY DEF OnePlace
  <2> QED BY <1>7, <2>1, <2>3, <2>5, <2>6 DEF OnePlace, Polling
<1>9. GotOnce'
  <2>1. ASSUME NEW l \in Buses, NEW n \in Elements(seen[l])
        PROVE  /\ n <= received'[ChannelOf[l]]
               /\ FrameOf(l, n) \notin Elements(pipe')
               /\ \A p \in Buses : HoldsFor(p, l, n)' => ~WillServe(p, l)'
    <3>1. /\ n <= received[ChannelOf[l]] /\ FrameOf(l, n) \notin Elements(pipe)
          /\ \A p \in Buses : HoldsFor(p, l, n) => ~WillServe(p, l)
      BY <2>1 DEF GotOnce
    <3>2. n \in Nat
      <4>1. \A i \in DOMAIN seen[l] : seen[l][i] \in Nat BY LenProperties
      <4> QED BY <2>1, <4>1 DEF Elements
    <3>3. n <= received'[ChannelOf[l]] BY <1>2, <3>1, <3>2
    <3>4. FrameOf(l, n) # f
      <4>1. received[c] \in Nat OBVIOUS
      <4>2. FrameOf(l, n).chan = ChannelOf[l] /\ FrameOf(l, n).n = n BY DEF FrameOf
      <4> QED BY <1>3, <3>1, <3>2, <4>1, <4>2
    <3>5. \A p \in Buses : HoldsFor(p, l, n)' => ~WillServe(p, l)'
      BY <3>1 DEF HoldsFor, WillServe, Polling
    <3> QED BY <1>7, <3>1, <3>3, <3>4, <3>5
  <2> QED BY <2>1 DEF GotOnce
<1>10. Arrives'
  <2> SUFFICES ASSUME overlap = FALSE, NEW l \in Buses, Live(l),
                      NEW n \in since[l] + 1 .. received'[ChannelOf[l]]
               PROVE  \/ n \in Elements(seen[l])
                      \/ FrameOf(l, n) \in Elements(pipe')
                      \/ \E p \in Buses : HoldsFor(p, l, n)' /\ WillServe(p, l)'
    BY DEF Arrives, Live
  <2>1. ChannelOf[l] \in Channels /\ since[l] \in Nat OBVIOUS
  <2>2. CASE n \in since[l] + 1 .. received[ChannelOf[l]]
    <3>1. \/ n \in Elements(seen[l])
          \/ FrameOf(l, n) \in Elements(pipe)
          \/ \E p \in Buses : HoldsFor(p, l, n) /\ WillServe(p, l)
      BY <2>2 DEF Arrives
    <3> QED BY <1>7, <3>1 DEF HoldsFor, WillServe, Polling
  <2>3. CASE n \notin since[l] + 1 .. received[ChannelOf[l]]
    <3>1. ChannelOf[l] = c /\ n = received[c] + 1 BY <1>2, <2>1, <2>3
    <3>2. FrameOf(l, n) = f BY <1>1, <3>1 DEF FrameOf
    <3> QED BY <1>7, <3>2
  <2> QED BY <2>2, <2>3
<1> QED BY <1>8, <1>9, <1>10

\* A thread takes a frame out of the pipe.
LEMMA ReadStep ==
  ASSUME LifeInv, FrameTypeOK, FrameInv, NEW b \in Buses, PollRead(b) PROVE FrameInv'
<1> USE DEF FrameInv, FrameTypeOK
<1>1. /\ pc[b] = "open" /\ pipe # <<>>
      /\ pipe' = Tail(pipe) /\ frame' = [frame EXCEPT ![b] = Head(pipe)]
      /\ pc' = [pc EXCEPT ![b] = "snapshot"]
      /\ UNCHANGED <<overlap, seen, since, todo, received>>
  BY DEF PollRead, Goto, regVars, queueVars
<1>2. PICK h \in Frames : h = Head(pipe)
  <2> HIDE DEF Frames
  <2> QED BY <1>1, HeadTailProperties
<1>3. h \in Elements(pipe) /\ Elements(pipe') = Elements(pipe) \ {h} /\ Distinct(pipe')
  <2> HIDE DEF Frames
  <2> QED BY <1>1, <1>2, HeadElement DEF OnePlace
<1>4. /\ pc'[b] = "snapshot" /\ frame'[b] = h
      /\ \A p \in Buses : p # b => pc'[p] = pc[p] /\ frame'[p] = frame[p]
  BY <1>1, <1>2 DEF LifeInv, LifeTypeOK
<1>5. \A p \in Buses : Polling(p)' <=> p = b \/ Polling(p) BY <1>4 DEF Polling
<1>6. ~Polling(b) BY <1>1 DEF Polling
<1>7. OnePlace'
  <2>1. \A f \in Elements(pipe') : f.n <= received'[f.chan] BY <1>1, <1>3 DEF OnePlace
  <2>2. ASSUME NEW p \in Buses, Polling(p)'
        PROVE  frame'[p].n <= received[frame'[p].chan] /\ frame'[p] \notin Elements(pipe')
    <3>1. CASE p = b BY <1>3, <1>4, <3>1 DEF OnePlace
    <3>2. CASE p # b BY <1>3, <1>4, <1>5, <2>2, <3>2 DEF OnePlace
    <3> QED BY <3>1, <3>2
  <2>3. \A p \in Buses : Polling(p) => frame[p] # h BY <1>3 DEF OnePlace
  <2>4. ASSUME NEW p \in Buses, NEW q \in Buses, Polling(p)', Polling(q)', p # q
        PROVE  frame'[p] # frame'[q]
    <3>1. CASE p = b BY <1>4, <1>5, <2>3, <2>4, <3>1
    <3>2. CASE q = b BY <1>4, <1>5, <2>3, <2>4, <3>2
    <3>3. CASE p # b /\ q # b BY <1>4, <1>5, <2>4, <3>3 DEF OnePlace
    <3> QED BY <3>1, <3>2, <3>3
  <2> QED BY <1>1, <1>3, <2>1, <2>2, <2>4 DEF OnePlace
<1>8. GotOnce'
  <2>1. \A p \in Buses : pc'[p] = "deliver" => \A l \in todo[p] : ChannelOf[l] = frame'[p].chan
    BY <1>4 DEF GotOnce
  <2>2. ASSUME NEW l \in Buses, NEW n \in Elements(seen[l])
        PROVE  /\ FrameOf(l, n) \notin Elements(pipe')
               /\ \A p \in Buses : HoldsFor(p, l, n)' => ~WillServe(p, l)'
    <3>1. /\ FrameOf(l, n) \notin Elements(pipe)
          /\ \A p \in Buses : HoldsFor(p, l, n) => ~WillServe(p, l)
      BY <2>2 DEF GotOnce
    <3>2. ~HoldsFor(b, l, n)'
      <4>1. h # FrameOf(l, n) BY <1>3, <3>1
      <4>2. ~(h.chan = ChannelOf[l] /\ h.n = n) BY <1>2, <4>1, FrameForms
      <4> QED BY <1>4, <4>2 DEF HoldsFor
    <3>3. \A p \in Buses : p # b /\ HoldsFor(p, l, n)' => ~WillServe(p, l)'
      BY <1>1, <1>4, <1>5, <3>1 DEF HoldsFor, WillServe
    <3> QED BY <1>3, <3>1, <3>2, <3>3
  <2> QED BY <1>1, <2>1, <2>2 DEF GotOnce
<1>9. Arrives'
  <2> SUFFICES ASSUME overlap = FALSE, NEW l \in Buses, Live(l)',
                      NEW n \in since[l] + 1 .. received[ChannelOf[l]]
               PROVE  \/ n \in Elements(seen[l])
                      \/ FrameOf(l, n) \in Elements(pipe')
                      \/ \E p \in Buses : HoldsFor(p, l, n)' /\ WillServe(p, l)'
    BY <1>1 DEF Arrives
  <2>1. Live(l) BY <1>1, <1>4 DEF Live
  <2>2. \/ n \in Elements(seen[l])
        \/ FrameOf(l, n) \in Elements(pipe)
        \/ \E p \in Buses : HoldsFor(p, l, n) /\ WillServe(p, l)
    BY <2>1 DEF Arrives
  <2>3. CASE FrameOf(l, n) \in Elements(pipe') BY <2>3
  <2>4. CASE FrameOf(l, n) = h
    <3>1. h.chan = ChannelOf[l] /\ h.n = n BY <2>4 DEF FrameOf
    <3> QED BY <1>4, <3>1 DEF HoldsFor, WillServe, Polling
  <2>5. CASE \E p \in Buses : HoldsFor(p, l, n) /\ WillServe(p, l)
    <3>1. PICK p \in Buses : HoldsFor(p, l, n) /\ WillServe(p, l) BY <2>5
    <3>2. p # b BY <1>6, <3>1 DEF HoldsFor
    <3> QED BY <1>1, <1>4, <1>5, <3>1, <3>2 DEF HoldsFor, WillServe
  <2> QED BY <1>3, <2>2, <2>3, <2>4, <2>5
<1> QED BY <1>7, <1>8, <1>9

\* It copies the list of who gets the frame: everybody who is open then.
LEMMA SnapshotStep ==
  ASSUME LifeInv, ConfInv, FrameTypeOK, FrameInv, NEW b \in Buses, PollSnapshot(b)
  PROVE  FrameInv'
<1> USE DEF FrameInv, FrameTypeOK
<1>1. PICK s \in Buses : s = session[b] BY DEF PollSnapshot, LifeInv, LifeTypeOK, Owners
<1>2. /\ pc[b] = "snapshot" /\ pc' = [pc EXCEPT ![b] = "deliver"]
      /\ todo' = [todo EXCEPT ![b] =
                    {l \in listeners[s] \ BadBuses : ChannelOf[l] = frame[b].chan}]
      /\ UNCHANGED <<overlap, seen, since, frame, received, pipe>>
  BY <1>1 DEF PollSnapshot, Goto, regVars, queueVars, devVars
<1>3. /\ pc'[b] = "deliver"
      /\ \A p \in Buses : p # b => pc'[p] = pc[p] /\ todo'[p] = todo[p]
  BY <1>2 DEF LifeInv, LifeTypeOK
<1>4. todo'[b] = {l \in listeners[s] \ BadBuses : ChannelOf[l] = frame[b].chan} BY <1>2
<1>5. \A p \in Buses : Polling(p)' <=> Polling(p) BY <1>2, <1>3 DEF Polling
<1>6. OnePlace' BY <1>2, <1>5 DEF OnePlace
<1>7. \A p, l \in Buses : WillServe(p, l)' => WillServe(p, l)
  BY <1>2, <1>3 DEF WillServe
<1>8. GotOnce'
  <2>1. \A p \in Buses : pc'[p] = "deliver" => \A l \in todo'[p] : ChannelOf[l] = frame[p].chan
    <3>1. ASSUME NEW l \in todo'[b] PROVE ChannelOf[l] = frame[b].chan
      BY <1>4, <3>1
    <3>2. ASSUME NEW p \in Buses, p # b, pc'[p] = "deliver", NEW l \in todo'[p]
          PROVE  ChannelOf[l] = frame[p].chan
      <4>1. pc[p] = "deliver" /\ l \in todo[p] BY <1>3, <3>2
      <4> QED BY <4>1 DEF GotOnce
    <3> QED BY <3>1, <3>2
  <2>2. ASSUME NEW l \in Buses, NEW n \in Elements(seen[l]), NEW p \in Buses, HoldsFor(p, l, n)'
        PROVE  ~WillServe(p, l)'
    <3>1. HoldsFor(p, l, n) BY <1>2, <1>5, <2>2 DEF HoldsFor
    <3> QED BY <1>7, <3>1 DEF GotOnce
  <2> QED BY <1>2, <2>1, <2>2 DEF GotOnce
<1>9. Arrives'
  <2> SUFFICES ASSUME overlap = FALSE, NEW l \in Buses, Live(l)',
                      NEW n \in since[l] + 1 .. received[ChannelOf[l]]
               PROVE  \/ n \in Elements(seen[l])
                      \/ FrameOf(l, n) \in Elements(pipe)
                      \/ \E p \in Buses : HoldsFor(p, l, n)' /\ WillServe(p, l)'
    BY <1>2 DEF Arrives
  <2>1. Live(l) BY <1>2, <1>3 DEF Live
  <2>2. \/ n \in Elements(seen[l])
        \/ FrameOf(l, n) \in Elements(pipe)
        \/ \E p \in Buses : HoldsFor(p, l, n) /\ WillServe(p, l)
    BY <2>1 DEF Arrives
  <2>3. ASSUME NEW p \in Buses, HoldsFor(p, l, n), WillServe(p, l)
        PROVE  HoldsFor(p, l, n)' /\ WillServe(p, l)'
    <3>1. HoldsFor(p, l, n)' BY <1>2, <1>5, <2>3 DEF HoldsFor
    <3>2. CASE p # b BY <1>3, <2>3, <3>1, <3>2 DEF WillServe
    <3>3. CASE p = b
      <4>1. Using(b) /\ Using(l) /\ Counted(l)
        BY <1>2, <2>1 DEF Using, Counted, LivePcs, Live
      <4>2. session[l] = s BY <1>1, <4>1 DEF LifeInv, Served
      <4>3. l \in listeners[s] BY <4>1, <4>2 DEF LifeInv, ListenersExact
      <4>4. l \notin BadBuses BY <2>1 DEF ConfInv, Live
      <4>5. ChannelOf[l] = frame[b].chan BY <2>3, <3>3 DEF HoldsFor
      <4>6. l \in todo'[b] BY <1>4, <4>3, <4>4, <4>5
      <4> QED BY <1>3, <3>1, <3>3, <4>6 DEF WillServe
    <3> QED BY <3>1, <3>2, <3>3
  <2> QED BY <2>2, <2>3
<1> QED BY <1>6, <1>8, <1>9

\* It serves one of them, who takes the frame unless it is shutting down.
LEMMA DeliverStep ==
  ASSUME LifeInv, FrameTypeOK, FrameInv, NEW b \in Buses, pc[b] = "deliver",
         NEW l \in todo[b], OnMessageReceived(l, frame[b].n),
         todo' = [todo EXCEPT ![b] = @ \ {l}],
         UNCHANGED <<overlap, pc, since, frame, received, pipe>>
  PROVE  FrameInv'
<1> USE DEF FrameInv, FrameTypeOK
<1>1. PICK n \in Nat : n = frame[b].n BY DEF Frames
<1>2. l \in Buses /\ ChannelOf[l] = frame[b].chan BY DEF GotOnce
<1>3. /\ \/ pc[l] \in Stopping \cup {"shut"} /\ UNCHANGED seen
         \/ seen' = [seen EXCEPT ![l] = Append(seen[l], n)]
  BY <1>1, <1>2, DeliveryTyped
<1>4. todo'[b] = todo[b] \ {l} /\ \A p \in Buses : p # b => todo'[p] = todo[p] OBVIOUS
<1>5. HoldsFor(b, l, n) /\ WillServe(b, l)
  BY <1>1, <1>2 DEF HoldsFor, WillServe, Polling
<1>6. n \notin Elements(seen[l]) BY <1>2, <1>5 DEF GotOnce
<1>7. \A k \in Buses : k # l => seen'[k] = seen[k] BY <1>3
<1>8. /\ \/ pc[l] \in Stopping \cup {"shut"} /\ seen'[l] = seen[l]
         \/ Elements(seen'[l]) = Elements(seen[l]) \cup {n}
      /\ Distinct(seen'[l])
  <2>1. PICK q \in Seq(Nat) : q = seen[l] BY <1>2
  <2>2. Distinct(q) /\ n \notin Elements(q) BY <1>2, <1>6, <2>1 DEF GotOnce
  <2>3. CASE pc[l] \in Stopping \cup {"shut"} /\ UNCHANGED seen BY <2>1, <2>2, <2>3
  <2>4. CASE seen' = [seen EXCEPT ![l] = Append(seen[l], n)]
    <3>1. seen'[l] = Append(q, n) BY <1>2, <2>1, <2>4
    <3>2. Elements(Append(q, n)) = Elements(q) \cup {n} /\ Distinct(Append(q, n))
      BY <2>2, AppendElement
    <3> QED BY <2>1, <3>1, <3>2
  <2> QED BY <1>3, <2>3, <2>4
<1>10. OnePlace' BY DEF OnePlace, Polling
<1>11. \A k, p \in Buses : WillServe(p, k)' => WillServe(p, k) /\ ~(p = b /\ k = l)
  BY <1>4 DEF WillServe
<1>12. GotOnce'
  <2>1. \A p \in Buses : pc[p] = "deliver" => \A k \in todo'[p] : ChannelOf[k] = frame[p].chan
    <3>1. \A p \in Buses : todo'[p] \subseteq todo[p] BY <1>4
    <3> QED BY <3>1 DEF GotOnce
  <2>2. ASSUME NEW k \in Buses, NEW m \in Elements(seen'[k])
        PROVE  /\ m <= received[ChannelOf[k]]
               /\ FrameOf(k, m) \notin Elements(pipe)
               /\ \A p \in Buses : HoldsFor(p, k, m)' => ~WillServe(p, k)'
    <3>1. CASE m \in Elements(seen[k])
      <4>1. /\ m <= received[ChannelOf[k]] /\ FrameOf(k, m) \notin Elements(pipe)
            /\ \A p \in Buses : HoldsFor(p, k, m) => ~WillServe(p, k)
        BY <3>1 DEF GotOnce
      <4> QED BY <1>11, <4>1 DEF HoldsFor, Polling
    <3>2. CASE m \notin Elements(seen[k])
      <4>1. k = l /\ m = n BY <1>7, <1>8, <2>2, <3>2
      <4>2. Polling(b) BY DEF Polling
      <4>3. frame[b] \in Frames OBVIOUS
      <4>4. FrameOf(l, n) = frame[b] BY <1>1, <1>2, <4>3, FrameForms, SMTT(30)
      <4>5. n <= received[ChannelOf[l]] /\ FrameOf(l, n) \notin Elements(pipe)
        <5>1. frame[b].n <= received[frame[b].chan] /\ frame[b] \notin Elements(pipe)
          BY <4>2 DEF OnePlace
        <5> QED BY <1>1, <1>2, <4>4, <5>1
      <4>6. ASSUME NEW p \in Buses, HoldsFor(p, l, n) PROVE p = b
        <5>1. PICK g \in Frames : g = frame[p] OBVIOUS
        <5>2. frame[p] = FrameOf(l, n)
          <6>1. g.chan = ChannelOf[l] /\ g.n = n BY <4>6, <5>1 DEF HoldsFor
          <6> QED BY <5>1, <6>1 DEF Frames, FrameOf
        <5>3. Polling(p) BY <4>6 DEF HoldsFor
        <5>4. \A q, r \in Buses : Polling(q) /\ Polling(r) /\ q # r => frame[q] # frame[r]
          BY DEF OnePlace
        <5> HIDE DEF FrameInv, FrameTypeOK
        <5> QED BY <4>2, <4>4, <5>2, <5>3, <5>4
      <4>7. \A p \in Buses : HoldsFor(p, l, n)' => ~WillServe(p, l)'
        <5>1. \A p \in Buses : HoldsFor(p, l, n)' => HoldsFor(p, l, n) BY DEF HoldsFor, Polling
        <5> QED BY <1>2, <1>11, <4>6, <5>1
      <4> QED BY <4>1, <4>5, <4>7
    <3> QED BY <3>1, <3>2
  <2>3. \A k \in Buses : Distinct(seen'[k]) BY <1>7, <1>8 DEF GotOnce
  <2> QED BY <2>1, <2>2, <2>3 DEF GotOnce
<1>13. Arrives'
  <2> SUFFICES ASSUME overlap = FALSE, NEW k \in Buses, Live(k),
                      NEW m \in since[k] + 1 .. received[ChannelOf[k]]
               PROVE  \/ m \in Elements(seen'[k])
                      \/ FrameOf(k, m) \in Elements(pipe)
                      \/ \E p \in Buses : HoldsFor(p, k, m)' /\ WillServe(p, k)'
    BY DEF Arrives, Live
  <2>1. \/ m \in Elements(seen[k])
        \/ FrameOf(k, m) \in Elements(pipe)
        \/ \E p \in Buses : HoldsFor(p, k, m) /\ WillServe(p, k)
    BY DEF Arrives
  <2>2. m \in Elements(seen[k]) => m \in Elements(seen'[k]) BY <1>7, <1>8
  <2>3. ASSUME NEW p \in Buses, HoldsFor(p, k, m), WillServe(p, k)
        PROVE  m \in Elements(seen'[k]) \/ (HoldsFor(p, k, m)' /\ WillServe(p, k)')
    <3>1. CASE p = b /\ k = l
      <4>1. m = n BY <1>1, <2>3, <3>1 DEF HoldsFor
      <4>2. pc[l] \notin Stopping \cup {"shut"} BY <3>1 DEF Live, Stopping
      <4> QED BY <1>8, <3>1, <4>1, <4>2
    <3>2. CASE ~(p = b /\ k = l)
      <4>1. HoldsFor(p, k, m)' BY <2>3 DEF HoldsFor, Polling
      <4>2. k \in todo[p] => k \in todo'[p]
        <5>1. CASE p = b BY <1>4, <3>2, <5>1
        <5>2. CASE p # b BY <1>4, <5>2
        <5> QED BY <5>1, <5>2
      <4> QED BY <2>3, <4>1, <4>2 DEF WillServe
    <3> QED BY <3>1, <3>2
  <2> QED BY <2>1, <2>2, <2>3
<1> QED BY <1>10, <1>12, <1>13

\* A thread goes on, holding no frame; only an open bus object stays open.
LEMMA GoesOnQuietly ==
  ASSUME LifeInv, NEW b \in Buses, NEW x, pc' = [pc EXCEPT ![b] = x],
         pc[b] = "deliver" => todo[b] = {}, pc[b] # "snapshot",
         x \notin {"snapshot", "deliver"},
         x \in LivePcs => pc[b] \in LivePcs,
         UNCHANGED <<seen, since, frame, todo, received, pipe>>,
         overlap' = FALSE => overlap = FALSE
  PROVE  Quiet
<1>1. pc'[b] = x /\ \A p \in Buses : p # b => pc'[p] = pc[p] BY DEF LifeInv, LifeTypeOK
<1>2. \A l \in Buses : Live(l)' => Live(l) /\ since'[l] = since[l]
  <2> SUFFICES ASSUME NEW l \in Buses, pc'[l] \in LivePcs PROVE pc[l] \in LivePcs
    BY DEF Live, LivePcs
  <2>1. CASE l = b BY <1>1, <2>1
  <2>2. CASE l # b BY <1>1, <2>2
  <2> QED BY <2>1, <2>2
<1>3. \A p \in Buses :
        \/ pc'[p] = pc[p]
        \/ /\ pc'[p] \notin {"snapshot", "deliver"} /\ pc[p] # "snapshot"
           /\ pc[p] = "deliver" => todo[p] = {}
  BY <1>1
<1> QED BY <1>2, <1>3 DEF Quiet

LEMMA FrameStep ==
  ASSUME LifeInv, ConfInv, FrameTypeOK, FrameInv, [Next]_vars PROVE FrameInv'
<1> USE DEF regVars, queueVars, pollVars, devVars, busVars
<1>1. ASSUME NEW b \in Buses,
             AcquireSession(b) \/ CreateSession(b) \/ ConfigureFails(b) \/ Shutdown(b)
      PROVE  Quiet
  <2>1. PICK x \in {"acquired", "stopped"} : pc' = [pc EXCEPT ![b] = x]
    BY <1>1 DEF AcquireSession, CreateSession, ConfigureFails, Shutdown, Goto
  <2>2. pc[b] \in {"new", "configure", "open"}
        /\ UNCHANGED <<seen, since, frame, todo, received, pipe>>
    BY <1>1 DEF AcquireSession, CreateSession, ConfigureFails, Shutdown
  <2>3. NoteOverlap(Stopping) \/ NoteOverlap(Opening)
    BY <1>1 DEF AcquireSession, CreateSession, ConfigureFails, Shutdown
  <2>4. overlap' = FALSE => overlap = FALSE BY <2>3, Overlaps DEF LifeInv
  <2> QED BY <2>1, <2>2, <2>4, GoesOnQuietly DEF LivePcs
<1>2. ASSUME NEW b \in Buses,
             \/ CreateSessionLeaks(b) \/ SessionFails(b) \/ NoSuchChannel(b)
             \/ CloseChannel(b) \/ RemoveBus(b) \/ CloseSession(b) \/ ResetSession(b)
      PROVE  Quiet
  <2>1. PICK x \in {"leaked", "failed", "remove", "close", "reset", "shut"} :
          pc' = [pc EXCEPT ![b] = x]
    BY <1>2 DEF CreateSessionLeaks, SessionFails, NoSuchChannel, CloseChannel, RemoveBus,
                CloseSession, ResetSession, Goto
  <2>2. pc[b] \in {"new", "added", "stopped", "remove", "close", "reset"}
        /\ UNCHANGED <<overlap, seen, since, frame, todo, received, pipe>>
    BY <1>2 DEF CreateSessionLeaks, SessionFails, NoSuchChannel, CloseChannel, RemoveBus,
                CloseSession, ResetSession
  <2> QED BY <2>1, <2>2, GoesOnQuietly DEF LivePcs
<1>3. ASSUME NEW b \in Buses, ConfigureStep(b) PROVE Quiet
  <2>1. pc[b] = "configure" /\ UNCHANGED <<overlap, seen, since, frame, todo, received, pipe>>
    BY <1>3 DEF ConfigureStep
  <2>2. pc' = [pc EXCEPT ![b] = "open"] \/ UNCHANGED pc BY <1>3 DEF ConfigureStep, Goto
  <2>3. CASE pc' = [pc EXCEPT ![b] = "open"]
    <3>1. pc[b] \in LivePcs BY <2>1 DEF LivePcs
    <3>2. PICK x \in {"open"} : pc' = [pc EXCEPT ![b] = x] BY <2>3
    <3> QED BY <2>1, <3>1, <3>2, GoesOnQuietly
  <2>4. CASE UNCHANGED pc BY <2>1, <2>4 DEF Quiet, Live
  <2> QED BY <2>2, <2>3, <2>4
<1>4. ASSUME NEW b \in Buses, AddBus(b) PROVE Quiet
  <2>1. /\ pc[b] = "acquired" /\ pc' = [pc EXCEPT ![b] = IF b \in BadBuses THEN "added" ELSE "configure"]
        /\ since' = [since EXCEPT ![b] = received[ChannelOf[b]]]
        /\ UNCHANGED <<overlap, seen, frame, todo, received, pipe>>
    BY <1>4 DEF AddBus, Goto
  <2>2. /\ pc'[b] \in {"added", "configure"} /\ since'[b] = received[ChannelOf[b]]
        /\ \A p \in Buses : p # b => pc'[p] = pc[p] /\ since'[p] = since[p]
    BY <2>1 DEF LifeInv, LifeTypeOK, FrameTypeOK
  <2>3. \A l \in Buses : Live(l)' => (Live(l) /\ since'[l] = since[l])
                                      \/ since'[l] = received[ChannelOf[l]]
    BY <2>2 DEF Live
  <2> QED BY <2>1, <2>2, <2>3 DEF Quiet
<1>5. ASSUME NEW b \in Buses, RecvQueued(b) PROVE Quiet
  BY <1>5 DEF RecvQueued, Quiet, Live
<1>6. ASSUME UNCHANGED vars PROVE Quiet BY <1>6 DEF vars, Quiet, Live
<1>7. ASSUME NEW b \in Buses, PollDeliver(b) PROVE FrameInv'
  <2>1. pc[b] = "deliver" /\ UNCHANGED <<overlap, since, frame, received, pipe>>
    BY <1>7 DEF PollDeliver
  <2>2. CASE todo[b] = {} /\ Goto(b, "open") /\ UNCHANGED <<queue, seen, todo>>
    <3>1. PICK x \in {"open"} : pc' = [pc EXCEPT ![b] = x] BY <2>2 DEF Goto
    <3>2. pc[b] \in LivePcs BY <2>1 DEF LivePcs
    <3>3. Quiet BY <2>1, <2>2, <3>1, <3>2, GoesOnQuietly
    <3> QED BY <3>3, QuietStep
  <2>3. CASE \E l \in todo[b] : /\ OnMessageReceived(l, frame[b].n)
                                /\ todo' = [todo EXCEPT ![b] = @ \ {l}]
                                /\ UNCHANGED pc
    BY <2>1, <2>3, DeliverStep
  <2> QED BY <1>7, <2>2, <2>3 DEF PollDeliver
<1>8. ASSUME NEW b \in Buses, Send(b) PROVE FrameInv'
  <2>1. ChannelOf[b] \in Channels OBVIOUS
  <2>2. FrameFor(ChannelOf[b]) /\ UNCHANGED <<overlap, pc, seen, since, frame, todo>>
    BY <1>8 DEF Send
  <2> QED BY <2>1, <2>2, ReceiveStep
<1>9. ASSUME NEW c \in Channels, Receive(c) PROVE FrameInv'
  <2>1. FrameFor(c) /\ UNCHANGED <<overlap, pc, seen, since, frame, todo>>
    BY <1>9 DEF Receive
  <2> QED BY <2>1, ReceiveStep
<1>10. ASSUME NEW b \in Buses, Constructor(b) \/ Use(b) \/ Stop(b) PROVE FrameInv'
  BY <1>1, <1>2, <1>3, <1>4, <1>5, <1>7, <1>8, <1>10, QuietStep, ReadStep, SnapshotStep
     DEF Constructor, Use, Stop
<1> QED BY <1>6, <1>9, <1>10, QuietStep DEF Next

LEMMA FrameInit == Init => FrameInv
<1> SUFFICES ASSUME Init PROVE FrameInv
  OBVIOUS
<1> USE DEF Init
<1>1. Elements(<<>>) = {} /\ Distinct(<<>>) BY DEF Elements, Distinct
<1>2. OnePlace BY <1>1 DEF OnePlace, Polling
<1>3. GotOnce BY <1>1 DEF GotOnce
<1>4. Arrives BY DEF Arrives, Live
<1> QED BY <1>2, <1>3, <1>4 DEF FrameInv

THEOREM FrameInvariant == Spec => []FrameInv
<1>1. LifeInv /\ ConfInv /\ FrameTypeOK /\ FrameInv /\ [Next]_vars => FrameInv' BY FrameStep
<1> QED BY <1>1, FrameInit, LifeInvariant, ConfInvariant, FrameTypes, PTL DEF Spec

\* Every frame received while a bus object is open is in its queue or on its way there,
\* as long as making and shutting down do not overlap, and none is put there twice.
THEOREM NoneLostNorDoubled == Spec => []NoFrameLostOrDoubled
<1>1. LifeInv /\ FrameInv => NoFrameLostOrDoubled
  <2> SUFFICES ASSUME LifeInv, FrameInv, NEW l \in Buses, Live(l)
               PROVE  /\ ~overlap =>
                           \A n \in since[l] + 1 .. received[ChannelOf[l]] :
                              \/ n \in {seen[l][i] : i \in DOMAIN seen[l]}
                              \/ n \in OnTheWay(l)
                              \/ FrameOf(l, n) \in {pipe[i] : i \in DOMAIN pipe}
                      /\ Distinct(seen[l])
    BY DEF NoFrameLostOrDoubled, FrameOf, Distinct
  <2>1. Distinct(seen[l]) BY DEF FrameInv, GotOnce
  <2>2. ASSUME ~overlap, NEW n \in since[l] + 1 .. received[ChannelOf[l]]
        PROVE  n \in Elements(seen[l]) \/ n \in OnTheWay(l) \/ FrameOf(l, n) \in Elements(pipe)
    <3>1. overlap = FALSE BY <2>2 DEF LifeInv, LifeTypeOK
    <3>2. \/ n \in Elements(seen[l])
          \/ FrameOf(l, n) \in Elements(pipe)
          \/ \E p \in Buses : HoldsFor(p, l, n) /\ WillServe(p, l)
      BY <2>2, <3>1 DEF FrameInv, Arrives
    <3>3. ASSUME NEW p \in Buses, HoldsFor(p, l, n), WillServe(p, l) PROVE n \in OnTheWay(l)
      BY <3>3 DEF OnTheWay, HoldsFor, WillServe
    <3> QED BY <3>2, <3>3
  <2> QED BY <2>1, <2>2 DEF Elements
<1> QED BY <1>1, LifeInvariant, FrameInvariant, PTL

-----------------------------------------------------------------------------
(***************************************************************************)
(* The session implements SharedSession, until making one bus object       *)
(* overlaps with shutting another down.  A bus object is attached from     *)
(* acquire_session to remove_bus, or until it is added for a channel that  *)
(* does not exist; the interface is held by a session that somebody owns.  *)
(***************************************************************************)
Attached(b) == pc[b] \in LivePcs \cup {"acquired", "stopped", "remove"}

Users == {b \in Buses : Attached(b)}
Held  == claimed # NoBus /\ Holders(claimed) # {}

Shared == INSTANCE SharedSession WITH users <- Users, claimed <- Held

\* As long as there is no overlap, every step is a step of SharedSession or a stutter.
SharedUntilOverlap ==
    Shared!Init /\ [][overlap' = TRUE \/ Shared!Next]_<<Users, Held>>

\* A session that is attached to is the one that holds the interface.
LEMMA HeldForUsers == LifeInv /\ overlap = FALSE /\ Users # {} => Held
<1> SUFFICES ASSUME LifeInv, overlap = FALSE, Users # {} PROVE Held
  OBVIOUS
<1>1. PICK b \in Buses : Attached(b) BY DEF Users
<1>2. Using(b) /\ session[b] # NoBus
  BY <1>1 DEF Attached, Using, LivePcs, Opening, LifeInv, Owners
<1>3. session[b] = registry /\ claimed = registry BY <1>2 DEF LifeInv, Served
<1> QED BY <1>2, <1>3 DEF Held, Holders

\* Overlap is remembered.
LEMMA OverlapStays ==
  ASSUME LifeInv, Next, overlap' = FALSE
  PROVE  overlap = FALSE
<1> USE DEF regVars, LifeInv
<1>1. ASSUME NEW S, NoteOverlap(S) PROVE overlap = FALSE BY <1>1, Overlaps
<1>2. ASSUME NEW b \in Buses, Constructor(b) PROVE overlap = FALSE
  BY <1>1, <1>2 DEF Constructor, AcquireSession, CreateSession, CreateSessionLeaks, SessionFails,
     AddBus, NoSuchChannel, ConfigureStep, ConfigureFails
<1>3. ASSUME NEW b \in Buses, Use(b) \/ Stop(b) PROVE overlap = FALSE
  BY <1>1, <1>3 DEF Use, Send, RecvQueued, PollRead, PollSnapshot, PollDeliver,
     Stop, Shutdown, CloseChannel, RemoveBus, CloseSession, ResetSession
<1>4. ASSUME NEW c \in Channels, Receive(c) PROVE overlap = FALSE BY <1>4 DEF Receive
<1> QED BY <1>2, <1>3, <1>4 DEF Next

\* Who steps through the program without attaching or detaching.
LEMMA UsersStay ==
  ASSUME LifeInv, NEW b \in Buses, NEW to, pc' = [pc EXCEPT ![b] = to],
         pc[b] \in LivePcs \cup {"acquired", "stopped", "remove"}
           <=> to \in LivePcs \cup {"acquired", "stopped", "remove"}
  PROVE  Users' = Users
<1>1. \A d \in Buses : Attached(d)' <=> Attached(d) BY DEF Attached, LifeInv, LifeTypeOK
<1> QED BY <1>1 DEF Users

AttachStep(b) == b \notin Users /\ Users' = Users \cup {b} /\ Held'
DetachStep(b) == b \in Users /\ Users' = Users \ {b} /\ (Held' <=> Held)
GoesOn    == Users' = Users /\ (Held' => Held)

LEMMA SharedStep ==
  ASSUME LifeInv, LifeInv', Next, overlap' = FALSE
  PROVE  (\E b \in Buses : AttachStep(b) \/ DetachStep(b)) \/ GoesOn
<1> USE DEF Goto, regVars, busVars, sessVars
<1>1. pc \in [Buses -> Pcs] /\ session \in [Buses -> Buses \cup {NoBus}] BY DEF LifeInv, LifeTypeOK
<1>2. ASSUME UNCHANGED <<session, claimed>> PROVE Held' <=> Held BY <1>2 DEF Held, Holders
<1>3. ASSUME NEW b \in Buses, AcquireSession(b) \/ CreateSession(b) PROVE AttachStep(b)
  <2>1. pc[b] = "new" /\ pc' = [pc EXCEPT ![b] = "acquired"] BY <1>3 DEF AcquireSession, CreateSession
  <2>2. b \notin Users /\ Users' = Users \cup {b} BY <1>1, <2>1 DEF Users, Attached, LivePcs
  <2>3. (LifeInv /\ overlap = FALSE /\ Users # {})' BY <2>2
  <2>4. Held' BY <2>3, HeldForUsers, PTL
  <2> QED BY <2>2, <2>4 DEF AttachStep
<1>4. ASSUME NEW b \in Buses, CreateSessionLeaks(b) PROVE GoesOn
  <2>1. /\ pc[b] = "new" /\ pc' = [pc EXCEPT ![b] = "leaked"] /\ claimed' = b
        /\ UNCHANGED session
    BY <1>4 DEF CreateSessionLeaks
  <2>2. Holders(b)' = {} BY <2>1 DEF Holders, LifeInv, Owners
  <2>3. ~Held' BY <2>1, <2>2 DEF Held, Holders
  <2>4. Users' = Users BY <2>1, UsersStay DEF LivePcs
  <2> QED BY <2>3, <2>4 DEF GoesOn
<1>5. ASSUME NEW b \in Buses, AddBus(b) \/ RemoveBus(b) PROVE DetachStep(b) \/ GoesOn
  <2>1. UNCHANGED <<session, claimed>> BY <1>5 DEF AddBus, RemoveBus
  <2>2. PICK to : /\ pc' = [pc EXCEPT ![b] = to]
                  /\ \/ pc[b] = "acquired" /\ to \in {"added", "configure"}
                     \/ pc[b] = "remove" /\ to \in {"close", "reset"}
    BY <1>5 DEF AddBus, RemoveBus
  <2>3. CASE to = "configure"
    <3>1. Users' = Users BY <2>2, <2>3, UsersStay DEF LivePcs
    <3> QED BY <1>2, <2>1, <3>1 DEF GoesOn
  <2>4. CASE to # "configure"
    <3>1. b \in Users /\ Users' = Users \ {b} BY <1>1, <2>2, <2>4 DEF Users, Attached, LivePcs
    <3> QED BY <1>2, <2>1, <3>1 DEF DetachStep
  <2> QED BY <2>3, <2>4
<1>6. ASSUME NEW b \in Buses, NoSuchChannel(b) \/ CloseSession(b) \/ ResetSession(b) PROVE GoesOn
  <2>1. PICK to \in {"failed", "reset", "shut"} :
           /\ pc' = [pc EXCEPT ![b] = to] /\ pc[b] \in {"added", "close", "reset"}
    <3>1. CASE NoSuchChannel(b) BY <3>1 DEF NoSuchChannel
    <3>2. CASE CloseSession(b) BY <3>2 DEF CloseSession
    <3>3. CASE ResetSession(b) BY <3>3 DEF ResetSession
    <3> QED BY <1>6, <3>1, <3>2, <3>3
  <2>2. Users' = Users BY <2>1, UsersStay DEF LivePcs
  <2>3. /\ claimed' = claimed \/ claimed' = NoBus
        /\ UNCHANGED session \/ session' = [session EXCEPT ![b] = NoBus]
    BY <1>6 DEF NoSuchChannel, CloseSession, ResetSession, ReleaseSession
  <2>4. Held' => Held
    <3>1. ASSUME Held' PROVE Held
      <4>1. claimed' = claimed /\ claimed # NoBus BY <2>3, <3>1 DEF Held
      <4>2. PICK d \in Buses : session'[d] = claimed BY <3>1, <4>1 DEF Held, Holders
      <4>3. session[d] = claimed BY <1>1, <2>3, <4>1, <4>2
      <4> QED BY <4>1, <4>3 DEF Held, Holders
    <3> QED BY <3>1
  <2> QED BY <2>2, <2>4 DEF GoesOn
<1>7. ASSUME NEW b \in Buses,
             SessionFails(b) \/ ConfigureStep(b) \/ ConfigureFails(b) \/ Use(b) \/ Shutdown(b) \/ CloseChannel(b)
      PROVE  GoesOn
  <2>1. UNCHANGED <<session, claimed>>
    BY <1>7 DEF SessionFails, ConfigureStep, ConfigureFails, Use, Send, RecvQueued, PollRead,
       PollSnapshot, PollDeliver, Shutdown, CloseChannel
  <2>2. \/ UNCHANGED pc
        \/ pc[b] = "new" /\ pc' = [pc EXCEPT ![b] = "failed"]
        \/ /\ pc[b] \in LivePcs \cup {"stopped"}
           /\ \E to \in LivePcs \cup {"stopped", "remove"} : pc' = [pc EXCEPT ![b] = to]
    <3> USE DEF LivePcs
    <3>1. CASE SessionFails(b) BY <3>1 DEF SessionFails
    <3>2. CASE ConfigureStep(b) BY <3>2 DEF ConfigureStep
    <3>3. CASE ConfigureFails(b) \/ Shutdown(b) \/ CloseChannel(b)
      BY <3>3 DEF ConfigureFails, Shutdown, CloseChannel
    <3>4. CASE Use(b) BY <3>4 DEF Use, Send, RecvQueued, PollRead, PollSnapshot, PollDeliver
    <3> QED BY <1>7, <3>1, <3>2, <3>3, <3>4
  <2>3. Users' = Users
    <3>1. CASE UNCHANGED pc BY <3>1 DEF Users, Attached
    <3>2. CASE ~UNCHANGED pc BY <2>2, <3>2, UsersStay DEF LivePcs
    <3> QED BY <3>1, <3>2
  <2> QED BY <1>2, <2>1, <2>3 DEF GoesOn
<1>8. ASSUME NEW c \in Channels, Receive(c) PROVE GoesOn
  <2>1. UNCHANGED <<pc, session, claimed>> BY <1>8 DEF Receive
  <2> QED BY <1>2, <2>1 DEF GoesOn, Users, Attached
<1>9. ASSUME NEW b \in Buses, Constructor(b) \/ Use(b) \/ Stop(b)
      PROVE  AttachStep(b) \/ DetachStep(b) \/ GoesOn
  BY <1>3, <1>4, <1>5, <1>6, <1>7, <1>9 DEF Constructor, Stop
<1> QED BY <1>8, <1>9 DEF Next

\* Until making one bus object overlaps with shutting another down, the interface is
\* held as long as a bus object is attached, and is given back only when none is.
THEOREM SessionShared == Spec => SharedUntilOverlap
<1>1. Init => Shared!Init
  <2> SUFFICES ASSUME Init PROVE Shared!Init
    OBVIOUS
  <2>1. Users = {} BY DEF Init, Users, Attached, LivePcs
  <2>2. Held = FALSE BY DEF Init, Held
  <2> QED BY <2>1, <2>2 DEF Shared!Init
<1>2. LifeInv /\ LifeInv' /\ [Next]_vars => [overlap' = TRUE \/ Shared!Next]_<<Users, Held>>
  <2> SUFFICES ASSUME LifeInv, LifeInv', [Next]_vars, overlap' # TRUE
               PROVE  [Shared!Next]_<<Users, Held>>
    OBVIOUS
  <2>1. overlap' = FALSE BY DEF LifeInv, LifeTypeOK
  <2>2. CASE UNCHANGED vars
    BY <2>2 DEF vars, regVars, busVars, Users, Attached, Held, Holders
  <2>3. CASE Next
    <3>1. overlap = FALSE BY <2>1, <2>3, OverlapStays
    <3>2. (Users # {} => Held) /\ (Users' # {} => Held')
      <4>1. Users # {} => Held BY <3>1, HeldForUsers
      <4>2. LifeInv' /\ (overlap = FALSE)' BY <2>1
      <4>3. Users' # {} => Held'
        <5>1. (LifeInv /\ overlap = FALSE /\ Users # {} => Held)' BY HeldForUsers, PTL
        <5> QED BY <4>2, <5>1
      <4> QED BY <4>1, <4>3
    <3>3. ASSUME NEW b \in Buses, AttachStep(b) PROVE Shared!Next
      <4>1. Held' = TRUE BY <3>3 DEF AttachStep, Held
      <4>2. Shared!Attach(b) BY <3>3, <4>1 DEF AttachStep, Shared!Attach
      <4> QED BY <4>2 DEF Shared!Next
    <3>4. ASSUME NEW b \in Buses, DetachStep(b) PROVE Shared!Next
      <4>1. Held' = Held BY <3>4 DEF DetachStep, Held
      <4>2. Shared!Detach(b) BY <3>4, <4>1 DEF DetachStep, Shared!Detach
      <4> QED BY <4>2 DEF Shared!Next
    <3>5. ASSUME GoesOn PROVE [Shared!Next]_<<Users, Held>>
      <4>1. CASE Held' <=> Held
        <5>1. Held' = Held BY <4>1 DEF Held
        <5> QED BY <3>5, <5>1 DEF GoesOn
      <4>2. CASE Held /\ ~Held'
        <5>1. Users = {} /\ Users' = Users BY <3>2, <3>5, <4>2 DEF GoesOn
        <5>2. Held' = FALSE BY <4>2 DEF Held
        <5>3. Shared!Release BY <4>2, <5>1, <5>2 DEF Shared!Release
        <5> QED BY <5>3 DEF Shared!Next
      <4> QED BY <3>5, <4>1, <4>2 DEF GoesOn
    <3> QED BY <2>1, <2>3, <3>3, <3>4, <3>5, SharedStep
  <2> QED BY <2>2, <2>3
<1> QED BY <1>1, <1>2, LifeInvariant, PTL DEF Spec, SharedUntilOverlap
=============================================================================
