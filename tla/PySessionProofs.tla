-------------------------- MODULE PySessionProofs --------------------------
(***************************************************************************)
(* Proofs about PySession, for every set of bus objects, of channels and   *)
(* every assignment of the one to the other, of an application that shuts  *)
(* a bus object down once.                                                 *)
(***************************************************************************)
EXTENDS PySession, FiniteSetTheorems, SequenceTheorems, TLAPS

USE BusesAssumption, ChannelAssumption, OnceAssumption, FramesAssumption

-----------------------------------------------------------------------------
(***************************************************************************)
(* The registry: the inductive invariant.                                  *)
(***************************************************************************)

\* A bus object is attached from the constructor until remove_bus.
Using(b) == pc[b] \in {"configure", "open", "shutdown", "remove"}

Pcs == {"new", "configure", "open", "shutdown", "remove", "join", "shut", "failed",
        "leaked"}
ReaderPcs == {"none", "loop", "read", "snapshot", "deliver", "ended"}

\* The types of what a session's life depends on.
LifeTypeOK ==
    /\ lock \in Sessions /\ registry \in Sessions /\ claimed \in Sessions
    /\ pc \in [Buses -> Pcs]
    /\ session \in [Buses -> Sessions]
    /\ listeners \in [Buses -> SUBSET Buses]
    /\ refs \in [Buses -> Nat]
    /\ running \in [Buses -> BOOLEAN]
    /\ reader \in [Buses -> ReaderPcs]

\* A session lists and counts the bus objects that are attached to it.
ListenersExact ==
    /\ \A s \in Buses : listeners[s] = {b \in Buses : session[b] = s /\ Using(b)}
    /\ \A s \in Buses : refs[s] = Cardinality(listeners[s])

\* Who is attached is attached to the registered session, which holds the interface.
\* Without one, only a constructor that raised may still hold it.
OneSession ==
    /\ \A b \in Buses : session[b] = NoBus <=> pc[b] \in {"new", "failed", "leaked"}
    /\ \A b \in Buses : Using(b) => session[b] = registry
    /\ registry # NoBus => session[registry] = registry /\ claimed = registry
    /\ registry = NoBus /\ claimed # NoBus => pc[claimed] = "leaked"

\* The lock is held over a step only by the thread that closes the registered
\* session, which then nobody uses; else a registered session is in use.
Closing ==
    /\ \A b \in Buses : pc[b] = "join" <=> lock = b
    /\ lock # NoBus => registry = session[lock] /\ listeners[registry] = {}
    /\ lock = NoBus /\ registry # NoBus => listeners[registry] # {}

\* Only the registered session runs, until it is being closed.  A reader thread may
\* outlive its session, but not the other way round.
OneReader ==
    /\ \A s \in Buses : running[s] = TRUE <=> s = registry /\ lock = NoBus
    /\ \A s \in Buses : reader[s] # "none" => session[s] = s
    /\ \A s \in Buses : running[s] = TRUE => reader[s] \notin {"none", "ended"}

LifeInv == LifeTypeOK /\ ListenersExact /\ OneSession /\ Closing /\ OneReader

lifeVars == <<lock, registry, claimed, pc, session, listeners, refs, running, reader>>

\* A set of bus objects is finite.
LEMMA BusSets ==
  ASSUME NEW S \in SUBSET Buses
  PROVE  /\ IsFiniteSet(S) /\ Cardinality(S) \in Nat
         /\ Cardinality(S) = 0 <=> S = {}
         /\ \A b \in S : Cardinality(S \ {b}) = Cardinality(S) - 1
         /\ \A b \in Buses \ S : Cardinality(S \cup {b}) = Cardinality(S) + 1
<1>1. IsFiniteSet(S) BY FS_Subset
<1> QED BY <1>1, FS_CardinalityType, FS_EmptySet, FS_AddElement, FS_RemoveElement

LEMMA LifeInit == Init => LifeInv
<1> SUFFICES ASSUME Init PROVE LifeInv
  OBVIOUS
<1> USE DEF Init
<1>1. LifeTypeOK BY DEF LifeTypeOK, Sessions, Pcs, ReaderPcs
<1>2. ListenersExact BY BusSets DEF ListenersExact, Using
<1>3. OneSession BY DEF OneSession, Using
<1>4. Closing BY DEF Closing
<1>5. OneReader BY DEF OneReader
<1> QED BY <1>1, <1>2, <1>3, <1>4, <1>5 DEF LifeInv

\* A bus object attaches to the registered session.
LEMMA JoinStep ==
  ASSUME LifeInv, NEW b \in Buses, Join(b) PROVE LifeInv'
<1> USE DEF LifeInv, LifeTypeOK, Sessions
<1>1. /\ pc[b] = "new" /\ lock = NoBus /\ registry \in Buses
      /\ session' = [session EXCEPT ![b] = registry]
      /\ listeners' = [listeners EXCEPT ![registry] = @ \cup {b}]
      /\ refs' = [refs EXCEPT ![registry] = @ + 1]
      /\ pc' = [pc EXCEPT ![b] = "configure"]
      /\ UNCHANGED <<lock, registry, claimed, running, reader>>
  BY DEF Join, AddBus, Goto, regVars, readerVars
<1>2. LifeTypeOK'
  BY <1>1 DEF Pcs
<1>3. session[b] = NoBus /\ b \notin listeners[registry]
  BY <1>1 DEF OneSession, ListenersExact
<1>4. Cardinality(listeners[registry] \cup {b}) = Cardinality(listeners[registry]) + 1
  BY <1>1, <1>3, BusSets
<1>5. ListenersExact'
  <2>1. \A s \in Buses : listeners'[s] = {x \in Buses : session'[x] = s /\ Using(x)'}
    BY <1>1, <1>3 DEF ListenersExact, Using
  <2>2. \A s \in Buses : refs'[s] = Cardinality(listeners'[s])
    BY <1>1, <1>4 DEF ListenersExact
  <2> QED BY <2>1, <2>2 DEF ListenersExact
<1>6. OneSession' BY <1>1 DEF OneSession, Using
<1>7. Closing' BY <1>1 DEF Closing
<1>8. OneReader' BY <1>1, <1>3 DEF OneReader
<1> QED BY <1>2, <1>5, <1>6, <1>7, <1>8

\* A bus object creates the session, which nobody was attached to before.
LEMMA CreateStep ==
  ASSUME LifeInv, NEW b \in Buses, CreateSession(b) PROVE LifeInv'
<1> USE DEF LifeInv, LifeTypeOK, Sessions
<1>1. /\ pc[b] = "new" /\ lock = NoBus /\ registry = NoBus /\ claimed' = b /\ registry' = b
      /\ session' = [session EXCEPT ![b] = b]
      /\ listeners' = [listeners EXCEPT ![b] = @ \cup {b}]
      /\ refs' = [refs EXCEPT ![b] = @ + 1]
      /\ running' = [running EXCEPT ![b] = TRUE]
      /\ reader' = [reader EXCEPT ![b] = "loop"]
      /\ pc' = [pc EXCEPT ![b] = "configure"]
      /\ UNCHANGED lock
  BY DEF CreateSession, AddBus, Goto
<1>2. LifeTypeOK'
  BY <1>1 DEF Pcs, ReaderPcs
<1>3. session[b] = NoBus /\ listeners[b] = {} /\ \A x \in Buses : ~Using(x)
  <2>1. \A x \in Buses : ~Using(x) BY <1>1 DEF OneSession, Using
  <2> QED BY <1>1, <2>1 DEF OneSession, ListenersExact
<1>4. Cardinality({b}) = 1 /\ Cardinality({}) = 0 BY FS_Singleton, FS_EmptySet
<1>5. ListenersExact'
  <2>1. \A s \in Buses : listeners'[s] = {x \in Buses : session'[x] = s /\ Using(x)'}
    BY <1>1, <1>3 DEF ListenersExact, Using
  <2>2. \A s \in Buses : refs'[s] = Cardinality(listeners'[s])
    <3>0. refs[b] = Cardinality(listeners[b]) BY DEF ListenersExact
    <3>1. refs[b] = 0 /\ listeners'[b] = {b} /\ refs'[b] = 1
      BY <1>1, <1>3, <1>4, <3>0
    <3> QED BY <1>1, <1>4, <3>1 DEF ListenersExact
  <2> QED BY <2>1, <2>2 DEF ListenersExact
<1>6. OneSession' BY <1>1, <1>3 DEF OneSession, Using
<1>7. Closing' BY <1>1, <1>3 DEF Closing
<1>8. OneReader' BY <1>1 DEF OneReader
<1> QED BY <1>2, <1>5, <1>6, <1>7, <1>8

\* A thread goes on without attaching or detaching.
LEMMA GoesOnStep ==
  ASSUME LifeInv, NEW b \in Buses,
         NEW to \in Pcs, pc' = [pc EXCEPT ![b] = to],
         \/ pc[b] = "new" /\ to = "failed"
         \/ Using(b) /\ to \in {"configure", "open", "shutdown", "remove"},
         UNCHANGED <<lock, registry, claimed, session, listeners, refs, running, reader>>
  PROVE  LifeInv'
<1> USE DEF LifeInv, LifeTypeOK, Sessions
<1>1. LifeTypeOK' OBVIOUS
<1>2. \A x \in Buses : Using(x)' <=> Using(x) BY DEF Using
<1>3. ListenersExact' BY <1>2 DEF ListenersExact
<1>4. OneSession' BY <1>2 DEF OneSession, Using
<1>5. Closing' BY DEF Closing, Using
<1>6. OneReader' BY DEF OneReader
<1> QED BY <1>1, <1>3, <1>4, <1>5, <1>6

\* A constructor raises and keeps the interface, or what it kept is given back.
LEMMA LeakStep ==
  ASSUME LifeInv, NEW b \in Buses, CreateSessionLeaks(b) \/ CollectDevice(b) PROVE LifeInv'
<1> USE DEF LifeInv, LifeTypeOK, Sessions
<1>1. /\ UNCHANGED <<lock, registry, session, listeners, refs, running, reader>>
      /\ \/ pc[b] = "new" /\ registry = NoBus /\ claimed' = b
            /\ pc' = [pc EXCEPT ![b] = "leaked"]
         \/ pc[b] = "leaked" /\ claimed = b /\ claimed' = NoBus /\ UNCHANGED pc
  BY DEF CreateSessionLeaks, CollectDevice, Goto, busVars, userVars, readerVars
<1>2. LifeTypeOK' BY <1>1 DEF Pcs
<1>3. \A x \in Buses : Using(x)' <=> Using(x) BY <1>1 DEF Using
<1>4. ListenersExact' BY <1>1, <1>3 DEF ListenersExact
<1>5. OneSession'
  <2>1. CASE pc[b] = "new" /\ registry = NoBus /\ claimed' = b
             /\ pc' = [pc EXCEPT ![b] = "leaked"]
    BY <1>1, <1>3, <2>1 DEF OneSession
  <2>2. CASE pc[b] = "leaked" /\ claimed = b /\ claimed' = NoBus /\ UNCHANGED pc
    <3>1. session[b] = NoBus BY <2>2 DEF OneSession
    <3>2. registry = NoBus BY <2>2, <3>1 DEF OneSession
    <3> QED BY <1>1, <1>3, <2>2, <3>2 DEF OneSession
  <2> QED BY <1>1, <2>1, <2>2
<1>6. Closing' BY <1>1 DEF Closing
<1>7. OneReader' BY <1>1 DEF OneReader
<1> QED BY <1>2, <1>4, <1>5, <1>6, <1>7

\* A bus object detaches; the last one starts to close the session.
LEMMA RemoveStep ==
  ASSUME LifeInv, NEW b \in Buses, RemoveBus(b) PROVE LifeInv'
<1> USE DEF LifeInv, LifeTypeOK, Sessions
<1> DEFINE s == registry
<1>1. pc[b] = "remove" /\ lock = NoBus /\ session[b] = s /\ s \in Buses /\ b \in listeners[s]
  BY DEF RemoveBus, OneSession, ListenersExact, Using
<1>2. /\ listeners' = [listeners EXCEPT ![s] = @ \ {b}]
      /\ refs' = [refs EXCEPT ![s] = Dropped(@)]
      /\ UNCHANGED <<registry, claimed, session, reader>>
  BY <1>1 DEF RemoveBus, readerVars
<1>3. /\ Dropped(refs[s]) = Cardinality(listeners[s] \ {b})
      /\ Dropped(refs[s]) \in Nat
      /\ Dropped(refs[s]) = 0 <=> listeners[s] \ {b} = {}
  <2>1. listeners[s] \in SUBSET Buses /\ refs[s] = Cardinality(listeners[s])
    BY <1>1 DEF ListenersExact
  <2>2. /\ Cardinality(listeners[s]) \in Nat /\ Cardinality(listeners[s]) # 0
        /\ Cardinality(listeners[s] \ {b}) = Cardinality(listeners[s]) - 1
    BY <1>1, <2>1, BusSets
  <2>3. Cardinality(listeners[s] \ {b}) = 0 <=> listeners[s] \ {b} = {}
    BY <2>1, BusSets
  <2> QED BY <2>1, <2>2, <2>3 DEF Dropped
<1>4. \/ /\ listeners[s] \ {b} = {} /\ lock' = b
         /\ running' = [running EXCEPT ![s] = FALSE] /\ pc' = [pc EXCEPT ![b] = "join"]
      \/ /\ listeners[s] \ {b} # {} /\ UNCHANGED <<lock, running>>
         /\ pc' = [pc EXCEPT ![b] = "shut"]
  BY <1>1, <1>3 DEF RemoveBus, Goto
<1>5. LifeTypeOK'
  <2>1. running' \in [Buses -> BOOLEAN] BY <1>4
  <2>2. lock' \in Sessions /\ pc' \in [Buses -> Pcs] BY <1>4 DEF Pcs
  <2>3. listeners' \in [Buses -> SUBSET Buses] /\ refs' \in [Buses -> Nat]
    BY <1>1, <1>2, <1>3
  <2> QED BY <1>2, <2>1, <2>2, <2>3
<1>6. ListenersExact'
  <2>1. \A t \in Buses : listeners'[t] = {x \in Buses : session'[x] = t /\ Using(x)'}
    BY <1>1, <1>2, <1>4 DEF ListenersExact, Using
  <2>2. \A t \in Buses : refs'[t] = Cardinality(listeners'[t])
    BY <1>1, <1>2, <1>3 DEF ListenersExact
  <2> QED BY <2>1, <2>2 DEF ListenersExact
<1>7. OneSession' BY <1>1, <1>2, <1>4 DEF OneSession, Using
<1>8. Closing' BY <1>1, <1>2, <1>4 DEF Closing
<1>9. OneReader' BY <1>1, <1>2, <1>4 DEF OneReader
<1> QED BY <1>5, <1>6, <1>7, <1>8, <1>9

\* The session is closed: the interface is given back and the key forgotten.
LEMMA CloseStep ==
  ASSUME LifeInv, NEW b \in Buses, CloseSession(b) PROVE LifeInv'
<1> USE DEF LifeInv, LifeTypeOK, Sessions
<1>1. pc[b] = "join" /\ lock = b /\ session[b] = registry /\ registry \in Buses
      /\ listeners[registry] = {} /\ claimed = registry
  BY DEF CloseSession, Closing, OneSession
<1>2. claimed' = NoBus /\ registry' = NoBus /\ lock' = NoBus
      /\ pc' = [pc EXCEPT ![b] = "shut"]
      /\ UNCHANGED <<session, listeners, refs, running, reader>>
  BY <1>1 DEF CloseSession, Goto, userVars, readerVars
<1>3. \A x \in Buses : ~Using(x) /\ ~Using(x)'
  BY <1>1, <1>2 DEF ListenersExact, OneSession, Using
<1>4. LifeTypeOK' BY <1>2 DEF Pcs
<1>5. ListenersExact' BY <1>2, <1>3 DEF ListenersExact
<1>6. OneSession' BY <1>1, <1>2, <1>3 DEF OneSession
<1>7. Closing' BY <1>1, <1>2 DEF Closing
<1>8. OneReader' BY <1>1, <1>2 DEF OneReader
<1> QED BY <1>4, <1>5, <1>6, <1>7, <1>8

\* The reader thread ends only when its session was told to stop.
LEMMA ReaderStep ==
  ASSUME LifeInv, NEW s \in Buses, Reader(s) PROVE LifeInv'
<1> USE DEF LifeInv, LifeTypeOK
<1>1. UNCHANGED <<lock, registry, claimed, pc, session, listeners, refs, running>>
  BY DEF Reader, TestRunning, ReadFrame, ReadFails, Snapshot, Deliver, regVars, busVars, userVars
<1>2. /\ reader[s] \notin {"none", "ended"} /\ reader'[s] # "none"
      /\ reader'[s] = "ended" => running[s] # TRUE
      /\ \A t \in Buses : t # s => reader'[t] = reader[t]
      /\ reader' \in [Buses -> ReaderPcs]
  <2>1. CASE TestRunning(s)
    <3>1. PICK to \in {"read", "ended"} :
             reader' = [reader EXCEPT ![s] = to] /\ (to = "ended" => running[s] # TRUE)
      BY <2>1 DEF TestRunning, ReaderGoto
    <3> QED BY <2>1, <3>1 DEF TestRunning, ReaderPcs
  <2>2. CASE ReadFrame(s) \/ ReadFails(s) \/ Snapshot(s)
    <3>1. PICK to \in {"snapshot", "loop", "deliver"} : reader' = [reader EXCEPT ![s] = to]
      BY <2>2 DEF ReadFrame, ReadFails, Snapshot, ReaderGoto
    <3>2. reader[s] \in {"read", "snapshot"} BY <2>2 DEF ReadFrame, ReadFails, Snapshot
    <3> QED BY <3>1, <3>2 DEF ReaderPcs
  <2>3. CASE Deliver(s)
    <3>1. reader[s] = "deliver" /\ (UNCHANGED reader \/ reader' = [reader EXCEPT ![s] = "loop"])
      BY <2>3 DEF Deliver, ReaderGoto
    <3> QED BY <3>1 DEF ReaderPcs
  <2> QED BY <2>1, <2>2, <2>3 DEF Reader
<1>3. LifeTypeOK' BY <1>1, <1>2
<1>4. ListenersExact' /\ OneSession' /\ Closing'
  BY <1>1 DEF ListenersExact, OneSession, Closing, Using
<1>5. OneReader' BY <1>1, <1>2 DEF OneReader
<1> QED BY <1>3, <1>4, <1>5

LEMMA LifeStep ==
  ASSUME ShutdownOnce, LifeInv, [Next]_vars PROVE LifeInv'
<1>1. ASSUME UNCHANGED lifeVars PROVE LifeInv'
  BY <1>1 DEF lifeVars, LifeInv, LifeTypeOK, ListenersExact, OneSession, Closing, OneReader,
              Using
<1>2. ASSUME NEW b \in Buses, Thread(b) \/ Application(b) PROVE LifeInv'
  <2> USE DEF regVars, busVars, userVars, readerVars, lifeVars, Goto
  <2>0. pc[b] \in Pcs /\ pc \in [Buses -> Pcs] BY DEF LifeInv, LifeTypeOK
  <2>1. CASE SessionFails(b)
    <3>1. "failed" \in Pcs BY DEF Pcs
    <3> QED BY <2>1, <3>1, GoesOnStep DEF SessionFails
  <2>2. CASE ConfigureStep(b)
    <3>1. "open" \in Pcs BY DEF Pcs
    <3>2. Using(b) BY <2>2 DEF ConfigureStep, Using
    <3>3. CASE UNCHANGED pc BY <2>2, <3>3, <1>1 DEF ConfigureStep
    <3>4. CASE pc' = [pc EXCEPT ![b] = "open"]
      BY <2>2, <3>1, <3>2, <3>4, GoesOnStep DEF ConfigureStep
    <3> QED BY <2>2, <3>3, <3>4 DEF ConfigureStep
  <2>3. CASE ConfigureFails(b) \/ Shutdown(b)
    <3>1. "shutdown" \in Pcs BY DEF Pcs
    <3>2. Using(b) BY <2>3 DEF ConfigureFails, Shutdown, Using
    <3> QED BY <2>3, <3>1, <3>2, GoesOnStep DEF ConfigureFails, Shutdown
  <2>4. CASE CloseChannel(b)
    <3>1. "remove" \in Pcs BY DEF Pcs
    <3>2. Using(b) BY <2>4 DEF CloseChannel, Using
    <3> QED BY <2>4, <3>1, <3>2, GoesOnStep DEF CloseChannel
  <2>5. CASE Send(b) \/ Recv(b) BY <2>5, <1>1 DEF Send, Recv
  <2> QED BY <1>2, <2>1, <2>2, <2>3, <2>4, <2>5, JoinStep, CreateStep, LeakStep, RemoveStep,
             CloseStep
          DEF Thread, Application
<1>3. ASSUME NEW c \in Channels, Receive(c) PROVE LifeInv'
  BY <1>1, <1>3 DEF Receive, regVars, busVars, userVars, readerVars, lifeVars
<1>4. CASE UNCHANGED vars
  BY <1>1, <1>4 DEF vars, regVars, busVars, userVars, readerVars, lifeVars
<1> QED BY <1>2, <1>3, <1>4, ReaderStep, LeakStep DEF Next

THEOREM LifeInvariant == ASSUME ShutdownOnce PROVE Spec => []LifeInv
<1>1. LifeInv /\ [Next]_vars => LifeInv' BY LifeStep
<1> QED BY <1>1, LifeInit, PTL DEF Spec

\* A bus object that was not shut down has a session that holds the interface and
\* whose reader thread runs, whatever other bus objects are opened, fail to open or
\* are shut down meanwhile.
THEOREM LiveBusesServed == ASSUME ShutdownOnce PROVE Spec => []LiveBusIsServed
<1>1. LifeInv => LiveBusIsServed
  <2> SUFFICES ASSUME LifeInv, NEW b \in Buses, pc[b] \in {"configure", "open"}
               PROVE  /\ Attached(b)
                      /\ claimed = session[b]
                      /\ running[session[b]] /\ reader[session[b]] \notin {"none", "ended"}
    BY DEF LiveBusIsServed
  <2> USE DEF LifeInv, LifeTypeOK, Sessions
  <2>1. session[b] = registry /\ claimed = registry /\ registry \in Buses
    BY DEF OneSession, Using
  <2>2. b \in listeners[registry] BY <2>1 DEF ListenersExact, Using
  <2>3. lock = NoBus BY <2>2 DEF Closing
  <2>4. running[registry] = TRUE /\ reader[registry] \notin {"none", "ended"}
    BY <2>1, <2>3 DEF OneReader
  <2>5. running[registry] BY <2>4
  <2> QED BY <2>1, <2>2, <2>4, <2>5 DEF Attached
<1> QED BY <1>1, LifeInvariant, PTL

\* Under _SESSIONS_LOCK the registry tells who holds the interface, and that
\* session is in use, but for what a constructor that raised still keeps.
THEOREM RegistryIsRight == ASSUME ShutdownOnce PROVE Spec => []RegistryMatchesClaim
<1>1. LifeInv => RegistryMatchesClaim
  BY DEF LifeInv, LifeTypeOK, RegistryMatchesClaim, OneSession, Closing
<1> QED BY <1>1, LifeInvariant, PTL

-----------------------------------------------------------------------------
(***************************************************************************)
(* The session implements SharedSession.                                   *)
(***************************************************************************)
Users == {b \in Buses : Attached(b)}
Held  == claimed # NoBus /\ pc[claimed] # "leaked"

\* The attached bus objects are those between the constructor and remove_bus; when
\* there is one, its session holds the interface.
UsersExact == Users = {b \in Buses : Using(b)} /\ (Users # {} => Held)

LEMMA UsersAreUsing == LifeInv => UsersExact
<1> SUFFICES ASSUME LifeInv PROVE UsersExact
  OBVIOUS
<1> USE DEF LifeInv, LifeTypeOK, Sessions, OneSession, ListenersExact
<1>1. \A b \in Buses : Attached(b) <=> Using(b)
  BY DEF Attached, Using
<1>2. ASSUME NEW b \in Buses, Using(b) PROVE Held
  <2>1. registry # NoBus /\ session[b] = registry BY <1>2 DEF Using
  <2>2. claimed = registry /\ pc[registry] # "leaked" BY <2>1
  <2> QED BY <2>1, <2>2 DEF Held
<1> QED BY <1>1, <1>2 DEF Users, UsersExact

\* One step of the sharing: somebody attaches, detaches, or, when nobody is
\* attached, the interface is given back.
AttachStep(b) == b \notin Users /\ Users' = Users \cup {b} /\ Held'
DetachStep(b) == b \in Users /\ Users' = Users \ {b} /\ UNCHANGED Held
ReleaseStep   == Held /\ Users = {} /\ Users' = {} /\ ~Held'

LEMMA SharedStep ==
  ASSUME ShutdownOnce, LifeInv, LifeInv', [Next]_vars
  PROVE  \/ \E b \in Buses : AttachStep(b) \/ DetachStep(b)
         \/ ReleaseStep
         \/ UNCHANGED <<Users, Held>>
<1>0. /\ Users = {b \in Buses : Using(b)} /\ Users' = {b \in Buses : Using(b)'}
      /\ (Users # {} => Held) /\ (Users' # {} => Held')
  <2>1. LifeInv' => UsersExact' BY UsersAreUsing, PTL
  <2> QED BY <2>1, UsersAreUsing DEF UsersExact
<1>1. pc \in [Buses -> Pcs] /\ claimed \in Buses \cup {NoBus}
  BY DEF LifeInv, LifeTypeOK, Sessions
<1>2. ASSUME NEW b \in Buses, Join(b) \/ CreateSession(b) PROVE AttachStep(b)
  <2>1. pc[b] = "new" /\ pc' = [pc EXCEPT ![b] = "configure"]
    BY <1>2 DEF Join, CreateSession, Goto
  <2>2. b \notin Users /\ Users' = Users \cup {b} BY <1>0, <1>1, <2>1 DEF Using
  <2> QED BY <1>0, <2>2 DEF AttachStep
<1>3. ASSUME NEW b \in Buses, RemoveBus(b) PROVE DetachStep(b)
  <2>1. pc[b] = "remove" /\ UNCHANGED claimed
        /\ \E to \in {"join", "shut"} : pc' = [pc EXCEPT ![b] = to]
    BY <1>3 DEF RemoveBus, Goto
  <2>2. b \in Users /\ Users' = Users \ {b} BY <1>0, <1>1, <2>1 DEF Using
  <2>3. UNCHANGED Held BY <1>1, <2>1 DEF Held
  <2> QED BY <2>2, <2>3 DEF DetachStep
<1>4. ASSUME NEW b \in Buses, CloseSession(b) PROVE ReleaseStep
  <2>1. lock = b /\ session[b] = registry /\ claimed = registry /\ listeners[registry] = {}
        /\ registry # NoBus
    BY <1>4 DEF CloseSession, LifeInv, LifeTypeOK, OneSession, Closing
  <2>2. claimed' = NoBus BY <1>4, <2>1 DEF CloseSession
  <2>5. Held
    <3>1. session[registry] = registry /\ registry \in Buses
      BY <2>1 DEF LifeInv, LifeTypeOK, Sessions, OneSession
    <3> QED BY <2>1, <3>1 DEF Held, LifeInv, OneSession
  <2>3. Users = {}
    BY <1>0, <2>1 DEF LifeInv, LifeTypeOK, Sessions, OneSession, ListenersExact
  <2>4. Users' = {} /\ ~Held' BY <1>0, <2>2 DEF Held
  <2> QED BY <2>3, <2>4, <2>5 DEF ReleaseStep
<1>5. ASSUME NEW b \in Buses,
             \/ SessionFails(b) \/ ConfigureStep(b) \/ ConfigureFails(b) \/ CloseChannel(b)
             \/ Application(b)
      PROVE  UNCHANGED <<Users, Held>>
  <2>1. /\ UNCHANGED claimed
        /\ \/ UNCHANGED pc
           \/ pc[b] = "new" /\ pc' = [pc EXCEPT ![b] = "failed"]
           \/ /\ pc[b] \in {"configure", "open", "shutdown"}
              /\ \E to \in {"open", "shutdown", "remove"} : pc' = [pc EXCEPT ![b] = to]
    <3>1. CASE SessionFails(b) BY <3>1 DEF SessionFails, Goto, regVars
    <3>2. CASE ConfigureStep(b) BY <3>2 DEF ConfigureStep, Goto, regVars
    <3>3. CASE ConfigureFails(b) \/ CloseChannel(b)
      BY <3>3 DEF ConfigureFails, CloseChannel, Goto, regVars
    <3>4. CASE Application(b)
      BY <3>4 DEF Application, Send, Recv, Shutdown, Goto, regVars, busVars
    <3> QED BY <1>5, <3>1, <3>2, <3>3, <3>4
  <2>2. \A x \in Buses : Using(x)' <=> Using(x) BY <1>1, <2>1 DEF Using
  <2>3. UNCHANGED Held BY <1>1, <2>1 DEF Held
  <2> QED BY <1>0, <2>2, <2>3
<1>11. ASSUME NEW b \in Buses, CreateSessionLeaks(b) \/ CollectDevice(b)
       PROVE  UNCHANGED <<Users, Held>>
  <2>1. \/ pc[b] = "new" /\ claimed = NoBus /\ claimed' = b /\ pc' = [pc EXCEPT ![b] = "leaked"]
        \/ pc[b] = "leaked" /\ claimed = b /\ claimed' = NoBus /\ UNCHANGED pc
    BY <1>11 DEF CreateSessionLeaks, CollectDevice, Goto, busVars
  <2>2. \A x \in Buses : Using(x)' <=> Using(x) BY <1>1, <2>1 DEF Using
  <2>3. Held = FALSE /\ Held' = FALSE BY <1>1, <2>1 DEF Held
  <2> QED BY <1>0, <2>2, <2>3
<1>6. ASSUME UNCHANGED <<pc, claimed>> PROVE UNCHANGED <<Users, Held>>
  BY <1>0, <1>6 DEF Using, Held
<1>7. ASSUME NEW s \in Buses, Reader(s) PROVE UNCHANGED <<pc, claimed>>
  BY <1>7 DEF Reader, TestRunning, ReadFrame, ReadFails, Snapshot, Deliver, regVars, busVars
<1>8. ASSUME NEW c \in Channels, Receive(c) PROVE UNCHANGED <<pc, claimed>>
  BY <1>8 DEF Receive, regVars, busVars
<1>9. UNCHANGED vars => UNCHANGED <<pc, claimed>> BY DEF vars, regVars, busVars
<1>10. ASSUME NEW b \in Buses, Thread(b)
       PROVE  AttachStep(b) \/ DetachStep(b) \/ ReleaseStep \/ UNCHANGED <<Users, Held>>
  BY <1>2, <1>3, <1>4, <1>5, <1>10, <1>11 DEF Thread
<1> QED BY <1>5, <1>6, <1>7, <1>8, <1>9, <1>10, <1>11 DEF Next

\* The interface is claimed as long as a bus object is attached, and given back only
\* when none is.
THEOREM SessionShared == ASSUME ShutdownOnce PROVE Spec => ImplementsSharedSession
<1>1. Init => Shared!Init
  <2> SUFFICES ASSUME Init PROVE Shared!Init
    OBVIOUS
  <2>1. Users = {} BY DEF Init, Attached, Users
  <2>2. Held = FALSE BY DEF Init, Held
  <2> QED BY <2>1, <2>2 DEF Shared!Init, Users, Held
<1>2. LifeInv /\ LifeInv' /\ [Next]_vars => [Shared!Next]_<<Users, Held>>
  <2> SUFFICES ASSUME LifeInv, LifeInv', [Next]_vars PROVE [Shared!Next]_<<Users, Held>>
    OBVIOUS
  <2>1. ASSUME NEW b \in Buses, AttachStep(b) PROVE Shared!Next
    <3>1. Shared!Attach(b) BY <2>1 DEF AttachStep, Shared!Attach, Users, Held
    <3> QED BY <3>1 DEF Shared!Next
  <2>2. ASSUME NEW b \in Buses, DetachStep(b) PROVE Shared!Next
    <3>1. Shared!Detach(b) BY <2>2 DEF DetachStep, Shared!Detach, Users, Held
    <3> QED BY <3>1 DEF Shared!Next
  <2>3. ASSUME ReleaseStep PROVE Shared!Next
    <3>1. Shared!Release BY <2>3 DEF ReleaseStep, Shared!Release, Users, Held
    <3> QED BY <3>1 DEF Shared!Next
  <2> QED BY <2>1, <2>2, <2>3, SharedStep
<1> QED BY <1>1, <1>2, LifeInvariant, PTL
        DEF Spec, ImplementsSharedSession, Shared!Spec, Users, Held
-----------------------------------------------------------------------------
(***************************************************************************)
(* configure_channel: bus objects that do not share a channel.  This holds *)
(* also of an application that shuts down twice.                           *)
(***************************************************************************)
Requests == {"RESET", "BITTIMING", "DATA_BITTIMING", "SET_TERMINATION", "START"}

\* The elements of a concatenation.
LEMMA Concatenation ==
  ASSUME NEW S, NEW s \in Seq(S), NEW t \in Seq(S)
  PROVE  /\ s \o t \in Seq(S) /\ Len(s \o t) = Len(s) + Len(t)
         /\ \A i \in 1 .. Len(s) + Len(t) :
               (s \o t)[i] = IF i <= Len(s) THEN s[i] ELSE t[i - Len(s)]
BY ConcatProperties

LEMMA TransferList ==
  ASSUME NEW b \in Buses
  PROVE  /\ Len(Transfers(b)) = IF b \in FdBuses THEN 5 ELSE 4
         /\ LET t == Transfers(b) IN
            /\ t[1] = "RESET" /\ t[2] = "BITTIMING"
            /\ IF b \in FdBuses
                 THEN t[3] = "DATA_BITTIMING" /\ t[4] = "SET_TERMINATION" /\ t[5] = "START"
                 ELSE t[3] = "SET_TERMINATION" /\ t[4] = "START"
<1> DEFINE p == <<"RESET", "BITTIMING">>
           d == IF b \in FdBuses THEN <<"DATA_BITTIMING">> ELSE <<>>
           q == <<"SET_TERMINATION", "START">>
<1>1. /\ p \in Seq(Requests) /\ Len(p) = 2 /\ p[1] = "RESET" /\ p[2] = "BITTIMING"
      /\ q \in Seq(Requests) /\ Len(q) = 2 /\ q[1] = "SET_TERMINATION" /\ q[2] = "START"
  BY DEF Requests
<1>2. /\ d \in Seq(Requests)
      /\ IF b \in FdBuses THEN Len(d) = 1 /\ d[1] = "DATA_BITTIMING" ELSE Len(d) = 0
  <2>1. CASE b \in FdBuses
    <3>1. d = <<"DATA_BITTIMING">> BY <2>1
    <3> HIDE DEF d
    <3> QED BY <2>1, <3>1 DEF Requests
  <2>2. CASE b \notin FdBuses
    <3>1. d = <<>> BY <2>2
    <3> HIDE DEF d
    <3> QED BY <2>2, <3>1
  <2> QED BY <2>1, <2>2
<1> HIDE DEF p, d, q
<1>0. p \in Seq(Requests) /\ q \in Seq(Requests) /\ d \in Seq(Requests) BY <1>1, <1>2
<1> DEFINE u == p \o d
           v == u \o q
<1>3. u \in Seq(Requests) /\ Len(u) = Len(p) + Len(d) BY <1>0, Concatenation
<1>4. \A i \in 1 .. Len(p) + Len(d) : u[i] = IF i <= Len(p) THEN p[i] ELSE d[i - Len(p)]
  BY <1>0, Concatenation
<1> HIDE DEF u
<1>5. Len(v) = Len(u) + Len(q) BY <1>0, <1>3, Concatenation
<1>6. \A i \in 1 .. Len(u) + Len(q) : v[i] = IF i <= Len(u) THEN u[i] ELSE q[i - Len(u)]
  BY <1>0, <1>3, Concatenation
<1> HIDE DEF v
<1>7. Transfers(b) = v BY DEF Transfers, p, d, q, u, v
<1>8. CASE b \in FdBuses
  <2>1. Len(d) = 1 /\ d[1] = "DATA_BITTIMING" BY <1>2, <1>8
  <2>2. Len(u) = 3 /\ u[1] = "RESET" /\ u[2] = "BITTIMING" /\ u[3] = "DATA_BITTIMING"
    BY <1>1, <1>3, <1>4, <2>1
  <2>3. Len(v) = 5 /\ v[1] = u[1] /\ v[2] = u[2] /\ v[3] = u[3] /\ v[4] = q[1] /\ v[5] = q[2]
    BY <1>1, <1>5, <1>6, <2>2
  <2> QED BY <1>1, <1>7, <1>8, <2>2, <2>3
<1>9. CASE b \notin FdBuses
  <2>1. Len(d) = 0 BY <1>2, <1>9
  <2>2. Len(u) = 2 /\ u[1] = "RESET" /\ u[2] = "BITTIMING"
    BY <1>1, <1>3, <1>4, <2>1
  <2>3. Len(v) = 4 /\ v[1] = u[1] /\ v[2] = u[2] /\ v[3] = q[1] /\ v[4] = q[2]
    BY <1>1, <1>5, <1>6, <2>2
  <2> QED BY <1>1, <1>7, <1>9, <2>2, <2>3
<1> QED BY <1>8, <1>9

Settings == [on : BOOLEAN, nominal : Sessions, data : Sessions, term : Sessions]

\* What a bus object has configured by its first t - 1 transfers.
ConfiguredTo(b, t) ==
    LET c == channel[ChannelOf[b]] IN
    /\ t > 2 => c.nominal = b
    /\ b \in FdBuses /\ t > 3 => c.data = b
    /\ t > (IF b \in FdBuses THEN 4 ELSE 3) => c.term = b

ConfInv ==
    /\ pc \in [Buses -> Pcs]
    /\ transfer \in [Buses -> Nat]
    /\ \A b \in Buses : transfer[b] \in 1 .. Len(Transfers(b))
    /\ \A b \in Buses : pc[b] = "new" => transfer[b] = 1
    /\ channel \in [Channels -> Settings]

\* The settings of the channel of a bus object that nobody shares it with.
Configured ==
    \A b \in Buses : /\ pc[b] = "configure" => ConfiguredTo(b, transfer[b])
                     /\ pc[b] = "open" => ConfiguredTo(b, 6) /\ channel[ChannelOf[b]].on = TRUE

LEMMA RequestTyped ==
  ASSUME NEW b \in Buses, NEW r \in Requests, channel \in [Channels -> Settings], Request(b, r)
  PROVE  /\ channel' \in [Channels -> Settings]
         /\ \A c \in Channels \ {ChannelOf[b]} : channel'[c] = channel[c]
         /\ LET d == channel[ChannelOf[b]]
                e == channel'[ChannelOf[b]]
            IN  /\ e.on = IF r = "RESET" THEN FALSE ELSE IF r = "START" THEN TRUE ELSE d.on
                /\ e.nominal = IF r = "BITTIMING" THEN b ELSE d.nominal
                /\ e.data = IF r = "DATA_BITTIMING" THEN b ELSE d.data
                /\ e.term = IF r = "SET_TERMINATION" THEN b ELSE d.term
<1>1. ChannelOf[b] \in Channels /\ b \in Sessions BY DEF Sessions
<1>2. CASE r = "RESET" BY <1>1, <1>2 DEF Request, Settings
<1>3. CASE r = "BITTIMING" BY <1>1, <1>3 DEF Request, Settings
<1>4. CASE r = "DATA_BITTIMING" BY <1>1, <1>4 DEF Request, Settings
<1>5. CASE r = "SET_TERMINATION" BY <1>1, <1>5 DEF Request, Settings
<1>6. CASE r = "START" BY <1>1, <1>6 DEF Request, Settings
<1> QED BY <1>2, <1>3, <1>4, <1>5, <1>6 DEF Requests

\* The transfer that comes next, and the settings after it.
LEMMA NextTransfer ==
  ASSUME NEW b \in Buses, NEW t \in 1 .. Len(Transfers(b)), channel \in [Channels -> Settings],
         Request(b, Transfers(b)[t])
  PROVE  /\ channel' \in [Channels -> Settings]
         /\ \A c \in Channels \ {ChannelOf[b]} : channel'[c] = channel[c]
         /\ ConfiguredTo(b, t) => ConfiguredTo(b, t + 1)'
         /\ t = Len(Transfers(b)) => channel'[ChannelOf[b]].on = TRUE
<1>1. PICK r \in Requests :
         /\ r = Transfers(b)[t]
         /\ IF b \in FdBuses
              THEN \/ t = 1 /\ r = "RESET"
                   \/ t = 2 /\ r = "BITTIMING"
                   \/ t = 3 /\ r = "DATA_BITTIMING"
                   \/ t = 4 /\ r = "SET_TERMINATION"
                   \/ t = 5 /\ r = "START"
              ELSE \/ t = 1 /\ r = "RESET"
                   \/ t = 2 /\ r = "BITTIMING"
                   \/ t = 3 /\ r = "SET_TERMINATION"
                   \/ t = 4 /\ r = "START"
  <2>1. CASE b \in FdBuses
    <3>1. t \in 1 .. 5 BY <2>1, TransferList
    <3>2. /\ Transfers(b)[1] = "RESET" /\ Transfers(b)[2] = "BITTIMING"
          /\ Transfers(b)[3] = "DATA_BITTIMING" /\ Transfers(b)[4] = "SET_TERMINATION"
          /\ Transfers(b)[5] = "START"
      BY <2>1, TransferList
    <3>3. t = 1 \/ t = 2 \/ t = 3 \/ t = 4 \/ t = 5 BY <3>1
    <3> QED BY <2>1, <3>2, <3>3 DEF Requests
  <2>2. CASE b \notin FdBuses
    <3>1. t \in 1 .. 4 BY <2>2, TransferList
    <3>2. /\ Transfers(b)[1] = "RESET" /\ Transfers(b)[2] = "BITTIMING"
          /\ Transfers(b)[3] = "SET_TERMINATION" /\ Transfers(b)[4] = "START"
      BY <2>2, TransferList
    <3>3. t = 1 \/ t = 2 \/ t = 3 \/ t = 4 BY <3>1
    <3> QED BY <2>2, <3>2, <3>3 DEF Requests
  <2> QED BY <2>1, <2>2
<1>2. Request(b, r) BY <1>1
<1>3. /\ channel' \in [Channels -> Settings]
      /\ \A c \in Channels \ {ChannelOf[b]} : channel'[c] = channel[c]
      /\ channel'[ChannelOf[b]].on
           = IF r = "RESET" THEN FALSE ELSE IF r = "START" THEN TRUE ELSE channel[ChannelOf[b]].on
      /\ channel'[ChannelOf[b]].nominal
           = IF r = "BITTIMING" THEN b ELSE channel[ChannelOf[b]].nominal
      /\ channel'[ChannelOf[b]].data
           = IF r = "DATA_BITTIMING" THEN b ELSE channel[ChannelOf[b]].data
      /\ channel'[ChannelOf[b]].term
           = IF r = "SET_TERMINATION" THEN b ELSE channel[ChannelOf[b]].term
  BY <1>2, RequestTyped
<1>4. ConfiguredTo(b, t) => ConfiguredTo(b, t + 1)'
  BY <1>1, <1>3 DEF ConfiguredTo
<1>5. t = Len(Transfers(b)) => r = "START"
  BY <1>1, TransferList
<1> QED BY <1>3, <1>4, <1>5

confVars == <<pc, transfer, channel>>

LEMMA ConfStep ==
  ASSUME ConfInv, [Next]_vars
  PROVE  /\ ConfInv'
         /\ (\A b, d \in Buses : ChannelOf[b] = ChannelOf[d] => b = d) /\ Configured
              => Configured'
<1> DEFINE Own == \A b, d \in Buses : ChannelOf[b] = ChannelOf[d] => b = d
           Goal == ConfInv' /\ (Own /\ Configured => Configured')
<1>1. ASSUME UNCHANGED confVars PROVE Goal
  BY <1>1 DEF confVars, ConfInv, Configured, ConfiguredTo
<1>2. ASSUME NEW b \in Buses, Join(b) \/ CreateSession(b) PROVE Goal
  <2>1. pc[b] = "new" /\ pc' = [pc EXCEPT ![b] = "configure"] /\ UNCHANGED <<transfer, channel>>
    BY <1>2 DEF Join, CreateSession, Goto, devVars
  <2>2. ConfInv' BY <2>1 DEF ConfInv, Pcs
  <2>3. ConfiguredTo(b, transfer[b])' BY <2>1 DEF ConfInv, ConfiguredTo
  <2>4. Configured => Configured' BY <2>1, <2>3 DEF Configured, ConfInv, ConfiguredTo
  <2> QED BY <2>2, <2>4
<1>3. ASSUME NEW b \in Buses, ConfigureStep(b) PROVE Goal
  <2>1. /\ pc[b] = "configure" /\ Request(b, Transfers(b)[transfer[b]])
        /\ transfer[b] \in 1 .. Len(Transfers(b)) /\ channel \in [Channels -> Settings]
        /\ Len(Transfers(b)) = IF b \in FdBuses THEN 5 ELSE 4
        /\ ChannelOf[b] \in Channels
    BY <1>3, TransferList DEF ConfigureStep, ConfInv
  <2>2. PICK t \in 1 .. Len(Transfers(b)) : t = transfer[b] BY <2>1
  <2>3. /\ channel' \in [Channels -> Settings]
        /\ \A c \in Channels \ {ChannelOf[b]} : channel'[c] = channel[c]
        /\ ConfiguredTo(b, t) => ConfiguredTo(b, t + 1)'
        /\ t = Len(Transfers(b)) => channel'[ChannelOf[b]].on = TRUE
    BY <2>1, <2>2, NextTransfer
  <2>4. ASSUME NEW x \in Buses, x # b, Own
        PROVE  channel'[ChannelOf[x]] = channel[ChannelOf[x]]
    BY <2>3, <2>4
  <2>5. CASE t = Len(Transfers(b))
    <3>1. pc' = [pc EXCEPT ![b] = "open"] /\ UNCHANGED transfer
      BY <1>3, <2>2, <2>5 DEF ConfigureStep, Goto
    <3>2. ConfInv' BY <2>1, <2>3, <3>1 DEF ConfInv, Pcs
    <3>3. ASSUME Own, Configured PROVE Configured'
      <4>1. ConfiguredTo(b, t) BY <2>1, <2>2, <3>3 DEF Configured
      <4>2. ConfiguredTo(b, t + 1)' /\ channel'[ChannelOf[b]].on = TRUE
        BY <2>3, <2>5, <4>1
      <4>3. ConfiguredTo(b, 6)' BY <2>1, <2>5, <4>2 DEF ConfiguredTo
      <4>4. ASSUME NEW x \in Buses, x # b
            PROVE  /\ pc'[x] = "configure" => ConfiguredTo(x, transfer[x])'
                   /\ pc'[x] = "open" => ConfiguredTo(x, 6)' /\ channel'[ChannelOf[x]].on = TRUE
        BY <3>1, <3>3, <4>4, <2>4 DEF Configured, ConfiguredTo, ConfInv
      <4> QED BY <3>1, <4>2, <4>3, <4>4 DEF Configured, ConfInv
    <3> QED BY <3>2, <3>3
  <2>6. CASE t # Len(Transfers(b))
    <3>1. transfer' = [transfer EXCEPT ![b] = t + 1] /\ UNCHANGED pc
      BY <1>3, <2>2, <2>6 DEF ConfigureStep
    <3>2. t + 1 \in 1 .. Len(Transfers(b)) /\ t + 1 \in Nat BY <2>1, <2>6
    <3>4. \A x \in Buses : transfer'[x] \in 1 .. Len(Transfers(x))
      BY <3>1, <3>2 DEF ConfInv
    <3>5. ConfInv' BY <2>1, <2>3, <3>1, <3>2, <3>4 DEF ConfInv
    <3>3. ASSUME Own, Configured PROVE Configured'
      <4>1. ConfiguredTo(b, t) BY <2>1, <2>2, <3>3 DEF Configured
      <4>2. ConfiguredTo(b, t + 1)' BY <2>3, <4>1
      <4>3. transfer'[b] = t + 1 BY <3>1 DEF ConfInv
      <4>4. ConfiguredTo(b, transfer[b])' BY <4>2, <4>3 DEF ConfiguredTo
      <4>5. ASSUME NEW x \in Buses, x # b
            PROVE  /\ pc'[x] = "configure" => ConfiguredTo(x, transfer[x])'
                   /\ pc'[x] = "open" => ConfiguredTo(x, 6)' /\ channel'[ChannelOf[x]].on = TRUE
        BY <3>1, <3>3, <4>5, <2>4 DEF Configured, ConfiguredTo, ConfInv
      <4> QED BY <2>1, <3>1, <4>4, <4>5 DEF Configured, ConfInv
    <3> QED BY <3>3, <3>5
  <2> QED BY <2>5, <2>6
<1>4. ASSUME NEW b \in Buses, CloseChannel(b) PROVE Goal
  <2>1. /\ pc[b] = "shutdown" /\ pc' = [pc EXCEPT ![b] = "remove"] /\ UNCHANGED transfer
        /\ Request(b, "RESET") \/ UNCHANGED channel
        /\ channel \in [Channels -> Settings]
    BY <1>4 DEF CloseChannel, Goto, ConfInv
  <2>2. /\ channel' \in [Channels -> Settings]
        /\ \A c \in Channels \ {ChannelOf[b]} : channel'[c] = channel[c]
    BY <2>1, RequestTyped DEF Requests
  <2>3. ConfInv' BY <2>1, <2>2 DEF ConfInv, Pcs
  <2>4. ASSUME Own, Configured PROVE Configured'
    <3>1. pc'[b] = "remove" BY <2>1 DEF ConfInv
    <3>2. ASSUME NEW x \in Buses, x # b
          PROVE  /\ pc'[x] = "configure" => ConfiguredTo(x, transfer[x])'
                 /\ pc'[x] = "open" => ConfiguredTo(x, 6)' /\ channel'[ChannelOf[x]].on = TRUE
      <4>1. channel'[ChannelOf[x]] = channel[ChannelOf[x]] BY <2>2, <2>4, <3>2
      <4> QED BY <2>1, <2>4, <3>2, <4>1 DEF Configured, ConfiguredTo, ConfInv
    <3> QED BY <3>1, <3>2 DEF Configured
  <2> QED BY <2>3, <2>4
<1>5. ASSUME NEW b \in Buses,
             \/ SessionFails(b) \/ CreateSessionLeaks(b) \/ ConfigureFails(b)
             \/ Shutdown(b) \/ RemoveBus(b) \/ CloseSession(b)
      PROVE  Goal
  <2>1. \E to \in {"failed", "leaked", "shutdown", "join", "shut"} : pc' = [pc EXCEPT ![b] = to]
    BY <1>5 DEF SessionFails, CreateSessionLeaks, ConfigureFails, Shutdown, RemoveBus,
                CloseSession, Goto
  <2>2. UNCHANGED <<transfer, channel>>
    BY <1>5 DEF SessionFails, CreateSessionLeaks, ConfigureFails, Shutdown, RemoveBus,
                CloseSession, devVars
  <2>3. ConfInv' BY <2>1, <2>2 DEF ConfInv, Pcs
  <2> QED BY <2>1, <2>2, <2>3 DEF Configured, ConfiguredTo, ConfInv
<1>6. ASSUME NEW b \in Buses, Send(b) \/ Recv(b) \/ CollectDevice(b) PROVE UNCHANGED confVars
  BY <1>6 DEF Send, Recv, CollectDevice, confVars, busVars, devVars
<1>7. ASSUME NEW s \in Buses, Reader(s) PROVE UNCHANGED confVars
  BY <1>7 DEF Reader, TestRunning, ReadFrame, ReadFails, Snapshot, Deliver, confVars, busVars,
              devVars
<1>8. ASSUME NEW c \in Channels, Receive(c) PROVE UNCHANGED confVars
  BY <1>8 DEF Receive, confVars, busVars
<1>9. UNCHANGED vars => UNCHANGED confVars BY DEF vars, confVars, busVars, devVars
<1>10. ASSUME NEW b \in Buses, Thread(b) \/ Application(b) PROVE Goal
  BY <1>1, <1>2, <1>3, <1>4, <1>5, <1>6, <1>10 DEF Thread, Application
<1> QED BY <1>1, <1>6, <1>7, <1>8, <1>9, <1>10 DEF Next

THEOREM ConfInvariant == Spec => []ConfInv
<1>1. Init => ConfInv
  <2> SUFFICES ASSUME Init PROVE ConfInv
    OBVIOUS
  <2>1. \A b \in Buses : 1 \in 1 .. Len(Transfers(b)) BY TransferList
  <2>2. Stopped \in Settings BY DEF Stopped, Settings, Sessions
  <2> QED BY <2>1, <2>2 DEF Init, ConfInv, Pcs
<1>2. ConfInv /\ [Next]_vars => ConfInv' BY ConfStep
<1> QED BY <1>1, <1>2, PTL DEF Spec

\* An open bus object that shares its channel with nobody finds it running, with the
\* timing and termination it asked for, however the control transfers of several bus
\* objects, which nothing serialises, interleave.
THEOREM ChannelsMine ==
  ASSUME \A b, d \in Buses : ChannelOf[b] = ChannelOf[d] => b = d
  PROVE  Spec => []ChannelIsMine
<1>1. Init => Configured BY DEF Init, Configured
<1>2. ConfInv /\ Configured /\ [Next]_vars => Configured' BY ConfStep
<1>3. ConfInv /\ Configured => ChannelIsMine
  BY DEF Configured, ConfiguredTo, ChannelIsMine
<1> QED BY <1>1, <1>2, <1>3, ConfInvariant, PTL DEF Spec

-----------------------------------------------------------------------------
(***************************************************************************)
(* Types.                                                                  *)
(***************************************************************************)

\* A queue is a suffix of what was put in it.
Suffix(q, s) == \E k \in 0 .. Len(s) : q = SubSeq(s, k + 1, Len(s))

FrameTypeOK ==
    /\ seen \in [Buses -> Seq(Nat)] /\ queue \in [Buses -> Seq(Nat)]
    /\ since \in [Buses -> Nat]
    /\ frame \in [Buses -> Frames]
    /\ todo \in [Buses -> SUBSET Buses]
    /\ received \in [Channels -> Nat]
    /\ \A c \in Channels : received[c] <= MaxFrames[c]
    /\ pipe \in Seq(Frames)

QueuesAreSuffixes == \A b \in Buses : Suffix(queue[b], seen[b])

LEMMA SuffixGrows ==
  ASSUME NEW s \in Seq(Nat), NEW q \in Seq(Nat), Suffix(q, s), NEW n \in Nat
  PROVE  Suffix(Append(q, n), Append(s, n))
<1> DEFINE L == Len(s)
           u == Append(s, n)
<1>1. PICK k \in 0 .. L : q = SubSeq(s, k + 1, L) BY DEF Suffix
<1>2. L \in Nat /\ \A i \in 1 .. L : s[i] \in Nat BY LenProperties
<1>3. /\ u \in Seq(Nat) /\ Len(u) = L + 1 /\ u[L + 1] = n
      /\ \A i \in 1 .. L : u[i] = s[i]
  BY AppendProperties
<1> HIDE DEF u
<1>4. Len(q) = L - k /\ \A i \in 1 .. L - k : q[i] = s[k + i]
  <2>1. \A i \in k + 1 .. L : s[i] \in Nat BY <1>2
  <2>2. /\ Len(q) = IF k + 1 <= L THEN L - (k + 1) + 1 ELSE 0
        /\ \A i \in 1 .. L - (k + 1) + 1 : q[i] = s[k + 1 + i - 1]
    BY <1>1, <1>2, <2>1, SubSeqProperties
  <2> QED BY <1>2, <2>2
<1> DEFINE a == Append(q, n)
           t == SubSeq(u, k + 1, L + 1)
<1>5. /\ a \in Seq(Nat) /\ Len(a) = Len(q) + 1 /\ a[Len(q) + 1] = n
      /\ \A i \in 1 .. Len(q) : a[i] = q[i]
  BY AppendProperties
<1>6. /\ t \in Seq(Nat) /\ Len(t) = L - k + 1
      /\ \A i \in 1 .. L - k + 1 : t[i] = u[k + i]
  <2>1. \A i \in k + 1 .. L + 1 : u[i] \in Nat BY <1>2, <1>3
  <2>2. /\ t \in Seq(Nat)
        /\ Len(t) = IF k + 1 <= L + 1 THEN L + 1 - (k + 1) + 1 ELSE 0
        /\ \A i \in 1 .. L + 1 - (k + 1) + 1 : t[i] = u[k + 1 + i - 1]
    BY <1>2, <2>1, SubSeqProperties
  <2> QED BY <1>2, <2>2
<1> HIDE DEF a, t
<1>7. Len(a) = Len(t) BY <1>2, <1>4, <1>5, <1>6
<1>8. ASSUME NEW i \in 1 .. Len(a) PROVE a[i] = t[i]
  <2>1. CASE i \in 1 .. Len(q)
    <3>1. a[i] = s[k + i] BY <1>4, <1>5, <2>1
    <3>3. i \in 1 .. L - k BY <1>4, <2>1
    <3>4. k + i \in 1 .. L /\ i \in 1 .. L - k + 1 BY <1>2, <3>3
    <3>2. t[i] = u[k + i] /\ k + i \in 1 .. L BY <1>6, <3>4
    <3> QED BY <1>3, <3>1, <3>2
  <2>2. CASE i = Len(q) + 1
    <3>1. a[i] = n BY <1>5, <2>2
    <3>3. i = L - k + 1 BY <1>4, <2>2
    <3>4. k + i = L + 1 /\ i \in 1 .. L - k + 1 BY <1>2, <3>3
    <3>2. t[i] = u[k + i] /\ k + i = L + 1 BY <1>6, <3>4
    <3> QED BY <1>3, <3>1, <3>2
  <2> QED BY <1>2, <1>4, <1>5, <2>1, <2>2
<1>9. a = t BY <1>5, <1>6, <1>7, <1>8, SeqEqual
<1>10. k \in 0 .. Len(u) BY <1>2, <1>3
<1> QED BY <1>3, <1>9, <1>10 DEF Suffix, a, t, u

LEMMA SuffixShrinks ==
  ASSUME NEW s \in Seq(Nat), NEW q \in Seq(Nat), Suffix(q, s), q # <<>>
  PROVE  Suffix(Tail(q), s)
<1>1. PICK k \in 0 .. Len(s) : q = SubSeq(s, k + 1, Len(s)) BY DEF Suffix
<1>2. Len(s) \in Nat BY LenProperties
<1>3. ~(Len(s) < k + 1) BY <1>1, <1>2, SubSeqEmpty
<1>4. k + 1 \in 1 .. Len(s) /\ Len(s) \in k + 1 .. Len(s) BY <1>2, <1>3
<1>5. Tail(q) = SubSeq(s, k + 1 + 1, Len(s)) BY <1>1, <1>4, HeadTailOfSubSeq
<1>6. k + 1 \in 0 .. Len(s) BY <1>2, <1>4
<1> QED BY <1>5, <1>6 DEF Suffix

frameVars == <<seen, queue, since, frame, todo, received, pipe>>

\* A channel hands a frame to the host.
LEMMA FrameForType ==
  ASSUME FrameTypeOK, NEW c \in Channels, FrameFor(c)
  PROVE  /\ received' = [received EXCEPT ![c] = @ + 1]
         /\ received' \in [Channels -> Nat]
         /\ \A d \in Channels : received'[d] <= MaxFrames[d]
         /\ pipe' = Append(pipe, [chan |-> c, n |-> received[c] + 1])
         /\ pipe' \in Seq(Frames)
<1> USE DEF FrameTypeOK
<1>1. received' = [received EXCEPT ![c] = @ + 1] /\ received[c] < MaxFrames[c]
  BY DEF FrameFor
<1>2. received' \in [Channels -> Nat] /\ received'[c] = received[c] + 1 BY <1>1
<1>3. \A d \in Channels : received'[d] <= MaxFrames[d] BY <1>1, <1>2
<1>4. pipe' = Append(pipe, [chan |-> c, n |-> received[c] + 1])
  BY <1>2 DEF FrameFor
<1>5. [chan |-> c, n |-> received[c] + 1] \in Frames BY <1>1 DEF Frames
<1>6. pipe' \in Seq(Frames)
  <2> HIDE DEF Frames
  <2> QED BY <1>4, <1>5, AppendProperties
<1> QED BY <1>1, <1>2, <1>3, <1>4, <1>6

LEMMA FrameTypeStep ==
  ASSUME LifeInv, FrameTypeOK, QueuesAreSuffixes, [Next]_vars
  PROVE  FrameTypeOK' /\ QueuesAreSuffixes'
<1> USE DEF FrameTypeOK
<1> DEFINE Goal == FrameTypeOK' /\ QueuesAreSuffixes'
<1>1. ASSUME UNCHANGED frameVars PROVE Goal
  BY <1>1 DEF frameVars, QueuesAreSuffixes
<1>2. ASSUME NEW b \in Buses, Join(b) \/ CreateSession(b) PROVE Goal
  <2>1. since' = [since EXCEPT ![b] = received[ChannelOf[b]]]
        /\ UNCHANGED <<seen, queue, frame, todo, received, pipe>>
    BY <1>2 DEF Join, CreateSession, AddBus, readerVars, devVars
  <2> QED BY <2>1 DEF QueuesAreSuffixes
<1>3. ASSUME NEW c \in Channels, FrameFor(c), UNCHANGED <<seen, queue, since, frame, todo>>
      PROVE  Goal
  BY <1>3, FrameForType DEF QueuesAreSuffixes
<1>4. ASSUME NEW b \in Buses, Recv(b) PROVE Goal
  <2>1. queue[b] # <<>> /\ queue' = [queue EXCEPT ![b] = Tail(queue[b])]
        /\ UNCHANGED <<seen, since, frame, todo, received, pipe>>
    BY <1>4 DEF Recv, readerVars, devVars
  <2>2. Tail(queue[b]) \in Seq(Nat) BY <2>1, HeadTailProperties
  <2>3. Suffix(Tail(queue[b]), seen[b]) BY <2>1, SuffixShrinks DEF QueuesAreSuffixes
  <2> QED BY <2>1, <2>2, <2>3 DEF QueuesAreSuffixes
<1>5. ASSUME NEW s \in Buses, ReadFrame(s) PROVE Goal
  <2>1. pipe # <<>> /\ frame' = [frame EXCEPT ![s] = Head(pipe)] /\ pipe' = Tail(pipe)
        /\ UNCHANGED <<seen, queue, since, todo, received>>
    BY <1>5 DEF ReadFrame, queueVars
  <2>2. Head(pipe) \in Frames /\ Tail(pipe) \in Seq(Frames) BY <2>1, HeadTailProperties
  <2> QED BY <2>1, <2>2 DEF QueuesAreSuffixes
<1>6. ASSUME NEW s \in Buses, Snapshot(s) PROVE Goal
  <2>1. /\ todo' = [todo EXCEPT ![s] = {b \in listeners[s] : ChannelOf[b] = frame[s].chan}]
        /\ UNCHANGED <<seen, queue, since, frame, received, pipe>>
        /\ listeners[s] \in SUBSET Buses
    BY <1>6 DEF Snapshot, queueVars, devVars, LifeInv, LifeTypeOK
  <2> QED BY <2>1 DEF QueuesAreSuffixes
<1>7. ASSUME NEW s \in Buses, Deliver(s) PROVE Goal
  <2>1. UNCHANGED <<since, frame, received, pipe>> BY <1>7 DEF Deliver, devVars
  <2>2. CASE UNCHANGED <<queue, seen, todo>>
    BY <2>1, <2>2 DEF QueuesAreSuffixes
  <2>3. CASE \E b \in todo[s] : /\ OnMessageReceived(b, frame[s].n)
                                /\ todo' = [todo EXCEPT ![s] = @ \ {b}]
    <3>1. PICK b \in todo[s] : /\ OnMessageReceived(b, frame[s].n)
                               /\ todo' = [todo EXCEPT ![s] = @ \ {b}]
      BY <2>3
    <3>2. PICK n \in Nat : n = frame[s].n BY DEF Frames
    <3>3. b \in Buses /\ queue' = [queue EXCEPT ![b] = Append(queue[b], n)]
          /\ seen' = [seen EXCEPT ![b] = Append(seen[b], n)]
      BY <3>1, <3>2 DEF OnMessageReceived
    <3>4. Append(queue[b], n) \in Seq(Nat) /\ Append(seen[b], n) \in Seq(Nat)
      BY <3>3, AppendProperties
    <3>5. Suffix(Append(queue[b], n), Append(seen[b], n))
      BY <3>3, SuffixGrows DEF QueuesAreSuffixes
    <3>6. todo' \in [Buses -> SUBSET Buses] BY <3>1
    <3> QED BY <2>1, <3>3, <3>4, <3>5, <3>6 DEF QueuesAreSuffixes
  <2> QED BY <1>7, <2>2, <2>3 DEF Deliver
<1>8. ASSUME NEW b \in Buses,
             \/ SessionFails(b) \/ CreateSessionLeaks(b) \/ CollectDevice(b)
             \/ ConfigureStep(b) \/ ConfigureFails(b) \/ CloseChannel(b)
             \/ RemoveBus(b) \/ CloseSession(b) \/ Shutdown(b)
             \/ TestRunning(b) \/ ReadFails(b)
      PROVE  UNCHANGED frameVars
  BY <1>8 DEF SessionFails, CreateSessionLeaks, CollectDevice, ConfigureStep, ConfigureFails, CloseChannel, RemoveBus, CloseSession,
              Shutdown, TestRunning, ReadFails, frameVars, queueVars, readerVars, devVars
<1>9. ASSUME NEW b \in Buses, Send(b) PROVE Goal
  <2>1. ChannelOf[b] \in Channels OBVIOUS
  <2>2. FrameFor(ChannelOf[b]) /\ UNCHANGED <<seen, queue, since, frame, todo>>
    BY <1>9 DEF Send, queueVars, readerVars
  <2> QED BY <1>3, <2>1, <2>2
<1>10. ASSUME NEW c \in Channels, Receive(c) PROVE Goal
  BY <1>3, <1>10 DEF Receive, queueVars, readerVars
<1>11. UNCHANGED vars => UNCHANGED frameVars
  BY DEF vars, frameVars, queueVars, readerVars, devVars
<1>12. ASSUME NEW b \in Buses, Thread(b) \/ Application(b) \/ Reader(b) PROVE Goal
  BY <1>1, <1>2, <1>4, <1>5, <1>6, <1>7, <1>8, <1>9, <1>12 DEF Thread, Application, Reader
<1> QED BY <1>1, <1>8, <1>10, <1>11, <1>12 DEF Next

LEMMA FrameTypeInit == Init => FrameTypeOK /\ QueuesAreSuffixes
<1> SUFFICES ASSUME Init PROVE FrameTypeOK /\ QueuesAreSuffixes
  OBVIOUS
<1>1. <<>> \in Seq(Nat) /\ <<>> \in Seq(Frames) /\ Len(<<>>) = 0 BY EmptySeq
<1>2. frame \in [Buses -> Frames]
  <2> DEFINE f0 == [chan |-> CHOOSE c \in Channels : TRUE, n |-> 1]
  <2>1. frame \in [Buses -> {f0}] BY DEF Init
  <2>2. ASSUME NEW b \in Buses PROVE f0 \in Frames
    <3>1. ChannelOf[b] \in Channels OBVIOUS
    <3>2. (CHOOSE c \in Channels : TRUE) \in Channels BY <3>1
    <3> QED BY <3>2 DEF Frames
  <2> HIDE DEF f0
  <2> QED BY <2>1, <2>2
<1>3. FrameTypeOK BY <1>1, <1>2 DEF Init, FrameTypeOK
<1>4. Suffix(<<>>, <<>>)
  <2>1. SubSeq(<<>>, 1, 0) = <<>> BY SubSeqEmpty
  <2> QED BY <1>1, <2>1 DEF Suffix
<1>5. QueuesAreSuffixes BY <1>4 DEF Init, QueuesAreSuffixes
<1> QED BY <1>3, <1>5

LEMMA FrameTypes == ASSUME ShutdownOnce PROVE Spec => [](FrameTypeOK /\ QueuesAreSuffixes)
<1>1. LifeInv /\ FrameTypeOK /\ QueuesAreSuffixes /\ [Next]_vars
        => FrameTypeOK' /\ QueuesAreSuffixes'
  BY FrameTypeStep
<1> QED BY <1>1, FrameTypeInit, LifeInvariant, PTL DEF Spec

\* The type invariant: in particular a queue holds the last of what was put in it,
\* and no session counts more bus objects than there are.
THEOREM TypeCorrect == ASSUME ShutdownOnce PROVE Spec => []TypeOK
<1>1. LifeInv /\ ConfInv /\ FrameTypeOK /\ QueuesAreSuffixes => TypeOK
  <2> SUFFICES ASSUME LifeInv, ConfInv, FrameTypeOK, QueuesAreSuffixes PROVE TypeOK
    OBVIOUS
  <2>1. refs \in [Buses -> 0 .. Cardinality(Buses)]
    <3>1. refs \in [Buses -> Nat] /\ \A s \in Buses : refs[s] = Cardinality(listeners[s])
      BY DEF LifeInv, LifeTypeOK, ListenersExact
    <3>2. \A S \in SUBSET Buses : Cardinality(S) <= Cardinality(Buses)
      BY FS_Subset
    <3>3. Cardinality(Buses) \in Nat BY FS_CardinalityType
    <3>4. \A s \in Buses : listeners[s] \in SUBSET Buses BY DEF LifeInv, LifeTypeOK
    <3> QED BY <3>1, <3>2, <3>3, <3>4
  <2>2. /\ {lock, registry, claimed} \subseteq Sessions
        /\ session \in [Buses -> Sessions] /\ listeners \in [Buses -> SUBSET Buses]
        /\ running \in [Buses -> BOOLEAN]
    BY DEF LifeInv, LifeTypeOK
  <2>3. reader \in [Buses -> {"none", "loop", "read", "snapshot", "deliver", "ended"}]
    BY DEF LifeInv, LifeTypeOK, ReaderPcs
  <2>4. /\ pc \in [Buses -> {"new", "configure", "open", "shutdown", "remove", "join", "shut",
                             "failed", "leaked"}]
        /\ \A b \in Buses : transfer[b] \in 1 .. Len(Transfers(b))
    BY DEF ConfInv, Pcs
  <2>5. channel \in [Channels -> [on : BOOLEAN, nominal : Sessions, data : Sessions, term : Sessions]]
    BY DEF ConfInv, Settings
  <2>6. \A b \in Buses : \E k \in 0 .. Len(seen[b]) :
           queue[b] = SubSeq(seen[b], k + 1, Len(seen[b]))
    BY DEF QueuesAreSuffixes, Suffix
  <2> QED BY <2>1, <2>2, <2>3, <2>4, <2>5, <2>6 DEF TypeOK, FrameTypeOK
<1> QED BY <1>1, LifeInvariant, ConfInvariant, FrameTypes, PTL

-----------------------------------------------------------------------------
(***************************************************************************)
(* The bulk IN pipe.                                                       *)
(***************************************************************************)

\* The numbers of the frames of channel c in p, and the order of the frames of one
\* channel.
Numbers(p, c) == {p[k].n : k \in {i \in DOMAIN p : p[i].chan = c}}
Ordered(p) == \A k, l \in DOMAIN p : k < l /\ p[k].chan = p[l].chan => p[k].n < p[l].n

LEMMA FrameJoins ==
  ASSUME NEW p \in Seq(Frames), NEW f \in Frames, Ordered(p),
         \A x \in Numbers(p, f.chan) : x < f.n
  PROVE  /\ Ordered(Append(p, f))
         /\ Numbers(Append(p, f), f.chan) = Numbers(p, f.chan) \cup {f.n}
         /\ \A c \in Channels \ {f.chan} : Numbers(Append(p, f), c) = Numbers(p, c)
<1> DEFINE u == Append(p, f)
           L == Len(p)
<1> HIDE DEF Frames
<1>1. L \in Nat /\ DOMAIN p = 1 .. L BY LenProperties
<1>2. /\ DOMAIN u = 1 .. L + 1 /\ u[L + 1] = f
      /\ \A i \in 1 .. L : u[i] = p[i]
  <2>1. /\ u \in Seq(Frames) /\ Len(u) = L + 1 /\ u[L + 1] = f
        /\ \A i \in 1 .. L : u[i] = p[i]
    BY AppendProperties
  <2> HIDE DEF u
  <2>2. DOMAIN u = 1 .. Len(u) BY <2>1, LenProperties
  <2> QED BY <2>1, <2>2
<1> HIDE DEF u, L
<1>3. Ordered(u)
  <2> SUFFICES ASSUME NEW k \in DOMAIN u, NEW l \in DOMAIN u, k < l, u[k].chan = u[l].chan
               PROVE  u[k].n < u[l].n
    BY DEF Ordered
  <2>1. k \in 1 .. L /\ (l \in 1 .. L \/ l = L + 1) BY <1>1, <1>2
  <2>2. CASE l \in 1 .. L BY <1>1, <1>2, <2>1, <2>2 DEF Ordered
  <2>3. CASE l = L + 1
    <3>1. p[k].n \in Numbers(p, f.chan) BY <1>1, <1>2, <2>1, <2>3 DEF Numbers
    <3> QED BY <1>2, <2>1, <2>3, <3>1
  <2> QED BY <2>1, <2>2, <2>3
<1>4. ASSUME NEW c PROVE Numbers(u, c) = Numbers(p, c) \cup (IF f.chan = c THEN {f.n} ELSE {})
  <2>1. ASSUME NEW x \in Numbers(u, c)
        PROVE  x \in Numbers(p, c) \cup (IF f.chan = c THEN {f.n} ELSE {})
    <3>1. PICK k \in DOMAIN u : u[k].chan = c /\ x = u[k].n BY <2>1 DEF Numbers
    <3>2. CASE k = L + 1 BY <1>2, <3>1, <3>2
    <3>3. CASE k # L + 1
      <4>1. k \in DOMAIN p /\ u[k] = p[k] BY <1>1, <1>2, <3>3
      <4> QED BY <3>1, <4>1 DEF Numbers
    <3> QED BY <3>2, <3>3
  <2>2. ASSUME NEW x \in Numbers(p, c) PROVE x \in Numbers(u, c)
    <3>1. PICK k \in DOMAIN p : p[k].chan = c /\ x = p[k].n BY <2>2 DEF Numbers
    <3>2. k \in DOMAIN u /\ u[k] = p[k] BY <1>1, <1>2
    <3> QED BY <3>1, <3>2 DEF Numbers
  <2>3. f.chan = c => f.n \in Numbers(u, c)
    <3>1. L + 1 \in DOMAIN u BY <1>1, <1>2
    <3> QED BY <1>2, <3>1 DEF Numbers
  <2> QED BY <2>1, <2>2, <2>3
<1>6. Numbers(u, f.chan) = Numbers(p, f.chan) \cup {f.n} BY <1>4
<1>7. \A c \in Channels \ {f.chan} : Numbers(u, c) = Numbers(p, c) BY <1>4
<1> QED BY <1>3, <1>6, <1>7 DEF u

LEMMA FrameLeaves ==
  ASSUME NEW p \in Seq(Frames), p # <<>>, Ordered(p)
  PROVE  /\ Ordered(Tail(p)) /\ Head(p) \in Frames
         /\ Numbers(p, Head(p).chan) = Numbers(Tail(p), Head(p).chan) \cup {Head(p).n}
         /\ \A x \in Numbers(Tail(p), Head(p).chan) : Head(p).n < x
         /\ \A c \in Channels \ {Head(p).chan} : Numbers(Tail(p), c) = Numbers(p, c)
<1> DEFINE u == Tail(p)
           h == Head(p)
           L == Len(p)
<1> HIDE DEF Frames
<1>1. L \in Nat \ {0} /\ DOMAIN p = 1 .. L /\ h = p[1] /\ h \in Frames
  BY EmptySeq, LenProperties, HeadTailProperties
<1>2. DOMAIN u = 1 .. L - 1 /\ \A i \in 1 .. L - 1 : u[i] = p[i + 1]
  <2>1. u \in Seq(Frames) /\ Len(u) = L - 1 /\ \A i \in 1 .. Len(u) : u[i] = p[i + 1]
    BY HeadTailProperties
  <2> HIDE DEF u
  <2>2. DOMAIN u = 1 .. Len(u) BY <2>1, LenProperties
  <2> QED BY <2>1, <2>2
<1> HIDE DEF u, L, h
<1>3. Ordered(u)
  <2> SUFFICES ASSUME NEW k \in DOMAIN u, NEW l \in DOMAIN u, k < l, u[k].chan = u[l].chan
               PROVE  u[k].n < u[l].n
    BY DEF Ordered
  <2>1. k + 1 \in DOMAIN p /\ l + 1 \in DOMAIN p /\ k + 1 < l + 1 BY <1>1, <1>2
  <2>2. u[k] = p[k + 1] /\ u[l] = p[l + 1] BY <1>2
  <2> QED BY <2>1, <2>2 DEF Ordered
<1>4. ASSUME NEW c PROVE Numbers(p, c) = Numbers(u, c) \cup (IF h.chan = c THEN {h.n} ELSE {})
  <2>1. ASSUME NEW x \in Numbers(p, c)
        PROVE  x \in Numbers(u, c) \cup (IF h.chan = c THEN {h.n} ELSE {})
    <3>1. PICK k \in DOMAIN p : p[k].chan = c /\ x = p[k].n BY <2>1 DEF Numbers
    <3>2. CASE k = 1 BY <1>1, <3>1, <3>2
    <3>3. CASE k # 1
      <4>1. k - 1 \in 1 .. L - 1 /\ (k - 1) + 1 = k BY <1>1, <3>3
      <4>2. u[k - 1] = p[k] BY <1>2, <4>1
      <4> QED BY <1>2, <3>1, <4>1, <4>2 DEF Numbers
    <3> QED BY <3>2, <3>3
  <2>2. ASSUME NEW x \in Numbers(u, c) PROVE x \in Numbers(p, c)
    <3>1. PICK k \in DOMAIN u : u[k].chan = c /\ x = u[k].n BY <2>2 DEF Numbers
    <3>2. k + 1 \in DOMAIN p /\ u[k] = p[k + 1] BY <1>1, <1>2
    <3> QED BY <3>1, <3>2 DEF Numbers
  <2>3. h.chan = c => h.n \in Numbers(p, c)
    <3>1. 1 \in DOMAIN p BY <1>1
    <3> QED BY <1>1, <3>1 DEF Numbers
  <2> QED BY <2>1, <2>2, <2>3
<1>5. ASSUME NEW x \in Numbers(u, h.chan) PROVE h.n < x
  <2>1. PICK k \in DOMAIN u : u[k].chan = h.chan /\ x = u[k].n BY <1>5 DEF Numbers
  <2>2. k + 1 \in DOMAIN p /\ 1 \in DOMAIN p /\ 1 < k + 1 /\ u[k] = p[k + 1] BY <1>1, <1>2
  <2> QED BY <1>1, <2>1, <2>2 DEF Ordered
<1>6. Numbers(p, h.chan) = Numbers(u, h.chan) \cup {h.n} BY <1>4
<1>7. \A c \in Channels \ {h.chan} : Numbers(u, c) = Numbers(p, c) BY <1>4
<1> QED BY <1>1, <1>3, <1>5, <1>6, <1>7 DEF u, h
-----------------------------------------------------------------------------
(***************************************************************************)
(* The order of the frames.                                                *)
(***************************************************************************)

\* The frames of channel c up to number m have left the pipe, all later ones are in it.
UpTo(c, m) == m <= received[c] /\ Numbers(pipe, c) = m + 1 .. received[c]

PipeExact == Ordered(pipe) /\ \A c \in Channels : \E m \in 0 .. received[c] : UpTo(c, m)

\* A reader that holds a frame serves bus objects of its session on that channel; the
\* one of the registered session read it last of its channel.
ReaderExact ==
    \A s \in Buses :
        /\ todo[s] # {} => reader[s] = "deliver"
        /\ s = registry /\ reader[s] \in {"snapshot", "deliver"} => UpTo(frame[s].chan, frame[s].n)
        /\ \A b \in todo[s] : session[b] = s /\ ChannelOf[b] = frame[s].chan

\* The reader of its session is about to serve b, or to copy a list with b on it.
Due(b) ==
    \/ b \in todo[session[b]]
    \/ Using(b) /\ reader[session[b]] = "snapshot" /\ frame[session[b]].chan = ChannelOf[b]

LastSeen(b) == seen[b][Len(seen[b])]

\* A bus object that got frames gets the next one next.
NextIsNext ==
    \A b \in Buses : seen[b] # <<>> =>
        /\ session[b] # NoBus
        /\ Due(b) => LastSeen(b) + 1 = frame[session[b]].n
        /\ Using(b) /\ ~Due(b) => UpTo(ChannelOf[b], LastSeen(b))

OrderInv == PipeExact /\ ReaderExact /\ NextIsNext /\ FramesInOrder
\* A step that leaves the frames alone, attaches only new bus objects, and lets a
\* reader neither take up a frame nor put one down that somebody still waits for.
Quiet ==
    /\ UNCHANGED <<seen, frame, todo, received, pipe>>
    /\ \A b \in Buses : session[b] # NoBus => session'[b] = session[b] /\ (Using(b)' => Using(b))
    /\ \A s \in Buses :
         \/ reader'[s] = reader[s] /\ (s = registry' => s = registry)
         \/ reader'[s] \notin {"snapshot", "deliver"} /\ reader[s] # "snapshot" /\ todo[s] = {}

LEMMA QuietStep ==
  ASSUME LifeInv, FrameTypeOK, OrderInv, Quiet PROVE OrderInv'
<1> USE DEF OrderInv, FrameTypeOK
<1>1. UNCHANGED <<seen, frame, todo, received, pipe>> BY DEF Quiet
<1>2. PipeExact' /\ FramesInOrder' BY <1>1 DEF PipeExact, FramesInOrder, UpTo
<1>3. ReaderExact'
  <2> SUFFICES ASSUME NEW s \in Buses
               PROVE  /\ todo[s] # {} => reader'[s] = "deliver"
                      /\ s = registry' /\ reader'[s] \in {"snapshot", "deliver"}
                           => UpTo(frame[s].chan, frame[s].n)
                      /\ \A b \in todo[s] : session'[b] = s /\ ChannelOf[b] = frame[s].chan
    BY <1>1 DEF ReaderExact, UpTo
  <2>1. todo[s] # {} => reader'[s] = "deliver" BY DEF Quiet, ReaderExact
  <2>2. s = registry' /\ reader'[s] \in {"snapshot", "deliver"} => UpTo(frame[s].chan, frame[s].n)
    BY DEF Quiet, ReaderExact
  <2>3. \A b \in todo[s] : session'[b] = s /\ ChannelOf[b] = frame[s].chan
    <3> SUFFICES ASSUME NEW b \in todo[s]
                 PROVE  session'[b] = s /\ ChannelOf[b] = frame[s].chan
      OBVIOUS
    <3>1. b \in Buses /\ s # NoBus OBVIOUS
    <3>2. session[b] = s /\ ChannelOf[b] = frame[s].chan BY DEF ReaderExact
    <3> QED BY <3>1, <3>2 DEF Quiet
  <2> QED BY <2>1, <2>2, <2>3
<1>4. NextIsNext'
  <2> SUFFICES ASSUME NEW b \in Buses, seen[b] # <<>>
               PROVE  /\ session'[b] # NoBus
                      /\ Due(b)' => LastSeen(b) + 1 = frame[session'[b]].n
                      /\ Using(b)' /\ ~Due(b)' => UpTo(ChannelOf[b], LastSeen(b))
    BY <1>1 DEF NextIsNext, UpTo, LastSeen
  <2>1. /\ session[b] # NoBus
        /\ Due(b) => LastSeen(b) + 1 = frame[session[b]].n
        /\ Using(b) /\ ~Due(b) => UpTo(ChannelOf[b], LastSeen(b))
    BY DEF NextIsNext
  <2>2. session'[b] = session[b] /\ (Using(b)' => Using(b)) BY <2>1 DEF Quiet
  <2>3. session[b] \in Buses BY <2>1 DEF LifeInv, LifeTypeOK, Sessions
  <2>4. reader[session[b]] = "snapshot" <=> reader'[session[b]] = "snapshot"
    BY <2>3 DEF Quiet
  <2>5. Due(b)' => Due(b) BY <1>1, <2>2, <2>4 DEF Due
  <2>6. Using(b)' /\ Due(b) => Due(b)' BY <1>1, <2>2, <2>4 DEF Due
  <2> QED BY <2>1, <2>2, <2>5, <2>6
<1> QED BY <1>2, <1>3, <1>4

\* What is in the pipe has been received.
LEMMA PipeStep ==
  ASSUME FrameTypeOK, PipeExact, NEW c \in Channels, FrameFor(c)
  PROVE  PipeExact' /\ \A d \in Channels, m \in Nat : UpTo(d, m) => UpTo(d, m)'
<1> USE DEF FrameTypeOK
<1> DEFINE f == [chan |-> c, n |-> received[c] + 1]
<1>1. received' = [received EXCEPT ![c] = @ + 1] /\ pipe' = Append(pipe, f)
  BY FrameForType
<1>2. f \in Frames /\ f.chan = c /\ f.n = received[c] + 1 /\ received[c] \in Nat BY DEF Frames
<1> HIDE DEF f
<1>3. \A x \in Numbers(pipe, c) : x < f.n
  <2>1. PICK m \in 0 .. received[c] : UpTo(c, m) BY DEF PipeExact
  <2> QED BY <1>2, <2>1 DEF UpTo
<1>4. /\ Ordered(Append(pipe, f))
      /\ Numbers(Append(pipe, f), c) = Numbers(pipe, c) \cup {f.n}
      /\ \A d \in Channels \ {c} : Numbers(Append(pipe, f), d) = Numbers(pipe, d)
  BY <1>2, <1>3, FrameJoins DEF PipeExact
<1>5. ASSUME NEW d \in Channels, NEW m \in Nat, UpTo(d, m) PROVE UpTo(d, m)'
  <2>1. CASE d = c
    <3>1. received'[c] = received[c] + 1 /\ m <= received[c] /\ Numbers(pipe, c) = m + 1 .. received[c]
      BY <1>1, <1>5, <2>1 DEF UpTo
    <3>2. Numbers(pipe', c) = (m + 1 .. received[c]) \cup {received[c] + 1} BY <1>1, <1>2, <1>4, <3>1
    <3>3. (m + 1 .. received[c]) \cup {received[c] + 1} = m + 1 .. received[c] + 1
      BY <1>2, <3>1
    <3> QED BY <1>2, <2>1, <3>1, <3>2, <3>3 DEF UpTo
  <2>2. CASE d # c
    <3>1. received'[d] = received[d] /\ Numbers(pipe', d) = Numbers(pipe, d) BY <1>1, <1>4, <2>2
    <3> QED BY <1>5, <3>1 DEF UpTo
  <2> QED BY <2>1, <2>2
<1>6. \A d \in Channels : \E m \in 0 .. received'[d] : UpTo(d, m)'
  <2> SUFFICES ASSUME NEW d \in Channels PROVE \E m \in 0 .. received'[d] : UpTo(d, m)'
    OBVIOUS
  <2>1. PICK m \in 0 .. received[d] : UpTo(d, m) BY DEF PipeExact
  <2>2. received[d] \in Nat /\ received'[d] \in Nat /\ received'[d] >= received[d] BY <1>1
  <2> QED BY <1>5, <2>1, <2>2
<1>7. Ordered(pipe)' BY <1>1, <1>4
<1> QED BY <1>5, <1>6, <1>7 DEF PipeExact

\* The reader takes the frame that follows the ones its channel gave before.
LEMMA ReadStep ==
  ASSUME FrameTypeOK, PipeExact, NEW s \in Buses, ReadFrame(s), NEW h, h = Head(pipe)
  PROVE  /\ PipeExact'
         /\ h \in Frames /\ UpTo(h.chan, h.n)'
         /\ \A m \in Nat : UpTo(h.chan, m) => m + 1 = h.n
         /\ \A d \in Channels \ {h.chan}, m \in Nat : UpTo(d, m) => UpTo(d, m)'
<1> USE DEF FrameTypeOK
<1>1. pipe # <<>> /\ pipe' = Tail(pipe) /\ received' = received BY DEF ReadFrame
<1>2. h \in Frames BY <1>1, HeadTailProperties
<1>3. /\ Ordered(pipe)'
      /\ Numbers(pipe, h.chan) = Numbers(pipe', h.chan) \cup {h.n}
      /\ \A x \in Numbers(pipe', h.chan) : h.n < x
      /\ \A d \in Channels \ {h.chan} : Numbers(pipe', d) = Numbers(pipe, d)
  BY <1>1, <1>2, FrameLeaves DEF PipeExact
<1>4. h.n \in Nat /\ h.chan \in Channels /\ received[h.chan] \in Nat BY <1>2 DEF Frames
<1>5. ASSUME NEW m \in Nat, UpTo(h.chan, m) PROVE m + 1 = h.n /\ UpTo(h.chan, h.n)'
  <2>1. m + 1 .. received[h.chan] = Numbers(pipe', h.chan) \cup {h.n}
    BY <1>3, <1>5 DEF UpTo
  <2>2. h.n \in m + 1 .. received[h.chan] BY <2>1
  <2>3. m + 1 \in m + 1 .. received[h.chan] BY <1>4, <2>2
  <2>5. m + 1 = h.n \/ m + 1 \in Numbers(pipe', h.chan) BY <2>1, <2>3
  <2>6. m + 1 = h.n \/ h.n < m + 1 BY <1>3, <2>5
  <2>4. m + 1 = h.n BY <1>4, <2>2, <2>6
  <2>7. Numbers(pipe', h.chan) = h.n + 1 .. received[h.chan]
    <3>1. ASSUME NEW x \in Numbers(pipe', h.chan) PROVE x \in h.n + 1 .. received[h.chan]
      <4>1. x \in m + 1 .. received[h.chan] /\ h.n < x BY <1>3, <2>1, <3>1
      <4> QED BY <1>4, <4>1
    <3>2. ASSUME NEW x \in h.n + 1 .. received[h.chan] PROVE x \in Numbers(pipe', h.chan)
      <4>1. x \in m + 1 .. received[h.chan] /\ x # h.n BY <1>4, <2>4, <3>2
      <4> QED BY <2>1, <4>1
    <3> QED BY <3>1, <3>2
  <2> QED BY <1>1, <1>4, <2>2, <2>4, <2>7 DEF UpTo
<1>6. ASSUME NEW d \in Channels \ {h.chan}, NEW m \in Nat, UpTo(d, m) PROVE UpTo(d, m)'
  BY <1>1, <1>3, <1>6 DEF UpTo
<1>7. PICK k \in 0 .. received[h.chan] : UpTo(h.chan, k) BY <1>4 DEF PipeExact
<1>8. UpTo(h.chan, h.n)' BY <1>5, <1>7
<1>9. \A d \in Channels : \E m \in 0 .. received'[d] : UpTo(d, m)'
  <2> SUFFICES ASSUME NEW d \in Channels PROVE \E m \in 0 .. received[d] : UpTo(d, m)'
    BY <1>1
  <2>1. CASE d = h.chan BY <1>1, <1>4, <1>8, <2>1 DEF UpTo
  <2>2. CASE d # h.chan
    <3>1. PICK m \in 0 .. received[d] : UpTo(d, m) BY DEF PipeExact
    <3> QED BY <1>6, <2>2, <3>1
  <2> QED BY <2>1, <2>2
<1>10. PipeExact' BY <1>3, <1>9 DEF PipeExact
<1> QED BY <1>2, <1>5, <1>6, <1>8, <1>10

\* A frame arrives and stays in the pipe.
LEMMA OrderReceive ==
  ASSUME LifeInv, FrameTypeOK, OrderInv, NEW c \in Channels, FrameFor(c),
         UNCHANGED <<registry, pc, session, seen, reader, frame, todo>>
  PROVE  OrderInv'
<1> USE DEF OrderInv, FrameTypeOK
<1>1. PipeExact' /\ \A d \in Channels, m \in Nat : UpTo(d, m) => UpTo(d, m)'
  BY PipeStep
<1>2. FramesInOrder' BY DEF FramesInOrder
<1>3. ReaderExact'
  <2>1. \A s \in Buses : frame[s].chan \in Channels /\ frame[s].n \in Nat BY DEF Frames
  <2> QED BY <1>1, <2>1 DEF ReaderExact
<1>4. NextIsNext'
  <2> SUFFICES ASSUME NEW b \in Buses, seen[b] # <<>>
               PROVE  /\ session[b] # NoBus
                      /\ Due(b) => LastSeen(b) + 1 = frame[session[b]].n
                      /\ Using(b) /\ ~Due(b) => UpTo(ChannelOf[b], LastSeen(b))'
    BY DEF NextIsNext, Due, Using, LastSeen
  <2>1. LastSeen(b) \in Nat /\ LastSeen(b)' = LastSeen(b)
    BY EmptySeq, LenProperties DEF LastSeen
  <2>2. PICK l \in Nat : l = LastSeen(b) BY <2>1
  <2>3. UpTo(ChannelOf[b], LastSeen(b)) => UpTo(ChannelOf[b], l)' BY <1>1, <2>2
  <2>4. UpTo(ChannelOf[b], l)' => UpTo(ChannelOf[b], LastSeen(b))'
    BY <2>1, <2>2 DEF UpTo
  <2> QED BY <2>3, <2>4 DEF NextIsNext
<1> QED BY <1>1, <1>2, <1>3, <1>4

\* A frame is read for the bus objects that use the interface.
LEMMA TheReader ==
  ASSUME LifeInv, NEW s \in Buses, ReadFrame(s)
  PROVE  /\ \A t \in Buses \ {s} : t # registry
         /\ \A b \in Buses : Using(b) => session[b] = s
<1> USE DEF LifeInv, LifeTypeOK, Sessions
<1>1. claimed \in {s, NoBus} BY DEF ReadFrame
<1>2. \A t \in Buses \ {s} : t # registry BY <1>1 DEF OneSession
<1>3. ASSUME NEW b \in Buses, Using(b) PROVE session[b] = s
  <2>1. session[b] = registry /\ registry \in Buses BY <1>3 DEF OneSession, Using
  <2> QED BY <1>2, <2>1
<1> QED BY <1>2, <1>3

\* The reader takes a frame: whoever got frames of that channel gets it next.
LEMMA OrderRead ==
  ASSUME LifeInv, FrameTypeOK, OrderInv, NEW s \in Buses, ReadFrame(s) PROVE OrderInv'
<1> USE DEF OrderInv, FrameTypeOK
<1>1. /\ reader[s] = "read" /\ pipe # <<>>
      /\ reader' = [reader EXCEPT ![s] = "snapshot"]
      /\ UNCHANGED <<registry, pc, session, seen, todo, received>>
  BY DEF ReadFrame, ReaderGoto, regVars, busVars, queueVars
<1>2. PICK h : h = Head(pipe) OBVIOUS
<1>3. /\ PipeExact'
      /\ h \in Frames /\ UpTo(h.chan, h.n)'
      /\ \A m \in Nat : UpTo(h.chan, m) => m + 1 = h.n
      /\ \A d \in Channels \ {h.chan}, m \in Nat : UpTo(d, m) => UpTo(d, m)'
  BY <1>2, ReadStep
<1>4. frame' = [frame EXCEPT ![s] = h] BY <1>2 DEF ReadFrame
<1>5. todo[s] = {} BY <1>1 DEF ReaderExact
<1>6. /\ \A t \in Buses \ {s} : t # registry
      /\ \A b \in Buses : Using(b) => session[b] = s
  BY TheReader
<1>7. FramesInOrder' BY <1>1 DEF FramesInOrder
<1>8. reader'[s] = "snapshot" /\ frame'[s] = h
      /\ \A t \in Buses : t # s => reader'[t] = reader[t] /\ frame'[t] = frame[t]
  BY <1>1, <1>4 DEF LifeInv, LifeTypeOK
<1>9. ReaderExact'
  <2> SUFFICES ASSUME NEW t \in Buses
               PROVE  /\ todo[t] # {} => reader'[t] = "deliver"
                      /\ t = registry /\ reader'[t] \in {"snapshot", "deliver"}
                           => UpTo(frame[t].chan, frame[t].n)'
                      /\ \A b \in todo[t] : session[b] = t /\ ChannelOf[b] = frame'[t].chan
    BY <1>1 DEF ReaderExact
  <2>1. CASE t # s
    <3>1. t # registry /\ reader'[t] = reader[t] /\ frame'[t] = frame[t] BY <1>6, <1>8, <2>1
    <3>2. /\ todo[t] # {} => reader[t] = "deliver"
          /\ \A b \in todo[t] : session[b] = t /\ ChannelOf[b] = frame[t].chan
      BY DEF ReaderExact
    <3> QED BY <3>1, <3>2
  <2>2. CASE t = s
    <3>1. UpTo(frame[s].chan, frame[s].n)' BY <1>3, <1>8 DEF UpTo
    <3> QED BY <1>5, <2>2, <3>1
  <2> QED BY <2>1, <2>2
<1>10. NextIsNext'
  <2> SUFFICES ASSUME NEW b \in Buses, seen[b] # <<>>
               PROVE  /\ session[b] # NoBus
                      /\ Due(b)' => LastSeen(b) + 1 = frame'[session[b]].n
                      /\ Using(b) /\ ~Due(b)' => UpTo(ChannelOf[b], LastSeen(b))'
    BY <1>1 DEF NextIsNext, Using, LastSeen
  <2>1. PICK l \in Nat : l = LastSeen(b) /\ l = LastSeen(b)'
    BY <1>1, EmptySeq, LenProperties DEF LastSeen
  <2>2. session[b] # NoBus /\ session[b] \in Buses
    BY DEF NextIsNext, LifeInv, LifeTypeOK, Sessions
  <2>9. CASE session[b] # s
    <3>1. ~Using(b) BY <1>6, <2>9
    <3>2. Due(b)' => Due(b) BY <1>1, <3>1 DEF Due, Using
    <3>3. frame'[session[b]] = frame[session[b]] BY <1>8, <2>2, <2>9
    <3> QED BY <2>2, <3>1, <3>2, <3>3 DEF NextIsNext
  <2>10. CASE session[b] = s
    <3>3. ~Due(b) BY <1>1, <1>5, <2>10 DEF Due
    <3>4. Using(b) => UpTo(ChannelOf[b], l) BY <2>1, <3>3 DEF NextIsNext
    <3>5. Due(b)' <=> Using(b) /\ h.chan = ChannelOf[b]
      BY <1>1, <1>5, <1>8, <2>10 DEF Due, Using
    <3>6. Due(b)' => l + 1 = frame'[session[b]].n BY <1>3, <1>8, <2>10, <3>4, <3>5
    <3>7. Using(b) /\ ~Due(b)' => UpTo(ChannelOf[b], l)' BY <1>3, <3>4, <3>5
    <3>8. UpTo(ChannelOf[b], l)' => UpTo(ChannelOf[b], LastSeen(b))' BY <2>1 DEF UpTo
    <3> QED BY <2>1, <2>2, <3>6, <3>7, <3>8
  <2> QED BY <2>9, <2>10
<1> QED BY <1>3, <1>7, <1>9, <1>10

\* The bus objects that are due are the ones to serve.
LEMMA OrderSnapshot ==
  ASSUME LifeInv, FrameTypeOK, OrderInv, NEW s \in Buses, Snapshot(s) PROVE OrderInv'
<1> USE DEF OrderInv, FrameTypeOK
<1>1. /\ reader[s] = "snapshot" /\ reader' = [reader EXCEPT ![s] = "deliver"]
      /\ todo' = [todo EXCEPT ![s] = {b \in listeners[s] : ChannelOf[b] = frame[s].chan}]
      /\ UNCHANGED <<registry, pc, session, seen, frame, received, pipe>>
  BY DEF Snapshot, ReaderGoto, regVars, busVars, queueVars, devVars
<1>2. todo'[s] = {b \in Buses : session[b] = s /\ Using(b) /\ ChannelOf[b] = frame[s].chan}
  BY <1>1 DEF LifeInv, ListenersExact
<1>3. todo[s] = {} BY <1>1 DEF ReaderExact
<1>4. reader'[s] = "deliver"
      /\ \A t \in Buses \ {s} : reader'[t] = reader[t] /\ todo'[t] = todo[t]
  BY <1>1 DEF LifeInv, LifeTypeOK
<1>5. PipeExact' /\ FramesInOrder' BY <1>1 DEF PipeExact, FramesInOrder, UpTo
<1>6. ReaderExact'
  <2>1. s = registry => UpTo(frame[s].chan, frame[s].n)' BY <1>1 DEF ReaderExact, UpTo
  <2>2. \A b \in todo'[s] : session'[b] = s /\ ChannelOf[b] = frame'[s].chan BY <1>1, <1>2
  <2>3. ASSUME NEW t \in Buses \ {s}
        PROVE  /\ todo'[t] # {} => reader'[t] = "deliver"
               /\ t = registry /\ reader'[t] \in {"snapshot", "deliver"}
                    => UpTo(frame[t].chan, frame[t].n)'
               /\ \A b \in todo'[t] : session'[b] = t /\ ChannelOf[b] = frame'[t].chan
    BY <1>1, <1>4 DEF ReaderExact, UpTo
  <2> QED BY <1>1, <1>4, <2>1, <2>2, <2>3 DEF ReaderExact
<1>7. NextIsNext'
  <2> SUFFICES ASSUME NEW b \in Buses, seen[b] # <<>>
               PROVE  /\ session[b] # NoBus
                      /\ Due(b)' => LastSeen(b) + 1 = frame[session[b]].n
                      /\ Using(b) /\ ~Due(b)' => UpTo(ChannelOf[b], LastSeen(b))
    BY <1>1 DEF NextIsNext, Using, LastSeen, UpTo
  <2>1. session[b] # NoBus /\ session[b] \in Buses
    BY DEF NextIsNext, LifeInv, LifeTypeOK, Sessions
  <2>2. CASE session[b] # s
    <3>1. Due(b)' <=> Due(b) BY <1>1, <1>4, <2>1, <2>2 DEF Due, Using
    <3> QED BY <2>1, <3>1 DEF NextIsNext
  <2>3. CASE session[b] = s
    <3>1. Due(b)' <=> b \in todo'[s] BY <1>1, <1>4, <2>3 DEF Due
    <3>2. Due(b)' <=> Due(b) BY <1>1, <1>2, <1>3, <2>3, <3>1 DEF Due
    <3> QED BY <2>1, <3>2 DEF NextIsNext
  <2> QED BY <2>2, <2>3
<1> QED BY <1>5, <1>6, <1>7

\* A bus object is served.
LEMMA OrderDeliver ==
  ASSUME LifeInv, FrameTypeOK, OrderInv, NEW s \in Buses, reader[s] = "deliver",
         NEW b \in todo[s], OnMessageReceived(b, frame[s].n),
         todo' = [todo EXCEPT ![s] = @ \ {b}],
         UNCHANGED <<registry, pc, session, reader, frame, received, pipe>>
  PROVE  OrderInv'
<1> USE DEF OrderInv, FrameTypeOK
<1>1. PICK n \in Nat : n = frame[s].n BY DEF Frames
<1>2. b \in Buses /\ session[b] = s /\ ChannelOf[b] = frame[s].chan BY DEF ReaderExact
<1>3. seen' = [seen EXCEPT ![b] = Append(seen[b], n)] BY <1>1 DEF OnMessageReceived
<1>4. PICK L \in Nat : L = Len(seen[b]) BY <1>2, LenProperties
<1>5. /\ seen'[b] \in Seq(Nat) /\ Len(seen'[b]) = L + 1 /\ seen'[b][L + 1] = n
      /\ \A i \in 1 .. L : seen'[b][i] = seen[b][i]
      /\ \A d \in Buses \ {b} : seen'[d] = seen[d]
  <2>1. seen'[b] = Append(seen[b], n) /\ seen[b] \in Seq(Nat) BY <1>2, <1>3
  <2>2. \A d \in Buses \ {b} : seen'[d] = seen[d] BY <1>3
  <2> QED BY <1>4, <2>1, <2>2, AppendProperties
<1>6. /\ todo'[s] = todo[s] \ {b} /\ todo[s] # {}
      /\ \A t \in Buses \ {s} : todo'[t] = todo[t]
  OBVIOUS
<1>7. Using(b) => UpTo(frame[s].chan, frame[s].n)
  <2>1. Using(b) => s = registry BY <1>2 DEF LifeInv, OneSession
  <2> QED BY <2>1 DEF ReaderExact
<1>8. PipeExact' BY DEF PipeExact, UpTo
<1>9. ReaderExact'
  <2>1. \A t \in Buses : t = registry /\ reader'[t] \in {"snapshot", "deliver"}
                           => UpTo(frame[t].chan, frame[t].n)'
    BY DEF ReaderExact, UpTo
  <2>2. \A t \in Buses : todo'[t] # {} => reader'[t] = "deliver" BY <1>6 DEF ReaderExact
  <2>3. \A t \in Buses : \A d \in todo'[t] : session'[d] = t /\ ChannelOf[d] = frame'[t].chan
    <3>1. \A t \in Buses : todo'[t] \subseteq todo[t] BY <1>6
    <3>2. \A t \in Buses : \A d \in todo[t] : session'[d] = t /\ ChannelOf[d] = frame'[t].chan
      BY DEF ReaderExact
    <3> QED BY <3>1, <3>2
  <2> QED BY <2>1, <2>2, <2>3 DEF ReaderExact
<1>10. seen[b] # <<>> => seen[b][L] + 1 = n
  BY <1>1, <1>2, <1>4 DEF NextIsNext, Due, LastSeen
<1>11. FramesInOrder'
  <2> SUFFICES ASSUME NEW d \in Buses, NEW i \in 1 .. Len(seen'[d]) - 1
               PROVE  seen'[d][i + 1] = seen'[d][i] + 1
    BY DEF FramesInOrder
  <2>1. CASE d # b
    <3>1. seen'[d] = seen[d] BY <1>5, <2>1
    <3>2. i \in 1 .. Len(seen[d]) - 1 BY <3>1
    <3> QED BY <3>1, <3>2 DEF FramesInOrder
  <2>2. CASE d = b /\ i = L
    <3>1. L \in 1 .. L /\ seen[b] # <<>> BY <1>2, <1>4, <1>5, <2>2, EmptySeq
    <3> QED BY <1>5, <1>10, <2>2, <3>1
  <2>3. CASE d = b /\ i # L
    <3>1. Len(seen'[d]) = L + 1 BY <1>5, <2>3
    <3>2. i \in 1 .. L + 1 - 1 /\ i # L BY <2>3, <3>1
    <3>3. i \in 1 .. L - 1 /\ i \in 1 .. L /\ i + 1 \in 1 .. L BY <3>2
    <3>4. i \in 1 .. Len(seen[b]) - 1 BY <1>4, <3>3
    <3>5. seen[b][i + 1] = seen[b][i] + 1 BY <1>2, <3>4 DEF FramesInOrder
    <3> QED BY <1>5, <2>3, <3>3, <3>5
  <2> QED BY <2>1, <2>2, <2>3
<1>12. NextIsNext'
  <2> SUFFICES ASSUME NEW d \in Buses, seen'[d] # <<>>
               PROVE  /\ session[d] # NoBus
                      /\ Due(d)' => LastSeen(d)' + 1 = frame[session[d]].n
                      /\ Using(d) /\ ~Due(d)' => UpTo(ChannelOf[d], LastSeen(d)')
    BY DEF NextIsNext, Using, UpTo
  <2>1. CASE d = b
    <3>1. LastSeen(b)' = n BY <1>5 DEF LastSeen
    <3>2. ~Due(b)' BY <1>2, <1>6 DEF Due
    <3> QED BY <1>1, <1>2, <1>7, <2>1, <3>1, <3>2
  <2>2. CASE d # b
    <3>1. seen[d] # <<>> /\ LastSeen(d)' = LastSeen(d) BY <1>5, <2>2 DEF LastSeen
    <3>2. session[d] \in Buses BY <3>1 DEF NextIsNext, LifeInv, LifeTypeOK, Sessions
    <3>3. Due(d)' <=> Due(d) BY <1>6, <2>2, <3>2 DEF Due, Using
    <3> QED BY <3>1, <3>3 DEF NextIsNext
  <2> QED BY <2>1, <2>2
<1> QED BY <1>8, <1>9, <1>11, <1>12

LEMMA OrderStep ==
  ASSUME ShutdownOnce, LifeInv, FrameTypeOK, OrderInv, [Next]_vars PROVE OrderInv'
<1> USE DEF LifeInv, LifeTypeOK, Pcs
<1>1. ASSUME NEW b \in Buses, Join(b) \/ CreateSession(b) PROVE Quiet
  <2>1. PICK s \in Buses : AddBus(b, s) BY <1>1 DEF Join, CreateSession, Sessions
  <2>2. UNCHANGED <<seen, frame, todo, received, pipe>>
    BY <1>1 DEF Join, CreateSession, readerVars, devVars
  <2>3. session[b] = NoBus BY <1>1 DEF Join, CreateSession, OneSession
  <2>4. \A d \in Buses : session[d] # NoBus => session'[d] = session[d] /\ pc'[d] = pc[d]
    BY <1>1, <2>1, <2>3 DEF Join, CreateSession, AddBus, Goto
  <2>5. \A t \in Buses :
         \/ reader'[t] = reader[t] /\ (t = registry' => t = registry)
         \/ reader'[t] \notin {"snapshot", "deliver"} /\ reader[t] # "snapshot" /\ todo[t] = {}
    <3>1. CASE Join(b) BY <3>1 DEF Join, readerVars, regVars
    <3>2. CASE CreateSession(b)
      <4>1. reader[b] = "none" BY <2>3 DEF OneReader
      <4>2. todo[b] = {} BY <4>1 DEF OrderInv, ReaderExact
      <4> QED BY <3>2, <4>1, <4>2 DEF CreateSession
    <3> QED BY <1>1, <3>1, <3>2
  <2> QED BY <2>2, <2>4, <2>5 DEF Quiet, Using
<1>2. ASSUME NEW b \in Buses, NEW to \in Pcs, pc' = [pc EXCEPT ![b] = to],
             pc[b] \in {"configure", "open", "shutdown", "remove"}
               \/ to \in {"failed", "leaked", "shut", "join"},
             registry' \in {registry, NoBus},
             UNCHANGED <<session, seen, reader, frame, todo, received, pipe>>
      PROVE  Quiet
  <2>1. \A d \in Buses : Using(d)' => Using(d) BY <1>2 DEF Using
  <2> QED BY <1>2, <2>1 DEF Quiet
<1>3. ASSUME UNCHANGED <<registry, pc, session, seen, reader, frame, todo, received, pipe>>
      PROVE  Quiet
  BY <1>3 DEF Quiet, Using
<1>4. ASSUME NEW b \in Buses, Thread(b) PROVE Quiet
  <2> USE DEF Goto, regVars, busVars, queueVars, readerVars, devVars
  <2>1. CASE SessionFails(b) BY <1>2, <2>1 DEF SessionFails
  <2>7. CASE CreateSessionLeaks(b) BY <1>2, <2>7 DEF CreateSessionLeaks
  <2>2. CASE ConfigureStep(b)
    <3>1. /\ UNCHANGED <<registry, session, seen, reader, frame, todo, received, pipe>>
          /\ pc[b] = "configure"
      BY <2>2 DEF ConfigureStep
    <3>2. UNCHANGED pc \/ pc' = [pc EXCEPT ![b] = "open"] BY <2>2 DEF ConfigureStep
    <3> QED BY <1>2, <1>3, <3>1, <3>2
  <2>3. CASE ConfigureFails(b) BY <1>2, <2>3 DEF ConfigureFails
  <2>4. CASE CloseChannel(b) BY <1>2, <2>4 DEF CloseChannel
  <2>5. CASE RemoveBus(b)
    <3>1. /\ UNCHANGED <<registry, session, seen, reader, frame, todo, received, pipe>>
          /\ pc[b] = "remove"
      BY <2>5 DEF RemoveBus
    <3>2. pc' = [pc EXCEPT ![b] = "join"] \/ pc' = [pc EXCEPT ![b] = "shut"]
      BY <2>5 DEF RemoveBus
    <3> QED BY <1>2, <3>1, <3>2
  <2>6. CASE CloseSession(b) BY <1>2, <2>6 DEF CloseSession
  <2> QED BY <1>1, <1>4, <2>1, <2>2, <2>3, <2>4, <2>5, <2>6, <2>7 DEF Thread
<1>5. ASSUME NEW b \in Buses, Recv(b) \/ Shutdown(b) \/ CollectDevice(b) PROVE Quiet
  <2> USE DEF regVars, busVars, queueVars, readerVars, devVars
  <2>1. CASE Recv(b) BY <1>3, <2>1 DEF Recv
  <2>2. CASE Shutdown(b) BY <1>2, <2>2 DEF Shutdown, Goto
  <2>3. CASE CollectDevice(b) BY <1>3, <2>3 DEF CollectDevice
  <2> QED BY <1>5, <2>1, <2>2, <2>3
<1>6. ASSUME NEW s \in Buses, NEW to \in {"loop", "read", "ended"},
             reader' = [reader EXCEPT ![s] = to], reader[s] # "snapshot", todo[s] = {},
             UNCHANGED <<registry, pc, session, seen, frame, todo, received, pipe>>
      PROVE  Quiet
  BY <1>6 DEF Quiet, Using
<1>7. ASSUME NEW s \in Buses, Reader(s) PROVE OrderInv'
  <2> USE DEF ReaderGoto, regVars, busVars, queueVars, devVars
  <2>1. CASE TestRunning(s)
    <3>1. todo[s] = {} BY <2>1 DEF TestRunning, OrderInv, ReaderExact
    <3>2. PICK to \in {"loop", "read", "ended"} : reader' = [reader EXCEPT ![s] = to]
      BY <2>1 DEF TestRunning
    <3> QED BY <1>6, <2>1, <3>1, <3>2, QuietStep DEF TestRunning
  <2>2. CASE ReadFails(s)
    <3>1. todo[s] = {} BY <2>2 DEF ReadFails, OrderInv, ReaderExact
    <3> QED BY <1>6, <2>2, <3>1, QuietStep DEF ReadFails
  <2>3. CASE Deliver(s)
    <3>1. CASE todo[s] = {}
      BY <1>6, <2>3, <3>1, QuietStep DEF Deliver
    <3>2. CASE todo[s] # {}
      BY <2>3, <3>2, OrderDeliver DEF Deliver
    <3> QED BY <3>1, <3>2
  <2> QED BY <1>7, <2>1, <2>2, <2>3, OrderRead, OrderSnapshot DEF Reader
<1>8. ASSUME NEW b \in Buses, Send(b) PROVE OrderInv'
  BY <1>8, OrderReceive DEF Send, regVars, busVars, queueVars, readerVars
<1>9. ASSUME NEW c \in Channels, Receive(c) PROVE OrderInv'
  BY <1>9, OrderReceive DEF Receive, regVars, busVars, queueVars, readerVars
<1>10. CASE UNCHANGED vars
  BY <1>3, <1>10, QuietStep DEF vars, regVars, busVars, queueVars, readerVars, devVars
<1> QED BY <1>4, <1>5, <1>7, <1>8, <1>9, <1>10, QuietStep DEF Next, Application

LEMMA OrderInit == Init => OrderInv
<1> SUFFICES ASSUME Init PROVE OrderInv
  OBVIOUS
<1>1. pipe = <<>> /\ DOMAIN pipe = {} BY DEF Init
<1>2. Ordered(pipe) /\ \A c \in Channels : Numbers(pipe, c) = {} BY <1>1 DEF Ordered, Numbers
<1>3. \A c \in Channels : received[c] = 0 BY DEF Init
<1>4. PipeExact
  <2>1. ASSUME NEW c \in Channels PROVE UpTo(c, 0) /\ 0 \in 0 .. received[c]
    <3>1. PICK r \in Nat : r = received[c] /\ r = 0 BY <1>3
    <3>2. 0 + 1 .. r = {} BY <3>1
    <3>3. Numbers(pipe, c) = 0 + 1 .. received[c] BY <1>2, <3>1, <3>2
    <3>4. 0 <= received[c] /\ 0 \in 0 .. received[c] BY <3>1
    <3>5. UpTo(c, 0) BY <3>3, <3>4, Zenon DEF UpTo
    <3> QED BY <3>4, <3>5
  <2> QED BY <1>2, <2>1 DEF PipeExact
<1>5. ReaderExact /\ NextIsNext BY DEF Init, ReaderExact, NextIsNext
<1>6. FramesInOrder
  <2>1. Len(<<>>) = 0 BY EmptySeq
  <2> QED BY <2>1 DEF Init, FramesInOrder
<1> QED BY <1>4, <1>5, <1>6 DEF OrderInv

\* A bus object gets the frames of its channel in the order of the bus, none twice and
\* none left out in between, whatever other bus objects come and go, on its channel
\* too, while the reader thread serves its copy of the listeners.
THEOREM FramesOrdered == ASSUME ShutdownOnce PROVE Spec => []FramesInOrder
<1>1. /\ LifeInv /\ (FrameTypeOK /\ QueuesAreSuffixes) /\ OrderInv /\ [Next]_vars
      => OrderInv'
  BY OrderStep
<1>2. OrderInv => FramesInOrder BY DEF OrderInv
<1> QED BY <1>1, <1>2, OrderInit, LifeInvariant, FrameTypes, PTL DEF Spec
=============================================================================
