-------------------------- MODULE HotReloadProofs --------------------------
(***************************************************************************)
(* Proofs about HotReload, for any number of generations, reload requests  *)
(* and versions, any listener failing to start at any time.                *)
(***************************************************************************)
EXTENDS HotReload, TLAPS

LEMMA InitTypeOK == Init => TypeOK
  BY BoundAssumption DEF Init, TypeOK, Generation, Started, Listener,
     ListenerState, SignalState, None

\* Signals that have been dropped or sent are still signals.
LEMMA SignalTypes ==
  ASSUME NEW s \in [Listener -> SignalState]
  PROVE  /\ Dropped(s) \in [Listener -> SignalState]
         /\ Sent(s) \in [Listener -> SignalState]
         /\ [s EXCEPT !["http"] = "dropped"] \in [Listener -> SignalState]
         /\ [Sent(s) EXCEPT !["https"] = "dropped"] \in [Listener -> SignalState]
  BY DEF Dropped, Sent, SignalState, Listener

\* A generation that a request started, or the manager's, is a generation.
LEMMA StartedGenerations ==
  ASSUME TypeOK
  PROVE  /\ Started \subseteq Generation
         /\ manager \in Generation
         /\ \A r \in Reloader : reload[r] # None => reload[r] \in Generation
  BY BoundAssumption DEF TypeOK, Started, Generation, None

LEMMA StepTypeOK == TypeOK /\ [Next]_vars => TypeOK'
<1> SUFFICES ASSUME TypeOK, [Next]_vars PROVE TypeOK'
  OBVIOUS
<1>0. /\ manager \in Generation
      /\ \A r \in Reloader : reload[r] # None => reload[r] \in Generation
  BY StartedGenerations
<1>3. ASSUME NEW r \in Reloader, Start(r) PROVE TypeOK'
  <2>1. PICK L \in SUBSET Listener : Start(r)!3!(L)
    BY <1>3 DEF Start
  <2>2. gens' = gens + 1 /\ gens + 1 \in Generation
    BY <1>3, <2>1, BoundAssumption DEF Start, TypeOK, Generation
  <2>3. /\ [l \in Listener |-> IF l \in L THEN "starting" ELSE "off"] \in [Listener -> ListenerState]
        /\ [l \in Listener |-> IF l \in L THEN "held" ELSE "none"] \in [Listener -> SignalState]
    BY DEF ListenerState, SignalState
  <2>4. listens' \in [Generation -> SUBSET Listener]
    BY <2>1, <2>2 DEF TypeOK
  <2>5. /\ listener' \in [Generation -> [Listener -> ListenerState]]
        /\ signal' \in [Generation -> [Listener -> SignalState]]
    BY <2>1, <2>2, <2>3 DEF TypeOK
  <2>6. manager' \in Started' /\ reload' \in [Reloader -> Started' \cup {None}]
    BY <1>3, <2>1, <2>2 DEF Start, TypeOK, Started, Generation
  <2> QED BY <1>3, <2>2, <2>4, <2>5, <2>6 DEF Start, TypeOK
<1>4. ASSUME NEW r \in Reloader, Swap(r) \/ SwapFail(r) \/ Cancel(r) PROVE TypeOK'
  <2>1. reload[r] # None /\ reload[r] \in Generation
    BY <1>0, <1>4 DEF Swap, SwapFail, Cancel, Slept
  <2>2. signal' \in [Generation -> [Listener -> SignalState]]
    <3>1. \A g \in Generation : signal[g] \in [Listener -> SignalState]
      BY DEF TypeOK
    <3>2. CASE Swap(r)
      BY <1>0, <3>1, <3>2, SignalTypes DEF Swap, TypeOK
    <3>3. CASE Cancel(r)
      BY <2>1, <3>1, <3>3, SignalTypes DEF Cancel, TypeOK
    <3>4. CASE SwapFail(r)
      <4> DEFINE s == [signal EXCEPT ![manager] = HalfSent]
      <4>1. s \in [Generation -> [Listener -> SignalState]]
        BY <1>0, <3>1, SignalTypes DEF TypeOK, HalfSent
      <4>2. Dropped(s[reload[r]]) \in [Listener -> SignalState]
        BY <2>1, <4>1, SignalTypes
      <4>3. signal' = [s EXCEPT ![reload[r]] = Dropped(@)]
        BY <3>4 DEF SwapFail
      <4> QED BY <2>1, <4>1, <4>2, <4>3
    <3> QED BY <1>4, <3>2, <3>3, <3>4
  <2>3. manager' \in Started /\ reload' \in [Reloader -> Started \cup {None}]
    BY <1>4, <2>1 DEF Swap, SwapFail, Cancel, Answer, TypeOK
  <2> QED BY <1>4, <2>2, <2>3 DEF Swap, SwapFail, Cancel, Answer, TypeOK, Started
<1>5. ASSUME NEW g \in Generation, NEW l \in Listener, Run(g, l) PROVE TypeOK'
  <2>1. PICK s \in ListenerState : Become(g, l, s)
    BY <1>5 DEF Run, Listen, FailToStart, Stop, ListenerState
  <2> QED BY <2>1 DEF Become, TypeOK, Started
<1>6. CASE UNCHANGED vars
  BY <1>6 DEF vars, TypeOK, Started
<1> QED BY <1>3, <1>4, <1>5, <1>6 DEF Next, Request

\* Types: every state of every behaviour has the type TypeOK states.
THEOREM TypeCorrect == Spec => []TypeOK
  BY InitTypeOK, StepTypeOK, PTL DEF Spec

-----------------------------------------------------------------------------
LEMMA InitOwned == Init => Owned
  BY BoundAssumption DEF Init, Owned, Generation, Listener

\* A signal is never held again once it is not, and never becomes "none".
LEMMA SignalFacts ==
  ASSUME NEW s \in [Listener -> SignalState], NEW l \in Listener
  PROVE  /\ Dropped(s)[l] # "held" /\ (Dropped(s)[l] = "none" => s[l] = "none")
         /\ Sent(s)[l] # "held" /\ (Sent(s)[l] = "none" => s[l] = "none")
  BY DEF Dropped, Sent

LEMMA StepOwned == TypeOK /\ Owned /\ [Next]_vars => Owned'
<1> SUFFICES ASSUME TypeOK, Owned, [Next]_vars,
                    NEW g \in Generation, NEW l \in Listener
             PROVE  /\ signal'[g][l] = "held" => g = manager' \/ InFlight(g)'
                    /\ signal'[g][l] = "none" => listener'[g][l] = "off"
  BY DEF Owned
<1>0. /\ manager \in Generation
      /\ \A r \in Reloader : reload[r] # None => reload[r] \in Generation
      /\ \A h \in Generation : signal[h] \in [Listener -> SignalState]
      /\ \A r \in Reloader : reload[r] \in Started \cup {None}
  BY StartedGenerations DEF TypeOK
<1>1. CASE UNCHANGED vars
  BY <1>1 DEF vars, Owned, InFlight
<1>2. ASSUME NEW r \in Reloader, Start(r)
      PROVE  /\ signal'[g][l] = "held" => g = manager' \/ InFlight(g)'
             /\ signal'[g][l] = "none" => listener'[g][l] = "off"
  <2>1. PICK L \in SUBSET Listener : Start(r)!3!(L)
    BY <1>2 DEF Start
  <2>2. gens + 1 \in Generation /\ reload[r] = None /\ manager' = manager
    BY <1>2, BoundAssumption DEF Start, TypeOK, Generation
  <2>3. CASE g = gens + 1
    <3>1. reload'[r] = g
      BY <2>1, <2>3 DEF TypeOK
    <3>2. signal'[g][l] = "none" => listener'[g][l] = "off"
      BY <2>1, <2>2, <2>3 DEF TypeOK
    <3> QED BY <3>1, <3>2 DEF InFlight
  <2>4. CASE g # gens + 1
    <3>1. signal'[g] = signal[g] /\ listener'[g] = listener[g]
      BY <2>1, <2>2, <2>4 DEF TypeOK
    <3>2. InFlight(g) => InFlight(g)'
      <4>1. \A q \in Reloader : reload[q] = g => reload'[q] = g
        BY <2>1, <2>2, BoundAssumption DEF TypeOK, None, Generation
      <4> QED BY <4>1 DEF InFlight
    <3> QED BY <2>2, <3>1, <3>2 DEF Owned
  <2> QED BY <2>3, <2>4
<1>3. ASSUME NEW r \in Reloader, Swap(r) \/ SwapFail(r) \/ Cancel(r)
      PROVE  /\ signal'[g][l] = "held" => g = manager' \/ InFlight(g)'
             /\ signal'[g][l] = "none" => listener'[g][l] = "off"
  <2>1. reload[r] # None /\ reload[r] \in Generation /\ listener' = listener
    BY <1>0, <1>3 DEF Swap, SwapFail, Cancel, Slept, Answer
  <2>2. g # reload[r] /\ InFlight(g) => InFlight(g)'
    BY <1>3, <2>1 DEF Swap, SwapFail, Cancel, Answer, InFlight, TypeOK
  <2>3. CASE Swap(r)
    <3>1. signal'[g] = IF g = manager THEN Sent(signal[g]) ELSE signal[g]
      BY <1>0, <2>3 DEF Swap, TypeOK
    <3>2. manager' = reload[r]
      BY <2>3 DEF Swap
    <3> QED BY <1>0, <2>1, <2>2, <3>1, <3>2, SignalFacts DEF Owned
  <2>4. CASE Cancel(r)
    <3>1. signal'[g] = IF g = reload[r] THEN Dropped(signal[g]) ELSE signal[g]
      BY <2>1, <2>4 DEF Cancel, TypeOK
    <3>2. manager' = manager
      BY <2>4 DEF Cancel
    <3> QED BY <1>0, <2>1, <2>2, <3>1, <3>2, SignalFacts DEF Owned
  <2>5. CASE SwapFail(r)
    <3> DEFINE s == IF g = manager THEN HalfSent ELSE signal[g]
    <3>1. HalfSent \in [Listener -> SignalState] /\ s \in [Listener -> SignalState]
      BY <1>0, SignalTypes DEF HalfSent
    <3>2. signal'[g] = IF g = reload[r] THEN Dropped(s) ELSE s
      BY <1>0, <2>1, <2>5 DEF SwapFail, TypeOK
    <3>3. s[l] = "none" => signal[g][l] = "none"
      BY <1>0, SignalFacts DEF HalfSent, Listener, Sent
    <3>4. s[l] = "held" => signal[g][l] = "held"
      BY <1>0, SignalFacts DEF HalfSent, Listener, Sent
    <3>5. manager' = manager
      BY <2>5 DEF SwapFail
    <3>6. /\ Dropped(s)[l] # "held"
          /\ Dropped(s)[l] = "none" => s[l] = "none"
      BY <3>1, SignalFacts
    <3> HIDE DEF s
    <3> QED BY <2>1, <2>2, <3>2, <3>3, <3>4, <3>5, <3>6 DEF Owned
  <2> QED BY <1>3, <2>3, <2>4, <2>5
<1>4. ASSUME NEW h \in Generation, NEW k \in Listener, Run(h, k)
      PROVE  /\ signal'[g][l] = "held" => g = manager' \/ InFlight(g)'
             /\ signal'[g][l] = "none" => listener'[g][l] = "off"
  <2>1. /\ UNCHANGED <<signal, manager, reload>>
        /\ g = h /\ l = k => listener[g][l] # "off"
        /\ ~(g = h /\ l = k) => listener'[g][l] = listener[g][l]
    BY <1>4 DEF Run, Listen, FailToStart, Stop, Become, TypeOK
  <2> QED BY <2>1 DEF Owned, InFlight
<1> QED BY <1>1, <1>2, <1>3, <1>4 DEF Next, Request

LEMMA OwnedIsEnough == TypeOK /\ Owned => NoOrphan
  BY DEF TypeOK, Owned, NoOrphan, Alive, SignalState

\* No reload, failed, cancelled or overlapping with others, ever leaves a
\* listener running that nobody can stop.
THEOREM NoOrphans == Spec => []NoOrphan
<1>1. Init => TypeOK /\ Owned
  BY InitTypeOK, InitOwned
<1>2. TypeOK /\ Owned /\ [Next]_vars => (TypeOK /\ Owned)'
  BY StepTypeOK, StepOwned
<1> QED BY <1>1, <1>2, OwnedIsEnough, PTL DEF Spec

-----------------------------------------------------------------------------
(* What an uninterrupted service rests on: the listeners of a generation   *)
(* follow its signals, a generation that a reload has started is new and   *)
(* has all its senders, and the senders of the manager are used up only    *)
(* when one of its listeners had failed.                                   *)

StopSignal == {"sent", "dropped"}

FollowSignals ==
    \A g \in Generation, l \in Listener :
       /\ listener[g][l] = "stopped" => signal[g][l] \in StopSignal
       /\ listener[g][l] = "off" => signal[g][l] = "none"
       /\ l \in listens[g] => listener[g][l] # "off"
       /\ g \notin Started => listener[g][l] = "off"

PendingIsNew ==
    /\ \A r \in Reloader : reload[r] # None =>
          /\ reload[r] # manager
          /\ \A l \in Listener : signal[reload[r]][l] \notin StopSignal
    /\ \A r, q \in Reloader : reload[r] = reload[q] /\ r # q => reload[r] = None

Broken(g) == \E k \in Listener : listener[g][k] = "failed"
ManagerCanSend == (\E l \in Listener : signal[manager][l] \in StopSignal) => Broken(manager)

ServeInv == FollowSignals /\ PendingIsNew /\ ManagerCanSend

LEMMA InitServe == Init => ServeInv
  BY BoundAssumption DEF Init, ServeInv, FollowSignals, PendingIsNew, ManagerCanSend,
     StopSignal, Generation, Started, Listener, None

\* What sending and dropping leaves of a generation's signals.
LEMMA StopFacts ==
  ASSUME NEW s \in [Listener -> SignalState], NEW l \in Listener
  PROVE  /\ s[l] \in StopSignal => Dropped(s)[l] = s[l] /\ Sent(s)[l] = s[l]
         /\ s[l] = "none" => Dropped(s)[l] = "none" /\ Sent(s)[l] = "none"
  BY DEF Dropped, Sent, StopSignal

LEMMA ServeStart ==
  ASSUME TypeOK, ServeInv, NEW r \in Reloader, Start(r)
  PROVE  ServeInv'
<1>1. PICK L \in SUBSET Listener : Start(r)!3!(L)
  BY DEF Start
<1>2. /\ gens + 1 \in Generation \ Started
      /\ manager' = manager /\ manager \in Started /\ Started \subseteq Generation
      /\ reload[r] = None /\ None \notin Started
      /\ \A q \in Reloader : reload[q] \in Started \cup {None}
  BY BoundAssumption DEF Start, TypeOK, Generation, Started, None
<1>3. \A g \in Generation : g # gens + 1 =>
          /\ signal'[g] = signal[g] /\ listener'[g] = listener[g] /\ listens'[g] = listens[g]
  BY <1>1 DEF TypeOK
<1>4. /\ signal'[gens + 1] = [l \in Listener |-> IF l \in L THEN "held" ELSE "none"]
      /\ listener'[gens + 1] = [l \in Listener |-> IF l \in L THEN "starting" ELSE "off"]
      /\ listens'[gens + 1] = L
  BY <1>1, <1>2 DEF TypeOK
<1>5. reload' = [reload EXCEPT ![r] = gens + 1] /\ gens' = gens + 1
  BY <1>1
<1>6. FollowSignals'
  <2>1. \A g \in Generation : g \notin Started' => g # gens + 1 /\ g \notin Started
    BY <1>2, <1>5, BoundAssumption DEF Started, TypeOK, Generation
  <2> QED
    BY <1>3, <1>4, <2>1 DEF FollowSignals, ServeInv, StopSignal
<1>7. PendingIsNew'
  <2>1. \A q \in Reloader : reload'[q] = IF q = r THEN gens + 1 ELSE reload[q]
    BY <1>5 DEF TypeOK
  <2>2. \A q \in Reloader : q # r /\ reload'[q] # None =>
           reload[q] \in Generation /\ reload[q] # gens + 1
    BY <1>2, <2>1
  <2> QED
    BY <1>2, <1>3, <1>4, <2>1, <2>2 DEF PendingIsNew, ServeInv, StopSignal
<1>8. ManagerCanSend'
  BY <1>2, <1>3 DEF ManagerCanSend, Broken, ServeInv
<1> QED
  BY <1>6, <1>7, <1>8 DEF ServeInv

\* Steps that only use up signals, of the manager or of a reload that ends.
LEMMA ServeEnd ==
  ASSUME TypeOK, ServeInv, NEW r \in Reloader, Swap(r) \/ SwapFail(r) \/ Cancel(r)
  PROVE  ServeInv'
<1>1. /\ reload[r] # None /\ reload[r] \in Generation /\ manager \in Generation
      /\ reload[r] # manager
      /\ \A g \in Generation : signal[g] \in [Listener -> SignalState]
      /\ \A q \in Reloader : reload[q] # None => reload[q] \in Generation
  BY StartedGenerations DEF Swap, SwapFail, Cancel, Slept, ServeInv, PendingIsNew, TypeOK
<1>2. /\ reload' = [reload EXCEPT ![r] = None]
      /\ UNCHANGED <<gens, listens, listener>>
  BY DEF Swap, SwapFail, Cancel, Answer
<1>3. /\ \A q \in Reloader : reload'[q] # None => q # r /\ reload'[q] = reload[q]
                                                 /\ reload[q] # reload[r]
      /\ \A q, p \in Reloader : reload'[q] = reload'[p] /\ q # p => reload'[q] = None
  BY <1>1, <1>2 DEF TypeOK, ServeInv, PendingIsNew
<1>4. CASE Swap(r)
  <2>1. /\ \A g \in Generation : signal'[g] = IF g = manager THEN Sent(signal[g]) ELSE signal[g]
        /\ manager' = reload[r]
    BY <1>1, <1>4 DEF Swap, TypeOK
  <2>2. FollowSignals'
    BY <1>1, <1>2, <2>1, StopFacts DEF FollowSignals, ServeInv, Started
  <2>3. PendingIsNew'
    BY <1>1, <1>3, <2>1 DEF PendingIsNew, ServeInv
  <2>4. ManagerCanSend'
    BY <1>1, <2>1 DEF ManagerCanSend, PendingIsNew, ServeInv
  <2> QED
    BY <2>2, <2>3, <2>4 DEF ServeInv
<1>5. CASE Cancel(r)
  <2>1. /\ \A g \in Generation : signal'[g] = IF g = reload[r] THEN Dropped(signal[g]) ELSE signal[g]
        /\ manager' = manager
    BY <1>1, <1>5 DEF Cancel, TypeOK
  <2>2. FollowSignals'
    BY <1>1, <1>2, <2>1, StopFacts DEF FollowSignals, ServeInv, Started
  <2>3. PendingIsNew'
    BY <1>1, <1>3, <2>1 DEF PendingIsNew, ServeInv
  <2>4. ManagerCanSend'
    BY <1>1, <1>2, <2>1 DEF ManagerCanSend, Broken, ServeInv
  <2> QED
    BY <2>2, <2>3, <2>4 DEF ServeInv
<1>6. CASE SwapFail(r)
  <2>1. PICK k \in Listener : Unsendable(k)
    BY <1>6 DEF SwapFail, Sendable
  <2>2. listener[manager][k] = "failed"
    BY <1>1, <2>1 DEF Unsendable, Alive, TypeOK, ListenerState, ServeInv, FollowSignals, StopSignal
  <2>3. HalfSent \in [Listener -> SignalState]
    BY <1>1, SignalTypes DEF HalfSent
  <2>4. \A l \in Listener :
           /\ signal[manager][l] \in StopSignal => HalfSent[l] \in StopSignal
           /\ signal[manager][l] = "none" => HalfSent[l] = "none"
    <3>1. CASE Unsendable("http")
      BY <1>1, <3>1 DEF HalfSent, Unsendable, StopSignal, Listener
    <3>2. CASE ~Unsendable("http")
      BY <1>1, <2>1, <3>2 DEF HalfSent, Unsendable, StopSignal, Listener, Sent
    <3> QED
      BY <3>1, <3>2
  <2>5. /\ \A g \in Generation :
              signal'[g] = IF g = manager THEN HalfSent
                           ELSE IF g = reload[r] THEN Dropped(signal[g]) ELSE signal[g]
        /\ manager' = manager
    BY <1>1, <1>6 DEF SwapFail, TypeOK
  <2>6. FollowSignals'
    BY <1>1, <1>2, <2>4, <2>5, StopFacts DEF FollowSignals, ServeInv, Started
  <2>7. PendingIsNew'
    BY <1>1, <1>3, <2>5 DEF PendingIsNew, ServeInv
  <2>8. ManagerCanSend'
    BY <1>2, <2>2, <2>5 DEF ManagerCanSend, Broken
  <2> QED
    BY <2>6, <2>7, <2>8 DEF ServeInv
<1> QED
  BY <1>4, <1>5, <1>6

LEMMA ServeRun ==
  ASSUME TypeOK, ServeInv, NEW h \in Generation, NEW k \in Listener, Run(h, k)
  PROVE  ServeInv'
<1>1. PICK s \in {"listening", "failed", "stopped"} :
          /\ Become(h, k, s)
          /\ s = "stopped" => signal[h][k] \in StopSignal
          /\ listener[h][k] \notin {"off", "failed"}
  BY DEF Run, Listen, FailToStart, Stop, StopSignal
<1>2. /\ UNCHANGED <<gens, listens, signal, manager, reload>>
      /\ manager \in Generation
      /\ \A g \in Generation, l \in Listener :
            listener'[g][l] = IF g = h /\ l = k THEN s ELSE listener[g][l]
  BY <1>1, StartedGenerations DEF Become, TypeOK
<1>3. FollowSignals'
  BY <1>1, <1>2 DEF FollowSignals, ServeInv, Started
<1>4. PendingIsNew'
  BY <1>2 DEF PendingIsNew, ServeInv
<1>5. ManagerCanSend'
  BY <1>1, <1>2 DEF ManagerCanSend, Broken, ServeInv
<1> QED
  BY <1>3, <1>4, <1>5 DEF ServeInv

LEMMA StepServe == TypeOK /\ ServeInv /\ [Next]_vars => ServeInv'
<1>1. TypeOK /\ ServeInv /\ Next => ServeInv'
  BY ServeStart, ServeEnd, ServeRun DEF Next, Request
<1>2. ServeInv /\ UNCHANGED vars => ServeInv'
  BY DEF ServeInv, FollowSignals, PendingIsNew, ManagerCanSend, Broken, Started, vars
<1> QED
  BY <1>1, <1>2

\* Only a listener that stops takes a port away.
LEMMA KeptOrExcused ==
  ASSUME TypeOK, ServeInv, [Next]_vars, NEW l \in Listener,
         Served(l), l \in listens[manager'], ~Served(l)'
  PROVE  listener[manager][l] = "starting" \/ Broken(manager)
<1>1. PICK h \in Generation : listener[h][l] = "listening"
  BY DEF Served
<1>2. \A g \in Generation : listener'[g][l] # "listening"
  BY DEF Served
<1>3. PICK g \in Generation, k \in Listener : Run(g, k)
  <2>1. listener'[h] # listener[h]
    BY <1>1, <1>2
  <2>2. ~UNCHANGED listener
    BY <2>1
  <2>3. ASSUME NEW r \in Reloader, Start(r) PROVE FALSE
    <3>1. h \in Started
      BY <1>1 DEF ServeInv, FollowSignals
    <3>2. h # gens + 1
      BY <3>1 DEF Started, TypeOK, Generation
    <3> QED
      BY <2>1, <2>3, <3>2 DEF Start, TypeOK
  <2>4. ASSUME NEW r \in Reloader, Swap(r) \/ SwapFail(r) \/ Cancel(r) PROVE FALSE
    BY <2>2, <2>4 DEF Swap, SwapFail, Cancel, Answer
  <2> QED
    BY <2>2, <2>3, <2>4 DEF Next, Request, vars
<1>4. /\ g = h /\ k = l /\ Stop(g, l)
      /\ manager' = manager /\ manager \in Generation
  BY <1>1, <1>2, <1>3, StartedGenerations DEF Run, Listen, FailToStart, Stop, Become, TypeOK
<1>5. CASE manager = g
  BY <1>4, <1>5 DEF Stop, ServeInv, ManagerCanSend, StopSignal
<1>6. CASE manager # g
  <2>1. listener[manager][l] # "listening"
    BY <1>2, <1>4, <1>6 DEF Stop, Become, TypeOK
  <2>2. listener[manager][l] # "off"
    BY <1>4 DEF ServeInv, FollowSignals
  <2>3. listener[manager][l] = "stopped" => Broken(manager)
    BY <1>4 DEF ServeInv, FollowSignals, ManagerCanSend
  <2>4. listener[manager][l] \in ListenerState
    BY <1>4 DEF TypeOK
  <2> QED
    BY <2>1, <2>2, <2>3, <2>4 DEF ListenerState, Broken
<1> QED
  BY <1>5, <1>6

\* A reload takes a port away from visitors only when the configuration in
\* force has a listener that failed, or that had not started in time: for any
\* number of generations and of overlapping and cancelled reloads.
THEOREM ServiceGoesOn == Spec => ServedThroughout
<1>1. Init => TypeOK /\ ServeInv
  BY InitTypeOK, InitServe
<1>2. TypeOK /\ ServeInv /\ [Next]_vars => (TypeOK /\ ServeInv)'
  BY StepTypeOK, StepServe
<1>3. TypeOK /\ ServeInv /\ [Next]_vars =>
         [\A l \in Listener : Served(l) /\ l \in listens[manager'] =>
            \/ Served(l)'
            \/ listener[manager][l] = "starting"
            \/ \E k \in Listener : listener[manager][k] = "failed"]_vars
  BY KeptOrExcused DEF Broken
<1> QED
  BY <1>1, <1>2, <1>3, PTL DEF Spec, ServedThroughout

-----------------------------------------------------------------------------
(* What the answer of a reload is worth. *)

NeverFailed == \A g \in Generation, l \in Listener : listener[g][l] # "failed"

LEMMA StepNeverFailed ==
  ASSUME MayBreak = {}
  PROVE  TypeOK /\ NeverFailed /\ [Next]_vars => NeverFailed'
<1> SUFFICES ASSUME TypeOK, NeverFailed, [Next]_vars PROVE NeverFailed'
  OBVIOUS
<1>1. ASSUME NEW r \in Reloader, Start(r) PROVE NeverFailed'
  <2>1. PICK L \in SUBSET Listener :
           listener' = [listener EXCEPT ![gens + 1] = [l \in Listener |->
                           IF l \in L THEN "starting" ELSE "off"]]
    BY <1>1 DEF Start
  <2> QED
    BY <2>1 DEF NeverFailed, TypeOK
<1>2. ASSUME NEW r \in Reloader, Swap(r) \/ SwapFail(r) \/ Cancel(r) PROVE NeverFailed'
  BY <1>2 DEF Swap, SwapFail, Cancel, Answer, NeverFailed
<1>3. ASSUME NEW g \in Generation, NEW l \in Listener, Run(g, l) PROVE NeverFailed'
  <2>1. PICK s \in {"listening", "stopped"} : listener' = [listener EXCEPT ![g][l] = s]
    BY <1>3 DEF Run, Listen, FailToStart, Stop, Become
  <2> QED
    BY <2>1 DEF NeverFailed, TypeOK
<1>4. UNCHANGED vars => NeverFailed'
  BY DEF vars, NeverFailed
<1> QED
  BY <1>1, <1>2, <1>3, <1>4 DEF Next, Request

\* A listener of the generation that a reload puts in force has not been told
\* to stop, and has nothing else left to be but listening.
LEMMA NewListens ==
  ASSUME TypeOK, ServeInv, NeverFailed, StartsInTime,
         NEW r \in Reloader, Swap(r), NEW l \in listens[manager']
  PROVE  listener[manager'][l] = "listening"
<1> DEFINE g == reload[r]
<1>1. manager' = g /\ g # None /\ g \in Generation /\ l \in Listener
  BY StartedGenerations DEF Swap, Slept, TypeOK
<1>2. listener[g][l] # "starting"
  BY <1>1 DEF Swap, Slept
<1>3. listener[g][l] # "stopped"
  BY <1>1 DEF ServeInv, FollowSignals, PendingIsNew
<1>4. listener[g][l] # "off"
  BY <1>1 DEF ServeInv, FollowSignals
<1>5. listener[g][l] \in ListenerState
  BY <1>1 DEF TypeOK
<1> QED
  BY <1>1, <1>2, <1>3, <1>4, <1>5 DEF NeverFailed, ListenerState

\* Where no listener fails to start and all start within the 500 ms, a reload
\* that is answered with 200 listens, whatever other reloads overlap with it
\* or are cancelled: a failure to start, which reload_server does not see, is
\* all that is missing.
THEOREM SuccessIfNothingBreaks ==
  ASSUME MayBreak = {}, StartsInTime
  PROVE  Spec => SuccessMeansListening
<1>1. Init => TypeOK /\ ServeInv /\ NeverFailed
  <2>1. ASSUME Init PROVE NeverFailed
    <3>1. PICK F \in SUBSET (listens[1] \cap MayBreak) :
             listener = [g \in Generation |-> [l \in Listener |->
                            IF l \notin listens[g] THEN "off"
                            ELSE IF l \in F THEN "failed" ELSE "listening"]]
      BY <2>1 DEF Init
    <3> QED
      BY <3>1 DEF NeverFailed
  <2> QED
    BY <2>1, InitTypeOK, InitServe
<1>2. TypeOK /\ ServeInv /\ NeverFailed /\ [Next]_vars => (TypeOK /\ ServeInv /\ NeverFailed)'
  BY StepTypeOK, StepServe, StepNeverFailed
<1>3. TypeOK /\ ServeInv /\ NeverFailed /\ [Next]_vars =>
        [\A r \in Reloader : Swap(r) =>
           \A l \in listens[manager'] : listener[manager'][l] = "listening"]_vars
  BY NewListens DEF Swap, Answer
<1> QED
  BY <1>1, <1>2, <1>3, PTL DEF Spec, SuccessMeansListening
=============================================================================
