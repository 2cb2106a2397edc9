-------------------------- MODULE RemoteClientProofs --------------------------
(***************************************************************************)
(* Proofs about RemoteClient, for any limits and any debug actions.        *)
(***************************************************************************)
EXTENDS RemoteClient, TLAPS

(* While RemoteClient::new runs there is no heartbeat and no reconnect, and *)
(* the state is Connecting unless the monitor has found the server gone.    *)
BootInv ==
    /\ boot # "done" => hb = Off /\ recon = "idle" /\ closing = "no" /\ missed = 0
    /\ boot \in {"starting", "pinging", "answered"} =>
           state = "Connecting" \/ (state = "ServerNotRunning" /\ link = "refused")
    /\ boot = "starting" => ~monitor
    /\ boot = "failed" => state = "None" /\ ~monitor
    /\ boot = "done" => state # "Connecting"
    /\ boot = "answered" /\ ~LateExits => link \in {"alive", "silent"}

(* A reconnect task runs only where no state owns a connection; it holds no *)
(* monitor before the new proxy runs, and no heartbeat before it resynced.  *)
ReconInv ==
    /\ recon # "idle" => state \in {"Reconnecting", "ServerNotRunning", "None"}
    /\ state = "Reconnecting" => recon # "idle"
    /\ recon \in {"killing", "connecting", "failed"} => ~monitor
    /\ recon \in {"killing", "connecting", "resyncing", "failed"} => hb = Off
    /\ recon = "connected" => hb.stage # "pinging" /\ hb.missed = 0

(* After shutdown_processes only a reconnect task or the 50 ms of grace are *)
(* left, and the heartbeat that lives through them has missed nothing.      *)
ClosingInv ==
    /\ closing # "no" => boot = "done" /\ state \in {"None", "ServerNotRunning"}
    /\ closing = "lingering" => recon = "idle" /\ hb.missed = 0
    /\ closing = "lingering" /\ state = "ServerNotRunning" => Ended
    /\ hb.stage = "off" => hb = Off

IInv == TypeOK /\ NoStaleWatch /\ CountsAgree /\ BootInv /\ ReconInv /\ ClosingInv

-----------------------------------------------------------------------------
LEMMA ConstantsAssumption ==
    /\ MaxReconnectAttempts \in Nat \ {0}
    /\ MaxMissedHeartbeats \in Nat \ {0}
    /\ ForcedAttempts \subseteq Nat
    /\ 0 \in 0..MaxMissedHeartbeats
    /\ Off \in Heartbeat
    /\ \A n \in Nat : Waiting(n) \in Heartbeat
  BY MaxReconnectAttemptsAssumption, MaxMissedHeartbeatsAssumption, ForcedAttemptsAssumption
     DEF Off, Heartbeat, Waiting

(* TypeOK in two parts, for provers that are good at one or the other.      *)
Numbers ==
    /\ missed \in 0..MaxMissedHeartbeats
    /\ attempt \in 0..MaxReconnectAttempts
    /\ disconnects \in Nat
    /\ failures \in Nat

Others ==
    /\ state \in {"None", "Connecting", "Connected", "HeartbeatMissed", "Reconnecting",
                  "ReconnectExhausted", "ServerNotRunning"}
    /\ boot \in {"starting", "pinging", "answered", "done", "failed"}
    /\ link \in {"none", "alive", "silent", "exited", "refused"}
    /\ activity \in BOOLEAN
    /\ monitor \in BOOLEAN
    /\ hb \in Heartbeat
    /\ recon \in {"idle", "killing", "connecting", "resyncing", "connected", "failed"}
    /\ closing \in {"no", "lingering", "closed"}

LEMMA TypeParts == (Numbers /\ Others => TypeOK) /\ (Numbers' /\ Others' => TypeOK')
  BY DEF Numbers, Others, TypeOK

(* Losing the connection a state owns: its watch is dropped and a first, or *)
(* no, attempt is made.                                                     *)
LEMMA LoseStep ==
    ASSUME IInv, Attached, NEW prior \in Nat, DropConnection, Attempt(prior),
           UNCHANGED bootVars, failures' = failures
    PROVE  IInv'
  <1> USE ConstantsAssumption
      DEF IInv, TypeOK, NoStaleWatch, CountsAgree, BootInv, ReconInv, ClosingInv, Numbers,
          Others, Heartbeat, Off, Waiting, Attached, Ended,
          bootVars, linkVars, watchVars, reconVars, stateVars
  <1>1. CASE prior >= MaxReconnectAttempts
    <2>1. TypeOK'
      <3>1. Numbers'
        BY <1>1 DEF DropConnection, Attempt
      <3>2. Others'
        BY <1>1 DEF DropConnection, Attempt
      <3> QED
        BY <3>1, <3>2, TypeParts
    <2>2. NoStaleWatch'
      BY <1>1 DEF DropConnection, Attempt
    <2>3. CountsAgree'
      BY <1>1 DEF DropConnection, Attempt
    <2>4. BootInv'
      BY <1>1 DEF DropConnection, Attempt
    <2>5. ReconInv'
      BY <1>1 DEF DropConnection, Attempt
    <2>6. ClosingInv'
      BY <1>1 DEF DropConnection, Attempt
    <2> QED
      BY <2>1, <2>2, <2>3, <2>4, <2>5, <2>6
  <1>2. CASE prior < MaxReconnectAttempts
    <2>1. TypeOK'
      <3>1. Numbers'
        BY <1>2 DEF DropConnection, Attempt
      <3>2. Others'
        BY <1>2 DEF DropConnection, Attempt
      <3> QED
        BY <3>1, <3>2, TypeParts
    <2>2. NoStaleWatch'
      BY <1>2 DEF DropConnection, Attempt
    <2>3. CountsAgree'
      BY <1>2 DEF DropConnection, Attempt
    <2>4. BootInv'
      BY <1>2 DEF DropConnection, Attempt
    <2>5. ReconInv'
      BY <1>2 DEF DropConnection, Attempt
    <2>6. ClosingInv'
      BY <1>2 DEF DropConnection, Attempt
    <2> QED
      BY <2>1, <2>2, <2>3, <2>4, <2>5, <2>6
  <1> QED
    BY <1>1, <1>2

LEMMA BootingStep == IInv /\ Booting => IInv'
  <1> SUFFICES ASSUME IInv, Booting PROVE IInv'
    OBVIOUS
  <1> USE ConstantsAssumption
      DEF IInv, TypeOK, NoStaleWatch, CountsAgree, BootInv, ReconInv, ClosingInv, Numbers,
          Others, Heartbeat, Off, Waiting, Attached, Ended,
          bootVars, linkVars, watchVars, reconVars, stateVars
  <1>1. CASE RemoteStarted
    BY <1>1 DEF RemoteStarted
  <1>2. CASE PingAnswered
    BY <1>2 DEF PingAnswered
  <1>3. CASE StoreConnected
    BY <1>3 DEF StoreConnected
  <1>4. CASE BootFails
    BY <1>4 DEF BootFails, DropConnection
  <1> QED
    BY <1>1, <1>2, <1>3, <1>4 DEF Booting

LEMMA EnvironmentStep == IInv /\ Environment => IInv'
  <1> SUFFICES ASSUME IInv, Environment PROVE IInv'
    OBVIOUS
  <1> USE ConstantsAssumption
      DEF IInv, TypeOK, NoStaleWatch, CountsAgree, BootInv, ReconInv, ClosingInv, Numbers,
          Others, Heartbeat, Off, Waiting, Attached, Ended,
          bootVars, linkVars, watchVars, reconVars, stateVars
  <1>1. CASE LinkSilent
    BY <1>1 DEF LinkSilent
  <1>2. CASE LinkBack
    BY <1>2 DEF LinkBack
  <1>3. CASE Traffic
    BY <1>3 DEF Traffic
  <1>4. CASE LinkExits
    BY <1>4 DEF LinkExits, MayExit
  <1>5. CASE ServerGone
    BY <1>5 DEF ServerGone, MayExit
  <1> QED
    BY <1>1, <1>2, <1>3, <1>4, <1>5 DEF Environment

LEMMA MonitoringStep == IInv /\ Monitoring => IInv'
  <1> SUFFICES ASSUME IInv, Monitoring PROVE IInv'
    OBVIOUS
  <1> USE ConstantsAssumption
      DEF IInv, TypeOK, NoStaleWatch, CountsAgree, BootInv, ReconInv, ClosingInv, Numbers,
          Others, Heartbeat, Off, Waiting, Attached, Ended,
          bootVars, linkVars, watchVars, reconVars, stateVars
  <1>1. CASE MonitorExit
    <2>1. CASE Attached
      BY <1>1, <2>1, LoseStep DEF MonitorExit
    <2>2. CASE ~Attached
      BY ZenonT(30), <1>1, <2>2 DEF MonitorExit
    <2> QED
      BY <2>1, <2>2
  <1>2. CASE MonitorRefused
    <2>1. CASE Attached
      <3>1. TypeOK'
        <4>1. Numbers'
          BY <1>2, <2>1 DEF MonitorRefused, DropConnection
        <4>2. Others'
          BY <1>2, <2>1 DEF MonitorRefused, DropConnection
        <4> QED
          BY <4>1, <4>2, TypeParts
      <3>2. NoStaleWatch'
        BY <1>2, <2>1 DEF MonitorRefused, DropConnection
      <3>3. CountsAgree'
        BY <1>2, <2>1 DEF MonitorRefused, DropConnection
      <3>4. BootInv'
        BY <1>2, <2>1 DEF MonitorRefused, DropConnection
      <3>5. ReconInv'
        BY <1>2, <2>1 DEF MonitorRefused, DropConnection
      <3>6. ClosingInv'
        BY <1>2, <2>1 DEF MonitorRefused, DropConnection
      <3> QED
        BY <3>1, <3>2, <3>3, <3>4, <3>5, <3>6
    <2>2. CASE ~Attached
      <3>1. TypeOK'
        <4>1. Numbers'
          BY <1>2, <2>2 DEF MonitorRefused
        <4>2. Others'
          BY <1>2, <2>2 DEF MonitorRefused
        <4> QED
          BY <4>1, <4>2, TypeParts
      <3>2. NoStaleWatch'
        BY <1>2, <2>2 DEF MonitorRefused
      <3>3. CountsAgree'
        BY <1>2, <2>2 DEF MonitorRefused
      <3>4. BootInv'
        BY <1>2, <2>2 DEF MonitorRefused
      <3>5. ReconInv'
        BY <1>2, <2>2 DEF MonitorRefused
      <3>6. ClosingInv'
        BY <1>2, <2>2 DEF MonitorRefused
      <3> QED
        BY <3>1, <3>2, <3>3, <3>4, <3>5, <3>6
    <2> QED
      BY <2>1, <2>2
  <1> QED
    BY <1>1, <1>2 DEF Monitoring

LEMMA BeatingStep == IInv /\ Beating => IInv'
  <1> SUFFICES ASSUME IInv, Beating PROVE IInv'
    OBVIOUS
  <1> USE ConstantsAssumption
      DEF IInv, TypeOK, NoStaleWatch, CountsAgree, BootInv, ReconInv, ClosingInv, Numbers,
          Others, Heartbeat, Off, Waiting, Attached, Ended,
          bootVars, linkVars, watchVars, reconVars, stateVars
  <1>1. CASE HeartbeatActivity
    BY ZenonT(30), <1>1 DEF HeartbeatActivity
  <1>2. CASE HeartbeatStops
    BY <1>2 DEF HeartbeatStops
  <1>3. CASE HeartbeatDue
    BY <1>3 DEF HeartbeatDue
  <1>4. CASE HeartbeatAnswered
    BY <1>4 DEF HeartbeatAnswered, Answered
  <1>5. CASE HeartbeatRecovers
    <2>1. TypeOK'
      <3>1. Numbers'
        BY <1>5 DEF HeartbeatRecovers, Recovering, Answered, HandleHeartbeatResult
      <3>2. Others'
        BY <1>5 DEF HeartbeatRecovers, Recovering, Answered, HandleHeartbeatResult
      <3> QED
        BY <3>1, <3>2, TypeParts
    <2>2. NoStaleWatch'
      BY <1>5 DEF HeartbeatRecovers, Recovering, Answered, HandleHeartbeatResult
    <2>3. CountsAgree'
      BY <1>5 DEF HeartbeatRecovers, Recovering, Answered, HandleHeartbeatResult
    <2>4. BootInv'
      BY <1>5 DEF HeartbeatRecovers, Recovering, Answered, HandleHeartbeatResult
    <2>5. ReconInv'
      BY <1>5 DEF HeartbeatRecovers, Recovering, Answered, HandleHeartbeatResult
    <2>6. ClosingInv'
      BY <1>5 DEF HeartbeatRecovers, Recovering, Answered, HandleHeartbeatResult
    <2> QED
      BY <2>1, <2>2, <2>3, <2>4, <2>5, <2>6
  <1>6. CASE HeartbeatMisses
    <2>1. TypeOK'
      <3>1. Numbers'
        BY <1>6 DEF HeartbeatMisses, TimedOut, HandleHeartbeatResult
      <3>2. Others'
        BY <1>6 DEF HeartbeatMisses, TimedOut, HandleHeartbeatResult
      <3> QED
        BY <3>1, <3>2, TypeParts
    <2>2. NoStaleWatch'
      BY <1>6 DEF HeartbeatMisses, TimedOut, HandleHeartbeatResult
    <2>3. CountsAgree'
      BY <1>6 DEF HeartbeatMisses, TimedOut, HandleHeartbeatResult
    <2>4. BootInv'
      BY <1>6 DEF HeartbeatMisses, TimedOut, HandleHeartbeatResult
    <2>5. ReconInv'
      BY <1>6 DEF HeartbeatMisses, TimedOut, HandleHeartbeatResult
    <2>6. ClosingInv'
      BY <1>6 DEF HeartbeatMisses, TimedOut, HandleHeartbeatResult
    <2> QED
      BY <2>1, <2>2, <2>3, <2>4, <2>5, <2>6
  <1>7. CASE HeartbeatGivesUp
    BY <1>7, LoseStep DEF HeartbeatGivesUp
  <1>8. CASE HeartbeatUnheard
    BY <1>8 DEF HeartbeatUnheard
  <1> QED
    BY <1>1, <1>2, <1>3, <1>4, <1>5, <1>6, <1>7, <1>8 DEF Beating

LEMMA ReconnectingStep == IInv /\ Reconnecting => IInv'
  <1> SUFFICES ASSUME IInv, Reconnecting PROVE IInv'
    OBVIOUS
  <1> USE ConstantsAssumption
      DEF IInv, TypeOK, NoStaleWatch, CountsAgree, BootInv, ReconInv, ClosingInv, Numbers,
          Others, Heartbeat, Off, Waiting, Attached, Ended,
          bootVars, linkVars, watchVars, reconVars, stateVars
  <1>1. CASE ConnectionKilled
    BY <1>1 DEF ConnectionKilled
  <1>2. CASE ProxyStarted
    BY <1>2 DEF ProxyStarted
  <1>3. CASE Resynced
    BY <1>3 DEF Resynced
  <1>4. CASE ReconnectFails
    <2>1. TypeOK'
      <3>1. Numbers'
        BY <1>4 DEF ReconnectFails, DropConnection
      <3>2. Others'
        BY <1>4 DEF ReconnectFails, DropConnection
      <3> QED
        BY <3>1, <3>2, TypeParts
    <2>2. NoStaleWatch'
      BY <1>4 DEF ReconnectFails, DropConnection
    <2>3. CountsAgree'
      BY <1>4 DEF ReconnectFails, DropConnection
    <2>4. BootInv'
      BY <1>4 DEF ReconnectFails, DropConnection
    <2>5. ReconInv'
      BY <1>4 DEF ReconnectFails, DropConnection
    <2>6. ClosingInv'
      BY <1>4 DEF ReconnectFails, DropConnection
    <2> QED
      BY <2>1, <2>2, <2>3, <2>4, <2>5, <2>6
  <1>5. CASE ReconnectSucceeded
    BY <1>5 DEF ReconnectSucceeded
  <1>6. CASE TryAgain
    BY <1>6 DEF TryAgain, Attempt
  <1>7. CASE DiscardOutcome
    BY <1>7 DEF DiscardOutcome, DropConnection
  <1> QED
    BY <1>1, <1>2, <1>3, <1>4, <1>5, <1>6, <1>7 DEF Reconnecting

LEMMA ClosingStep == IInv /\ Closing => IInv'
  <1> SUFFICES ASSUME IInv, Closing PROVE IInv'
    OBVIOUS
  <1> USE ConstantsAssumption
      DEF IInv, TypeOK, NoStaleWatch, CountsAgree, BootInv, ReconInv, ClosingInv, Numbers,
          Others, Heartbeat, Off, Waiting, Attached, Ended,
          bootVars, linkVars, watchVars, reconVars, stateVars
  <1>1. CASE ShutDown
    <2>1. CASE state = "Connected"
      <3>1. TypeOK'
        <4>1. Numbers'
          BY <1>1, <2>1 DEF ShutDown
        <4>2. Others'
          BY <1>1, <2>1 DEF ShutDown
        <4> QED
          BY <4>1, <4>2, TypeParts
      <3>2. NoStaleWatch'
        BY <1>1, <2>1 DEF ShutDown
      <3>3. CountsAgree'
        BY <1>1, <2>1 DEF ShutDown
      <3>4. BootInv'
        BY <1>1, <2>1 DEF ShutDown
      <3>5. ReconInv'
        BY <1>1, <2>1 DEF ShutDown
      <3>6. ClosingInv'
        BY <1>1, <2>1 DEF ShutDown
      <3> QED
        BY <3>1, <3>2, <3>3, <3>4, <3>5, <3>6
    <2>2. CASE state = "HeartbeatMissed"
      <3>1. TypeOK'
        <4>1. Numbers'
          BY <1>1, <2>2 DEF ShutDown, DropConnection
        <4>2. Others'
          BY <1>1, <2>2 DEF ShutDown, DropConnection
        <4> QED
          BY <4>1, <4>2, TypeParts
      <3>2. NoStaleWatch'
        BY <1>1, <2>2 DEF ShutDown, DropConnection
      <3>3. CountsAgree'
        BY <1>1, <2>2 DEF ShutDown, DropConnection
      <3>4. BootInv'
        BY <1>1, <2>2 DEF ShutDown, DropConnection
      <3>5. ReconInv'
        BY <1>1, <2>2 DEF ShutDown, DropConnection
      <3>6. ClosingInv'
        BY <1>1, <2>2 DEF ShutDown, DropConnection
      <3> QED
        BY <3>1, <3>2, <3>3, <3>4, <3>5, <3>6
    <2>3. CASE ~Attached
      BY <1>1, <2>3 DEF ShutDown
    <2> QED
      BY <2>1, <2>2, <2>3
  <1>2. CASE LingerEnds
    BY <1>2 DEF LingerEnds, DropConnection
  <1>3. CASE \E attempts \in ForcedAttempts : ForceHeartbeatTimeout(attempts)
    <2>1. PICK attempts \in ForcedAttempts : ForceHeartbeatTimeout(attempts)
      BY <1>3
    <2>2. CASE state = "Connected"
      BY <2>1, <2>2, LoseStep DEF ForceHeartbeatTimeout
    <2>3. CASE state = "HeartbeatMissed"
      <3>1. TypeOK'
        <4>1. Numbers'
          BY <2>1, <2>3 DEF ForceHeartbeatTimeout, DropConnection
        <4>2. Others'
          BY <2>1, <2>3 DEF ForceHeartbeatTimeout, DropConnection
        <4> QED
          BY <4>1, <4>2, TypeParts
      <3>2. NoStaleWatch'
        BY <2>1, <2>3 DEF ForceHeartbeatTimeout, DropConnection
      <3>3. CountsAgree'
        BY <2>1, <2>3 DEF ForceHeartbeatTimeout, DropConnection
      <3>4. BootInv'
        BY <2>1, <2>3 DEF ForceHeartbeatTimeout, DropConnection
      <3>5. ReconInv'
        BY <2>1, <2>3 DEF ForceHeartbeatTimeout, DropConnection
      <3>6. ClosingInv'
        BY <2>1, <2>3 DEF ForceHeartbeatTimeout, DropConnection
      <3> QED
        BY <3>1, <3>2, <3>3, <3>4, <3>5, <3>6
    <2>4. CASE ~Attached
      BY <2>1, <2>4 DEF ForceHeartbeatTimeout
    <2> QED
      BY <2>2, <2>3, <2>4
  <1> QED
    BY <1>1, <1>2, <1>3 DEF Closing

-----------------------------------------------------------------------------
LEMMA Start == Init => IInv
  <1>1. Init => TypeOK
    <2>1. Init => Numbers
      BY ConstantsAssumption DEF Init, Numbers
    <2>2. Init => Others
      BY ConstantsAssumption DEF Init, Others
    <2> QED
      BY <2>1, <2>2, TypeParts
  <1>2. Init => NoStaleWatch /\ CountsAgree /\ BootInv /\ ReconInv /\ ClosingInv
    BY DEF Init, NoStaleWatch, CountsAgree, BootInv, ReconInv, ClosingInv, Off, Attached
  <1> QED
    BY <1>1, <1>2 DEF IInv

LEMMA Step == IInv /\ [Next]_vars => IInv'
  <1> SUFFICES ASSUME IInv, [Next]_vars PROVE IInv'
    OBVIOUS
  <1>1. CASE UNCHANGED vars
    BY <1>1 DEF vars, IInv, TypeOK, NoStaleWatch, CountsAgree, BootInv, ReconInv, ClosingInv,
       Attached, Ended, bootVars, linkVars, watchVars, reconVars, stateVars
  <1>2. CASE Next
    BY <1>2, BootingStep, EnvironmentStep, MonitoringStep, BeatingStep, ReconnectingStep,
       ClosingStep DEF Next
  <1> QED
    BY <1>1, <1>2

(* The inductive invariant holds throughout.                                *)
THEOREM Invariance == Spec => []IInv
  BY Start, Step, PTL DEF Spec

(* Every variable keeps its type; a count of missed heartbeats beyond the   *)
(* limit is excluded by what the heartbeat and the state agree on.          *)
THEOREM TypeCorrect == Spec => []TypeOK
  <1>1. IInv => TypeOK
    BY DEF IInv
  <1> QED
    BY <1>1, Invariance, PTL

(* A monitor or a heartbeat watches the connection the client has, boots,   *)
(* resyncs or is closing, and no other.                                     *)
THEOREM WatchIsCurrent == Spec => []NoStaleWatch
  <1>1. IInv => NoStaleWatch
    BY DEF IInv
  <1> QED
    BY <1>1, Invariance, PTL

(* The state's count of missed heartbeats is the heartbeat's.               *)
THEOREM CountsAlwaysAgree == Spec => []CountsAgree
  <1>1. IInv => CountsAgree
    BY DEF IInv
  <1> QED
    BY <1>1, Invariance, PTL

(* reconnect() is never at work twice at a time.                            *)
THEOREM ReconnectsOneAtATime == Spec => OneReconnectAtATime
  <1>1. IInv /\ [Next]_vars => [recon' = "killing" => recon \in {"killing", "idle", "failed"}]_recon
    <2> SUFFICES ASSUME IInv, [Next]_vars, recon' = "killing", recon # "killing"
                 PROVE  recon \in {"idle", "failed"}
      OBVIOUS
    <2>1. Attached => recon = "idle"
      BY DEF IInv, TypeOK, ReconInv, Attached
    <2> QED
      BY <2>1 DEF Next, vars, Booting, Environment, Monitoring, Beating, Reconnecting, Closing,
         RemoteStarted, PingAnswered, StoreConnected, BootFails, LinkSilent, LinkBack, Traffic,
         LinkExits, ServerGone, MonitorExit, MonitorRefused, HeartbeatActivity, HeartbeatStops,
         HeartbeatDue, HeartbeatAnswered, HeartbeatRecovers, HeartbeatMisses, HeartbeatGivesUp,
         HeartbeatUnheard, ConnectionKilled, ProxyStarted, Resynced, ReconnectFails,
         ReconnectSucceeded, TryAgain, DiscardOutcome, ShutDown, LingerEnds,
         ForceHeartbeatTimeout, Attached, reconVars
  <1> QED
    BY <1>1, Invariance, PTL DEF Spec, OneReconnectAtATime

-----------------------------------------------------------------------------
(* After the event nothing is left that could cause another.                *)
EventInv ==
    /\ disconnects <= 1
    /\ disconnects = 1 =>
           /\ state \in {"None", "ReconnectExhausted", "ServerNotRunning"}
           /\ ~monitor
           /\ recon \notin {"killing", "connecting"}
           /\ boot # "starting"

LEMMA EventStep ==
    ASSUME IInv, EventInv, ~LateExits, [Next]_vars
    PROVE  EventInv'
  <1> USE ConstantsAssumption DEF IInv, EventInv, TypeOK, NoStaleWatch, BootInv, ReconInv, ClosingInv,
           Attached, Ended, Off, Waiting, bootVars, linkVars, watchVars, reconVars, stateVars
  <1>1. CASE Booting
    BY <1>1
    DEF Booting, RemoteStarted, PingAnswered, StoreConnected, BootFails,
        DropConnection
  <1>2. CASE Environment
    BY <1>2
    DEF Environment, LinkSilent, LinkBack, Traffic, LinkExits, ServerGone, MayExit
  <1>3. CASE Monitoring
    BY <1>3
    DEF Monitoring, MonitorExit, MonitorRefused, DropConnection, Attempt
  <1>4. CASE Beating
    BY <1>4
    DEF Beating, HeartbeatActivity, HeartbeatStops, HeartbeatDue, HeartbeatAnswered,
        HeartbeatRecovers, HeartbeatMisses, HeartbeatGivesUp, HeartbeatUnheard,
        Answered, Recovering, TimedOut, HandleHeartbeatResult, DropConnection,
        Attempt
  <1>5. CASE Reconnecting
    BY <1>5
    DEF Reconnecting, ConnectionKilled, ProxyStarted, Resynced, ReconnectFails,
        ReconnectSucceeded, TryAgain, DiscardOutcome, DropConnection, Attempt
  <1>6. CASE Closing
    BY <1>6
    DEF Closing, ShutDown, LingerEnds, ForceHeartbeatTimeout, DropConnection, Attempt
  <1>7. CASE UNCHANGED vars
    BY <1>7 DEF vars
  <1> QED
    BY <1>1, <1>2, <1>3, <1>4, <1>5, <1>6, <1>7 DEF Next

(* The project hears once that it is disconnected, provided that no proxy   *)
(* exits in the turn between an answer and the state it leads to.           *)
THEOREM DisconnectsOnce == ~LateExits => (Spec => []DisconnectedOnce)
  <1> SUFFICES ASSUME ~LateExits PROVE Spec => []DisconnectedOnce
    OBVIOUS
  <1>1. Init => EventInv
    BY DEF Init, EventInv
  <1>2. IInv /\ EventInv /\ [Next]_vars => EventInv'
    BY EventStep
  <1>3. EventInv => DisconnectedOnce
    BY DEF EventInv, DisconnectedOnce
  <1> QED
    BY <1>1, <1>2, <1>3, Invariance, PTL DEF Spec

-----------------------------------------------------------------------------
LEMMA LifeStep ==
    ASSUME IInv, ~LateExits, [Next]_vars
    PROVE  [Life!Next]_ConnectionState
  <1> USE ConstantsAssumption DEF IInv, TypeOK, NoStaleWatch, BootInv, ReconInv, ClosingInv, Attached, Ended, ConnectionState,
           Life!Next, Life!Establish, Life!MissHeartbeat, Life!Recover, Life!LoseConnection,
           Life!RegainConnection, Life!GiveUp, bootVars, linkVars, watchVars, reconVars, stateVars
  <1>1. CASE Booting
    BY <1>1
    DEF Booting, RemoteStarted, PingAnswered, StoreConnected, BootFails,
        DropConnection
  <1>2. CASE Environment
    BY <1>2
    DEF Environment, LinkSilent, LinkBack, Traffic, LinkExits, ServerGone, MayExit
  <1>3. CASE Monitoring
    BY <1>3
    DEF Monitoring, MonitorExit, MonitorRefused, DropConnection, Attempt
  <1>4. CASE Beating
    BY <1>4
    DEF Beating, HeartbeatActivity, HeartbeatStops, HeartbeatDue, HeartbeatAnswered,
        HeartbeatRecovers, HeartbeatMisses, HeartbeatGivesUp, HeartbeatUnheard,
        Answered, Recovering, TimedOut, HandleHeartbeatResult, DropConnection,
        Attempt
  <1>5. CASE Reconnecting
    BY <1>5
    DEF Reconnecting, ConnectionKilled, ProxyStarted, Resynced, ReconnectFails,
        ReconnectSucceeded, TryAgain, DiscardOutcome, DropConnection, Attempt
  <1>6. CASE Closing
    BY <1>6
    DEF Closing, ShutDown, LingerEnds, ForceHeartbeatTimeout, DropConnection, Attempt
  <1>7. CASE UNCHANGED vars
    BY <1>7 DEF vars
  <1> QED
    BY <1>1, <1>2, <1>3, <1>4, <1>5, <1>6, <1>7 DEF Next

(* What the editor sees is a ConnectionLife, under the same proviso.        *)
THEOREM ImplementsConnectionLife == ~LateExits => (Spec => FollowsConnectionLife)
  <1> SUFFICES ASSUME ~LateExits PROVE Spec => FollowsConnectionLife
    OBVIOUS
  <1>1. Init => Life!Init
    BY DEF Init, Life!Init, ConnectionState
  <1>2. IInv /\ [Next]_vars => [Life!Next]_ConnectionState
    BY LifeStep
  <1> QED
    BY <1>1, <1>2, Invariance, PTL DEF Spec, FollowsConnectionLife, Life!Spec

-----------------------------------------------------------------------------
(* The attempts that have failed are those the reconnect task counts.       *)
FailuresInv ==
    /\ Attached => failures = 0
    /\ state = "Connecting" => failures = 0
    /\ state = "Reconnecting" =>
           /\ attempt \in 1..MaxReconnectAttempts
           /\ failures = IF recon = "failed" THEN attempt ELSE attempt - 1
    /\ state = "ReconnectExhausted" => failures = MaxReconnectAttempts
    /\ boot # "done" => failures = 0

LEMMA FailuresStep ==
    ASSUME IInv, FailuresInv, ForcedAttempts \subseteq {0}, [Next]_vars
    PROVE  FailuresInv'
  <1> USE ConstantsAssumption DEF IInv, FailuresInv, TypeOK, NoStaleWatch, BootInv, ReconInv, ClosingInv, Attached, Ended,
           bootVars, linkVars, watchVars, reconVars, stateVars
  <1>1. CASE Booting
    BY <1>1
    DEF Booting, RemoteStarted, PingAnswered, StoreConnected, BootFails,
        DropConnection
  <1>2. CASE Environment
    BY <1>2
    DEF Environment, LinkSilent, LinkBack, Traffic, LinkExits, ServerGone, MayExit
  <1>3. CASE Monitoring
    BY <1>3
    DEF Monitoring, MonitorExit, MonitorRefused, DropConnection, Attempt
  <1>4. CASE Beating
    BY <1>4
    DEF Beating, HeartbeatActivity, HeartbeatStops, HeartbeatDue, HeartbeatAnswered,
        HeartbeatRecovers, HeartbeatMisses, HeartbeatGivesUp, HeartbeatUnheard,
        Answered, Recovering, TimedOut, HandleHeartbeatResult, DropConnection,
        Attempt
  <1>5. CASE Reconnecting
    BY <1>5
    DEF Reconnecting, ConnectionKilled, ProxyStarted, Resynced, ReconnectFails,
        ReconnectSucceeded, TryAgain, DiscardOutcome, DropConnection, Attempt
  <1>6. CASE Closing
    BY <1>6
    DEF Closing, ShutDown, LingerEnds, ForceHeartbeatTimeout, DropConnection, Attempt
  <1>7. CASE UNCHANGED vars
    BY <1>7 DEF vars
  <1> QED
    BY <1>1, <1>2, <1>3, <1>4, <1>5, <1>6, <1>7 DEF Next

(* Giving up takes MAX_RECONNECT_ATTEMPTS failures in a row, unless a debug *)
(* action pretends that some have failed already.                           *)
THEOREM GivesUpOnlyAfterMax ==
    ForcedAttempts \subseteq {0} => (Spec => []GivesUpAfterMax)
  <1> SUFFICES ASSUME ForcedAttempts \subseteq {0} PROVE Spec => []GivesUpAfterMax
    OBVIOUS
  <1>1. Init => FailuresInv
    BY DEF Init, FailuresInv, Attached
  <1>2. IInv /\ FailuresInv /\ [Next]_vars => FailuresInv'
    BY FailuresStep
  <1>3. FailuresInv => GivesUpAfterMax
    BY DEF FailuresInv, GivesUpAfterMax
  <1> QED
    BY <1>1, <1>2, <1>3, Invariance, PTL DEF Spec
=============================================================================
