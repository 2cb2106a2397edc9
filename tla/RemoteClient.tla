----------------------------- MODULE RemoteClient -----------------------------
(***************************************************************************)
(* The supervision of a remote development connection (RemoteClient,       *)
(* crates/remote/src/remote_client.rs): how the editor boots a connection, *)
(* watches it with a monitor and a heartbeat, reconnects when it is lost   *)
(* and gives up.                                                           *)
(*                                                                         *)
(* Everything here is a task of the editor's main thread: a step runs from *)
(* one await to the next.  The state owns the tasks that watch a           *)
(* connection, and dropping a task cancels it (and, for the proxy, kills   *)
(* the process), so most of what has to be right is which task outlives    *)
(* which change of state.  Time is abstracted: a timer that is armed may   *)
(* fire, a ping that is not answered may time out.                         *)
(*                                                                         *)
(* RemoteChannel models the messages that travel over the connection.      *)
(***************************************************************************)
EXTENDS Naturals

CONSTANTS
    MaxReconnectAttempts,  \* MAX_RECONNECT_ATTEMPTS
    MaxMissedHeartbeats,   \* MAX_MISSED_HEARTBEATS
    LateExits,       \* may the proxy exit between the answer that completes a
                     \* (re)connect and the turn that stores Connected?
    Shutdowns,       \* may the editor shut the client down?
    ForcedAttempts   \* arguments of force_heartbeat_timeout (a debug action)

ASSUME MaxReconnectAttemptsAssumption == MaxReconnectAttempts \in Nat \ {0}
ASSUME MaxMissedHeartbeatsAssumption == MaxMissedHeartbeats \in Nat \ {0}
ASSUME LateExitsAssumption == LateExits \in BOOLEAN
ASSUME ShutdownsAssumption == Shutdowns \in BOOLEAN
ASSUME ForcedAttemptsAssumption == ForcedAttempts \subseteq Nat

VARIABLES
    state,        \* RemoteClient.state; "None" once it has been taken.  The
                  \* state ReconnectFailed is left in the turn that enters it.
    missed,       \* HeartbeatMissed's missed_heartbeats, else 0
    boot,         \* RemoteClient::new
    link,         \* the current connection and its proxy process
    activity,     \* the connection's activity channel holds a token
    monitor,      \* the monitor (multiplex_task) awaits the proxy's end
    hb,           \* the heartbeat task and its locals
    recon,        \* the task started by reconnect()
    attempt,      \* ... and the number of its attempt
    closing,      \* shutdown_processes
    disconnects,  \* Disconnected events emitted
    failures      \* history: attempts failed since last connected

bootVars == <<boot, closing>>
linkVars == <<link, activity>>
watchVars == <<monitor, hb>>
reconVars == <<recon, attempt, failures>>
stateVars == <<state, missed, disconnects>>
vars == <<bootVars, linkVars, watchVars, reconVars, stateVars>>

Heartbeat == [stage : {"off", "waiting", "pinging"}, armed : BOOLEAN, missed : Nat]

Off == [stage |-> "off", armed |-> FALSE, missed |-> 0]

(* The task at its outer select, keepalive timer armed.                     *)
Waiting(n) == [stage |-> "waiting", armed |-> TRUE, missed |-> n]

TypeOK ==
    /\ state \in {"None", "Connecting", "Connected", "HeartbeatMissed", "Reconnecting",
                  "ReconnectExhausted", "ServerNotRunning"}
    /\ missed \in 0..MaxMissedHeartbeats
    /\ boot \in {"starting", "pinging", "answered", "done", "failed"}
    /\ link \in {"none", "alive", "silent", "exited", "refused"}
    /\ activity \in BOOLEAN
    /\ monitor \in BOOLEAN
    /\ hb \in Heartbeat
    /\ recon \in {"idle", "killing", "connecting", "resyncing", "connected", "failed"}
    /\ attempt \in 0..MaxReconnectAttempts
    /\ closing \in {"no", "lingering", "closed"}
    /\ disconnects \in Nat
    /\ failures \in Nat

Init ==
    /\ state = "Connecting"
    /\ missed = 0
    /\ boot = "starting"
    /\ link = "alive"
    /\ activity = FALSE
    /\ monitor = FALSE
    /\ hb = Off
    /\ recon = "idle"
    /\ attempt = 0
    /\ closing = "no"
    /\ disconnects = 0
    /\ failures = 0

-----------------------------------------------------------------------------
(* The states that own a connection's monitor and heartbeat.                *)
Attached == state \in {"Connected", "HeartbeatMissed"}

(* The proxy has ended: its activity channel is closed once it is drained.  *)
Ended == link \in {"none", "exited", "refused"}

(* Dropping monitor and heartbeat cancels them and kills the proxy.         *)
DropConnection ==
    /\ link' = "none"
    /\ activity' = FALSE
    /\ monitor' = FALSE
    /\ hb' = Off

(* Mutant: one attempt more than MAX_RECONNECT_ATTEMPTS.                    *)
AttemptOnceMore(prior) ==
    /\ missed' = 0
    /\ \/ /\ prior > MaxReconnectAttempts
          /\ state' = "ReconnectExhausted"
          /\ disconnects' = disconnects + 1
          /\ recon' = "idle"
          /\ UNCHANGED attempt
       \/ /\ prior <= MaxReconnectAttempts
          /\ state' = "Reconnecting"
          /\ recon' = "killing"
          /\ attempt' = prior + 1
          /\ UNCHANGED disconnects

(* reconnect() where the state allows it, "prior" attempts having failed.   *)
Attempt(prior) ==
    /\ missed' = 0
    /\ \/ /\ prior >= MaxReconnectAttempts
          /\ state' = "ReconnectExhausted"
          /\ disconnects' = disconnects + 1
          /\ recon' = "idle"
          /\ UNCHANGED attempt
       \/ /\ prior < MaxReconnectAttempts
          /\ state' = "Reconnecting"
          /\ recon' = "killing"
          /\ attempt' = prior + 1
          /\ UNCHANGED disconnects

-----------------------------------------------------------------------------
(* RemoteClient::new.                                                       *)

(* The server has announced itself; the monitor starts, a ping is sent.     *)
RemoteStarted ==
    /\ boot = "starting"
    /\ link = "alive"
    /\ boot' = "pinging"
    /\ monitor' = TRUE
    /\ UNCHANGED <<closing, linkVars, hb, reconVars, stateVars>>

PingAnswered ==
    /\ boot = "pinging"
    /\ link = "alive"
    /\ boot' = "answered"
    /\ UNCHANGED <<closing, linkVars, watchVars, reconVars, stateVars>>

(* Connected is stored whatever the state has become since Connecting.      *)
StoreConnected ==
    /\ boot = "answered"
    /\ boot' = "done"
    /\ state' = "Connected"
    /\ hb' = Waiting(0)
    /\ UNCHANGED <<missed, disconnects, closing, linkVars, monitor, reconVars>>

(* A timeout, a failed ping, or the user's cancellation: the client and its *)
(* tasks are dropped.                                                       *)
BootFails ==
    /\ boot \in {"starting", "pinging", "answered"}
    /\ boot' = "failed"
    /\ state' = "None"
    /\ DropConnection
    /\ UNCHANGED <<missed, disconnects, closing, reconVars>>

-----------------------------------------------------------------------------
(* The environment: the network, the proxy process, the remote server.      *)

LinkSilent ==
    /\ link = "alive"
    /\ link' = "silent"
    /\ UNCHANGED <<bootVars, activity, watchVars, reconVars, stateVars>>

LinkBack ==
    /\ link = "silent"
    /\ link' = "alive"
    /\ UNCHANGED <<bootVars, activity, watchVars, reconVars, stateVars>>

(* Something arrives; the channel has room for one token.                   *)
Traffic ==
    /\ link = "alive"
    /\ activity' = TRUE
    /\ UNCHANGED <<bootVars, link, watchVars, reconVars, stateVars>>

MayExit == LateExits \/ ~(boot = "answered" \/ recon = "connected")

(* The io task ends with an error or a failure code: the network failed,    *)
(* the proxy crashed, or force_disconnect killed the connection.            *)
LinkExits ==
    /\ link \in {"alive", "silent"}
    /\ MayExit
    /\ link' = "exited"
    /\ UNCHANGED <<bootVars, activity, watchVars, reconVars, stateVars>>

(* The proxy exits with ProxyLaunchError::ServerNotRunning: there was no    *)
(* server to reconnect to, or it died while the proxy was forwarding.       *)
ServerGone ==
    /\ link = "alive"
    /\ MayExit
    /\ link' = "refused"
    /\ UNCHANGED <<bootVars, activity, watchVars, reconVars, stateVars>>

-----------------------------------------------------------------------------
(* The monitor, resumed with the proxy's exit.                              *)

(* Mutant: reconnect() does not ask whether the state allows it.            *)
MonitorExitUnchecked ==
    /\ monitor
    /\ link = "exited"
    /\ DropConnection
    /\ Attempt(0)
    /\ UNCHANGED <<bootVars, failures>>

MonitorExit ==
    /\ monitor
    /\ link = "exited"
    /\ \/ /\ Attached
          /\ DropConnection
          /\ Attempt(0)
          /\ UNCHANGED <<bootVars, failures>>
       \/ /\ ~Attached
          /\ monitor' = FALSE
          /\ UNCHANGED <<bootVars, linkVars, hb, reconVars, stateVars>>

(* set_state replaces any state, and so drops the tasks it owned.           *)
MonitorRefused ==
    /\ monitor
    /\ link = "refused"
    /\ state' = "ServerNotRunning"
    /\ missed' = 0
    /\ disconnects' = disconnects + 1
    /\ \/ Attached /\ DropConnection
       \/ ~Attached /\ monitor' = FALSE /\ UNCHANGED <<linkVars, hb>>
    /\ UNCHANGED <<bootVars, reconVars>>

-----------------------------------------------------------------------------
(* The heartbeat.                                                           *)

(* handle_heartbeat_result(n): the state moves, if it is one that counts    *)
(* heartbeats; set_state repeats the event of a final one.                  *)
HandleHeartbeatResult(n) ==
    /\ state # "None"
    /\ state' = IF Attached
                THEN IF n > 0 THEN "HeartbeatMissed" ELSE "Connected"
                ELSE state
    /\ missed' = IF Attached /\ n > 0 THEN missed + 1 ELSE 0
    /\ disconnects' = IF state \in {"ReconnectExhausted", "ServerNotRunning"}
                      THEN disconnects + 1
                      ELSE disconnects

(* Outer select, activity comes first: the timer starts anew.               *)
HeartbeatActivity ==
    /\ hb.stage = "waiting"
    /\ hb.missed = 0
    /\ activity
    /\ activity' = FALSE
    /\ hb' = Waiting(0)
    /\ UNCHANGED <<bootVars, link, monitor, reconVars, stateVars>>

(* Outer select: the activity channel is closed.                            *)
HeartbeatStops ==
    /\ hb.stage = "waiting"
    /\ ~activity
    /\ Ended
    /\ hb' = Off
    /\ UNCHANGED <<bootVars, linkVars, monitor, reconVars, stateVars>>

(* Outer select: the timer fires and a ping is sent.  A new heartbeat's     *)
(* first timer takes longer than storing the state that owns it.            *)
HeartbeatDue ==
    /\ hb.stage = "waiting"
    /\ hb.armed
    /\ ~activity
    /\ ~Ended
    /\ recon # "connected"
    /\ hb' = [hb EXCEPT !.stage = "pinging", !.armed = FALSE]
    /\ UNCHANGED <<bootVars, linkVars, monitor, reconVars, stateVars>>

(* Inner select: an answer, or any activity; a closed channel also counts.  *)
Answered ==
    /\ hb.stage = "pinging"
    /\ activity \/ link = "alive" \/ Ended

(* Inner select with nothing to report: the loop continues without arming   *)
(* the timer again.                                                         *)
HeartbeatAnswered ==
    /\ Answered
    /\ hb.missed = 0
    /\ activity' = FALSE
    /\ hb' = [hb EXCEPT !.stage = "waiting"]
    /\ UNCHANGED <<bootVars, link, monitor, reconVars, stateVars>>

Recovering ==
    /\ hb.missed # 0
    /\ Answered \/ (hb.stage = "waiting" /\ activity)

(* Mutant: the heartbeat forgets to report that it has recovered.           *)
HeartbeatRecoversSilently ==
    /\ Recovering
    /\ state # "None"
    /\ activity' = FALSE
    /\ hb' = Waiting(0)
    /\ UNCHANGED <<bootVars, link, monitor, reconVars, stateVars>>

HeartbeatRecovers ==
    /\ Recovering
    /\ HandleHeartbeatResult(0)
    /\ activity' = FALSE
    /\ hb' = Waiting(0)
    /\ UNCHANGED <<bootVars, link, monitor, reconVars>>

(* Inner select: the ping times out and nothing has arrived.                *)
TimedOut ==
    /\ hb.stage = "pinging"
    /\ ~activity
    /\ ~Ended

(* Mutant: after a miss, the timer is not armed again.                      *)
HeartbeatMissesWithoutTimer ==
    /\ TimedOut
    /\ hb.missed + 1 < MaxMissedHeartbeats
    /\ HandleHeartbeatResult(hb.missed + 1)
    /\ hb' = [Waiting(hb.missed + 1) EXCEPT !.armed = FALSE]
    /\ UNCHANGED <<bootVars, linkVars, monitor, reconVars>>

HeartbeatMisses ==
    /\ TimedOut
    /\ hb.missed + 1 < MaxMissedHeartbeats
    /\ HandleHeartbeatResult(hb.missed + 1)
    /\ hb' = Waiting(hb.missed + 1)
    /\ UNCHANGED <<bootVars, linkVars, monitor, reconVars>>

(* One miss too many: reconnect, and the task ends.  (No state but these    *)
(* meets a heartbeat that has come this far: NoStaleWatch.)                 *)
HeartbeatGivesUp ==
    /\ TimedOut
    /\ hb.missed + 1 >= MaxMissedHeartbeats
    /\ Attached
    /\ DropConnection
    /\ Attempt(0)
    /\ UNCHANGED <<bootVars, failures>>

(* The state has been taken: the task ends, with an error if the client is  *)
(* gone as well and in handle_heartbeat_result's unwrap if it is not.       *)
HeartbeatUnheard ==
    /\ TimedOut \/ Recovering
    /\ state = "None"
    /\ hb' = Off
    /\ UNCHANGED <<boot, closing, linkVars, monitor, reconVars, stateVars>>

-----------------------------------------------------------------------------
(* The task of reconnect(): kill, connect, start the proxy, resync.         *)

ConnectionKilled ==
    /\ recon = "killing"
    /\ recon' = "connecting"
    /\ UNCHANGED <<bootVars, linkVars, watchVars, attempt, failures, stateVars>>

(* The pool has a connection and a proxy runs on it, with a new monitor.    *)
ProxyStarted ==
    /\ recon = "connecting"
    /\ recon' = "resyncing"
    /\ link' = "alive"
    /\ activity' = FALSE
    /\ monitor' = TRUE
    /\ UNCHANGED <<bootVars, hb, attempt, failures, stateVars>>

(* ChannelClient::resync returns; the new heartbeat starts with the new     *)
(* state, which another task is still to store.                             *)
Resynced ==
    /\ recon = "resyncing"
    /\ link = "alive"
    /\ recon' = "connected"
    /\ hb' = Waiting(0)
    /\ UNCHANGED <<bootVars, linkVars, monitor, attempt, failures, stateVars>>

(* Mutant: the monitor of a connection that failed to resync is forgotten.  *)
ReconnectFailsLeakingMonitor ==
    /\ recon \in {"killing", "connecting", "resyncing"}
    /\ recon' = "failed"
    /\ failures' = failures + 1
    /\ UNCHANGED <<bootVars, linkVars, watchVars, attempt, stateVars>>

(* The kill or the connect fails, or resync times out.                      *)
ReconnectFails ==
    /\ recon \in {"killing", "connecting", "resyncing"}
    /\ recon' = "failed"
    /\ failures' = failures + 1
    /\ DropConnection
    /\ UNCHANGED <<bootVars, attempt, stateVars>>

(* The outcome is stored if the client is still reconnecting.               *)
ReconnectSucceeded ==
    /\ recon = "connected"
    /\ state = "Reconnecting"
    /\ recon' = "idle"
    /\ state' = "Connected"
    /\ failures' = 0
    /\ UNCHANGED <<bootVars, linkVars, watchVars, attempt, missed, disconnects>>

(* Mutant: the count of attempts starts anew with every attempt.            *)
TryAgainForgettingAttempts ==
    /\ recon = "failed"
    /\ state = "Reconnecting"
    /\ Attempt(0)
    /\ UNCHANGED <<bootVars, linkVars, watchVars, failures>>

(* Mutant: the outcome is stored whatever the state has become.             *)
TryAgainUnconditionally ==
    /\ recon = "failed"
    /\ Attempt(attempt)
    /\ UNCHANGED <<bootVars, linkVars, watchVars, failures>>

(* ReconnectFailed is stored, and reconnect() runs in the same turn.        *)
TryAgain ==
    /\ recon = "failed"
    /\ state = "Reconnecting"
    /\ Attempt(attempt)
    /\ UNCHANGED <<bootVars, linkVars, watchVars, failures>>

(* The client is not reconnecting any more: the outcome is dropped.         *)
DiscardOutcome ==
    /\ recon \in {"connected", "failed"}
    /\ state # "Reconnecting"
    /\ recon' = "idle"
    /\ DropConnection
    /\ UNCHANGED <<bootVars, attempt, failures, stateVars>>

-----------------------------------------------------------------------------
(* The user.                                                                *)

(* shutdown_processes takes the state.  A connected client's tasks are kept *)
(* for 50 ms, for the shutdown request to leave.                            *)
ShutDown ==
    /\ Shutdowns
    /\ boot = "done"
    /\ closing = "no"
    /\ state # "None"
    /\ state' = "None"
    /\ missed' = 0
    /\ \/ /\ state = "Connected"
          /\ closing' = "lingering"
          /\ UNCHANGED <<linkVars, watchVars>>
       \/ /\ state = "HeartbeatMissed"
          /\ closing' = "closed"
          /\ DropConnection
       \/ /\ ~Attached
          /\ closing' = "closed"
          /\ UNCHANGED <<linkVars, watchVars>>
    /\ UNCHANGED <<boot, reconVars, disconnects>>

LingerEnds ==
    /\ closing = "lingering"
    /\ closing' = "closed"
    /\ DropConnection
    /\ UNCHANGED <<boot, reconVars, stateVars>>

(* force_heartbeat_timeout takes the state, and puts one back only where it *)
(* was Connected.                                                           *)
ForceHeartbeatTimeout(attempts) ==
    /\ boot = "done"
    /\ closing = "no"
    /\ state # "None"
    /\ \/ /\ state = "Connected"
          /\ DropConnection
          /\ Attempt(attempts)
          /\ UNCHANGED failures
       \/ /\ state # "Connected"
          /\ state' = "None"
          /\ missed' = 0
          /\ \/ Attached /\ DropConnection
             \/ ~Attached /\ UNCHANGED <<linkVars, watchVars>>
          /\ UNCHANGED <<reconVars, disconnects>>
    /\ UNCHANGED bootVars

-----------------------------------------------------------------------------
Booting ==
    \/ RemoteStarted
    \/ PingAnswered
    \/ StoreConnected
    \/ BootFails

Environment ==
    \/ LinkSilent
    \/ LinkBack
    \/ Traffic
    \/ LinkExits
    \/ ServerGone

Monitoring ==
    \/ MonitorExit
    \/ MonitorRefused

Beating ==
    \/ HeartbeatActivity
    \/ HeartbeatStops
    \/ HeartbeatDue
    \/ HeartbeatAnswered
    \/ HeartbeatRecovers
    \/ HeartbeatMisses
    \/ HeartbeatGivesUp
    \/ HeartbeatUnheard

Reconnecting ==
    \/ ConnectionKilled
    \/ ProxyStarted
    \/ Resynced
    \/ ReconnectFails
    \/ ReconnectSucceeded
    \/ TryAgain
    \/ DiscardOutcome

Closing ==
    \/ ShutDown
    \/ LingerEnds
    \/ \E attempts \in ForcedAttempts : ForceHeartbeatTimeout(attempts)

Next == Booting \/ Environment \/ Monitoring \/ Beating \/ Reconnecting \/ Closing

Spec == Init /\ [][Next]_vars

(* Every task that can run does, every timer fires, every kill, connect and *)
(* resync ends one way or the other.  The environment and the user owe      *)
(* nothing.                                                                 *)
Fairness ==
    /\ WF_vars(Booting)
    /\ WF_vars(Monitoring)
    /\ WF_vars(Beating)
    /\ WF_vars(Reconnecting)
    /\ WF_vars(LingerEnds)

FairSpec == Spec /\ Fairness

-----------------------------------------------------------------------------
(* Properties.                                                              *)

(* No monitor and no heartbeat outlives the connection it watches: one that *)
(* did would report the old connection's end against the new one.           *)
NoStaleWatch ==
    /\ monitor => \/ Attached
                  \/ boot \in {"pinging", "answered"}
                  \/ recon \in {"resyncing", "connected"}
                  \/ closing = "lingering"
    /\ hb.stage # "off" => Attached \/ recon = "connected" \/ closing = "lingering"

(* What the client says about missed heartbeats is what its heartbeat has   *)
(* counted.                                                                 *)
CountsAgree ==
    /\ Attached /\ hb.stage # "off" => missed = hb.missed
    /\ state = "HeartbeatMissed" <=> missed # 0

(* The project is told once that it is disconnected.                        *)
DisconnectedOnce == disconnects <= 1

(* The client gives up after MAX_RECONNECT_ATTEMPTS attempts in a row have  *)
(* failed, and not before.                                                  *)
GivesUpAfterMax ==
    /\ state = "ReconnectExhausted" => failures = MaxReconnectAttempts
    /\ state = "Reconnecting" /\ recon # "failed" => failures = attempt - 1

(* reconnect() never starts a second task beside a running one.             *)
OneReconnectAtATime ==
    [][recon' = "killing" => recon \in {"killing", "idle", "failed"}]_recon

(* Only a shutdown, or a failed start, leaves the client without a state.   *)
StateKept ==
    [][state' = "None" => state = "None" \/ closing' # "no" \/ boot' = "failed"]_vars

(* An outage ends: the client is connected again or has given up.           *)
OutageEnds ==
    state \in {"HeartbeatMissed", "Reconnecting"}
        ~> state \in {"None", "Connected", "ReconnectExhausted", "ServerNotRunning"}

(* A connected client notices that its proxy has exited.  The code does not *)
(* keep this with LateExits: the monitor reports the exit once, and if that *)
(* is before Connected is stored, nobody looks at the dead proxy again.     *)
ExitNoticed == (Attached /\ Ended) ~> ~(Attached /\ Ended)

(* A connected client notices that nothing arrives any more.                *)
SilenceNoticed ==
    (state = "Connected" /\ link = "silent") ~> ~(state = "Connected" /\ link = "silent")

(* connection_state(): ConnectionState from the state.                      *)
ConnectionState ==
    IF state \in {"None", "ReconnectExhausted", "ServerNotRunning"}
    THEN "Disconnected"
    ELSE state

Life == INSTANCE ConnectionLife WITH status <- ConnectionState

(* What the editor sees of the connection follows ConnectionLife.           *)
FollowsConnectionLife == Life!Spec
=============================================================================
