------------------------------ MODULE Consumer ------------------------------
(***************************************************************************)
(* The consumer's connection handling: FeedHandler::run and process_data   *)
(* (src/unnamed/part_003) over MarketDataSocket (src/src/client/parser.cpp *)
(* 277-550).  One thread runs the loop; pc names the step it is at.  The   *)
(* other actors are the server, which sends bytes, closes or resets the    *)
(* connection and goes down and up, and the kernel, which queues what      *)
(* arrives and raises edge-triggered readiness.  The bytes themselves are  *)
(* MessageParser's business: here rx counts what waits in the socket.      *)
(***************************************************************************)
EXTENDS Naturals

CONSTANTS
    MaxRetry,         \* MarketDataSocket::MAX_RETRY_COUNT
    InitialBackoff,   \* current_backoff_ms_ after connect() and on success
    BackoffCap,       \* cap of the doubling backoff (30000 ms)
    AutoReconnectModes, \* values FeedHandlerConfig::auto_reconnect may take
    Visual,           \* FeedHandlerConfig::enable_visualization (keyboard)
    MaxRx             \* bound on the bytes queued in the socket

ASSUME ConstantsAssumption ==
    /\ MaxRetry \in Nat \ {0}
    /\ InitialBackoff \in Nat \ {0}
    /\ BackoffCap \in Nat /\ InitialBackoff <= BackoffCap
    /\ AutoReconnectModes \subseteq BOOLEAN /\ AutoReconnectModes # {}
    /\ Visual \in BOOLEAN
    /\ MaxRx \in Nat \ {0}

VARIABLES
    pc,          \* where the loop is: "start", "input", "wait", "process",
                 \* "reconnect" or "done"
    running,     \* FeedHandler::running_
    connected,   \* MarketDataSocket::connected_
    fdOpen,      \* fd_ >= 0
    count,       \* reconnect_count_
    backoff,     \* current_backoff_ms_
    rx,          \* bytes waiting in the socket's receive queue
    peer,        \* the connection as the server left it: "open", "fin", "rst"
    edge,        \* a readiness edge not yet returned by epoll_wait
    serverUp,    \* the server accepts connections
    streak,      \* history: failed connection attempts since the last success
    stopReason,  \* history: why run() returned
    autoReconnect \* config_.auto_reconnect, fixed when the handler starts

vars == <<pc, running, connected, fdOpen, count, backoff, rx, peer, edge,
          serverUp, streak, stopReason, autoReconnect>>

Pcs == {"start", "input", "wait", "process", "reconnect", "done"}
Reasons == {"none", "startfail", "quit", "noreconnect", "exhausted"}

MinOf(a, b) == IF a <= b THEN a ELSE b

TypeOK ==
    /\ pc \in Pcs
    /\ running \in BOOLEAN
    /\ connected \in BOOLEAN
    /\ fdOpen \in BOOLEAN
    /\ count \in 0 .. MaxRetry
    /\ backoff \in InitialBackoff .. BackoffCap
    /\ rx \in 0 .. MaxRx
    /\ peer \in {"open", "fin", "rst"}
    /\ edge \in BOOLEAN
    /\ serverUp \in BOOLEAN
    /\ streak \in 0 .. MaxRetry
    /\ stopReason \in Reasons
    /\ autoReconnect \in BOOLEAN

-----------------------------------------------------------------------------
(* do_connect: close the old socket, then connect a new one; the attempt   *)
(* can fail (refused, timeout) and succeeds only if the server is up.  A   *)
(* new connection has an empty queue and no pending edge.                  *)
Connected(ok) ==
    /\ ok => serverUp
    /\ connected' = ok
    /\ fdOpen' = ok
    /\ rx' = 0
    /\ peer' = "open"
    /\ edge' = FALSE

(* FeedHandler::stop: running_ := false and socket_->disconnect().         *)
Stop(reason) ==
    /\ running' = FALSE
    /\ connected' = FALSE
    /\ fdOpen' = FALSE
    /\ pc' = "done"
    /\ stopReason' = reason

(* start(): connect() resets the retry count and the backoff, then         *)
(* do_connect; on failure run() returns.  The subscription is sent on the  *)
(* new connection.                                                         *)
Start ==
    /\ pc = "start"
    /\ count' = 0
    /\ backoff' = InitialBackoff
    /\ \E ok \in BOOLEAN :
          /\ Connected(ok)
          /\ IF ok THEN /\ running' = TRUE
                        /\ pc' = "input"
                        /\ UNCHANGED stopReason
                   ELSE /\ pc' = "done"
                        /\ UNCHANGED running
                        /\ stopReason' = "startfail"
    /\ UNCHANGED <<serverUp, streak>>

(* process_input: 'q' stops the handler; any other key (or none) goes on   *)
(* to wait_for_data.  Without visualization there is no keyboard.          *)
Input(quit) ==
    /\ pc = "input"
    /\ quit => Visual
    /\ IF quit THEN Stop("quit")
               ELSE /\ pc' = "wait"
                    /\ UNCHANGED <<running, connected, fdOpen, stopReason>>
    /\ UNCHANGED <<count, backoff, rx, peer, edge, serverUp, streak>>

(* Mutant: wait_for_data without its connected_ check.                    *)
WaitNoConnCheck ==
    /\ pc = "wait"
    /\ IF edge
       THEN /\ edge' = FALSE
            /\ IF peer = "rst"
               THEN /\ connected' = FALSE
                    /\ pc' = "reconnect"
               ELSE /\ pc' = "process"
                    /\ UNCHANGED connected
       ELSE /\ pc' = "input"
            /\ UNCHANGED <<connected, edge>>
    /\ UNCHANGED <<running, fdOpen, count, backoff, rx, peer, serverUp,
                   streak, stopReason>>

(* wait_for_data(100): -1 when not connected or on an error edge (the      *)
(* reset), 1 on any other edge, 0 on timeout.                              *)
Wait ==
    /\ pc = "wait"
    /\ IF ~connected \/ ~fdOpen
       THEN /\ pc' = "reconnect"
            /\ UNCHANGED <<connected, edge>>
       ELSE IF edge
       THEN /\ edge' = FALSE
            /\ IF peer = "rst"
               THEN /\ connected' = FALSE
                    /\ pc' = "reconnect"
               ELSE /\ pc' = "process"
                    /\ UNCHANGED connected
       ELSE /\ pc' = "input"
            /\ UNCHANGED <<connected, edge>>
    /\ UNCHANGED <<running, fdOpen, count, backoff, rx, peer, serverUp,
                   streak, stopReason>>

(* Mutant: process_data calls receive() once instead of until EAGAIN.    *)
ProcessOnce ==
    /\ pc = "process"
    /\ \/ /\ connected
          /\ \E k \in 1 .. rx : rx' = rx - k
          /\ pc' = "input"
          /\ UNCHANGED connected
       \/ /\ connected
          /\ rx = 0
          /\ connected' = (peer = "open")
          /\ pc' = "input"
          /\ UNCHANGED rx
    /\ UNCHANGED <<running, fdOpen, count, backoff, peer, edge, serverUp,
                   streak, stopReason>>

(* One receive() of process_data's loop: some of the queued bytes, which   *)
(* go to the parser; at the end of the queue, 0 on a closed connection or  *)
(* an error on a reset one (connected_ := false, back to the loop), and    *)
(* EAGAIN on an open one (back to the loop).                               *)
Process ==
    /\ pc = "process"
    /\ \/ /\ connected
          /\ \E k \in 1 .. rx : rx' = rx - k
          /\ UNCHANGED <<pc, connected>>
       \/ /\ connected
          /\ rx = 0
          /\ connected' = (peer = "open")
          /\ pc' = "input"
          /\ UNCHANGED rx
    /\ UNCHANGED <<running, fdOpen, count, backoff, peer, edge, serverUp,
                   streak, stopReason>>

(* Mutant: a successful reconnect that keeps the doubled backoff.          *)
ReconnectAttemptNoReset(ok) ==
    /\ count' = count + 1
    /\ Connected(ok)
    /\ backoff' = MinOf(backoff * 2, BackoffCap)
    /\ streak' = IF ok THEN 0 ELSE streak + 1
    /\ IF ~ok /\ count + 1 >= MaxRetry
       THEN /\ running' = FALSE
            /\ pc' = "done"
            /\ stopReason' = "exhausted"
       ELSE /\ pc' = "input"
            /\ UNCHANGED <<running, stopReason>>

(* reconnect() below the retry limit: sleep, double the backoff (capped),  *)
(* count the attempt and do_connect, resetting the backoff on success (the *)
(* subscription is then replayed).  After a failure run() stops if the     *)
(* count has reached the maximum and loops otherwise.                      *)
ReconnectAttempt(ok) ==
    /\ count' = count + 1
    /\ Connected(ok)
    /\ IF ok
       THEN /\ backoff' = InitialBackoff
            /\ streak' = 0
            /\ pc' = "input"
            /\ UNCHANGED <<running, stopReason>>
       ELSE /\ backoff' = MinOf(backoff * 2, BackoffCap)
            /\ streak' = streak + 1
            /\ IF count + 1 >= MaxRetry
               THEN /\ running' = FALSE
                    /\ pc' = "done"
                    /\ stopReason' = "exhausted"
               ELSE /\ pc' = "input"
                    /\ UNCHANGED <<running, stopReason>>

(* Mutant: the retry limit tested with <= instead of >=.                   *)
ReconnectOffByOne ==
    /\ pc = "reconnect"
    /\ \/ /\ ~autoReconnect
          /\ Stop("noreconnect")
          /\ UNCHANGED <<count, backoff, rx, peer, edge, streak>>
       \/ /\ autoReconnect
          /\ count > MaxRetry
          /\ Stop("exhausted")
          /\ UNCHANGED <<count, backoff, rx, peer, edge, streak>>
       \/ /\ autoReconnect
          /\ count <= MaxRetry
          /\ \E ok \in BOOLEAN : ReconnectAttempt(ok)
    /\ UNCHANGED serverUp

(* The error branch of run(): without auto-reconnect, stop; reconnect()    *)
(* refuses once reconnect_count_ has reached MAX_RETRY_COUNT, and run()    *)
(* then stops; otherwise an attempt.                                       *)
Reconnect ==
    /\ pc = "reconnect"
    /\ \/ /\ ~autoReconnect
          /\ Stop("noreconnect")
          /\ UNCHANGED <<count, backoff, rx, peer, edge, streak>>
       \/ /\ autoReconnect
          /\ count >= MaxRetry
          /\ Stop("exhausted")
          /\ UNCHANGED <<count, backoff, rx, peer, edge, streak>>
       \/ /\ autoReconnect
          /\ count < MaxRetry
          /\ \E ok \in BOOLEAN : ReconnectAttempt(ok)
    /\ UNCHANGED serverUp

-----------------------------------------------------------------------------
(* The server side and the kernel.                                         *)
Arrive ==
    /\ fdOpen /\ peer = "open" /\ rx < MaxRx
    /\ rx' = rx + 1
    /\ edge' = TRUE
    /\ UNCHANGED <<pc, running, connected, fdOpen, count, backoff, peer,
                   serverUp, streak, stopReason>>

PeerFin ==
    /\ fdOpen /\ peer = "open"
    /\ peer' = "fin"
    /\ edge' = TRUE
    /\ UNCHANGED <<pc, running, connected, fdOpen, count, backoff, rx,
                   serverUp, streak, stopReason>>

PeerRst ==
    /\ fdOpen /\ peer # "rst"
    /\ peer' = "rst"
    /\ rx' = 0
    /\ edge' = TRUE
    /\ UNCHANGED <<pc, running, connected, fdOpen, count, backoff,
                   serverUp, streak, stopReason>>

ServerToggle ==
    /\ serverUp' = ~serverUp
    /\ UNCHANGED <<pc, running, connected, fdOpen, count, backoff, rx, peer,
                   edge, streak, stopReason>>

Init ==
    /\ pc = "start"
    /\ running = FALSE
    /\ connected = FALSE
    /\ fdOpen = FALSE
    /\ count = 0
    /\ backoff = InitialBackoff
    /\ rx = 0
    /\ peer = "open"
    /\ edge = FALSE
    /\ serverUp \in BOOLEAN
    /\ streak = 0
    /\ stopReason = "none"
    /\ autoReconnect \in AutoReconnectModes

Next ==
    /\ \/ Start
       \/ \E quit \in BOOLEAN : Input(quit)
       \/ Wait \/ Process \/ Reconnect
       \/ Arrive \/ PeerFin \/ PeerRst \/ ServerToggle
    /\ UNCHANGED autoReconnect

(* The loop never blocks for long: epoll_wait and connect time out and the *)
(* backoff sleep ends, so each of its steps is eventually taken.           *)
Fairness ==
    WF_vars((Start \/ Input(FALSE) \/ Wait \/ Process \/ Reconnect)
            /\ UNCHANGED autoReconnect)

Spec == Init /\ [][Next]_vars /\ Fairness

-----------------------------------------------------------------------------
(* process_data reads until EAGAIN because the socket is registered        *)
(* edge-triggered (parser.cpp:266): whenever the loop is about to wait,    *)
(* every byte and every hang-up that has arrived on the live connection is *)
(* still signalled by a pending edge, so nothing waits unseen.             *)
NoStrandedData ==
    (pc = "wait" /\ connected /\ fdOpen /\ (rx > 0 \/ peer # "open")) => edge

(* Spec section 5, reconnect: the backoff starts at 100 ms, doubles with   *)
(* each failed attempt up to the cap and returns to 100 ms on success.     *)
BackoffTracksFailures ==
    pc # "start" => backoff = MinOf(InitialBackoff * 2^streak, BackoffCap)

(* A connection the server has closed or reset is noticed by the loop,     *)
(* which either connects again or stops (run(), part_003:92-118).          *)
LossNoticed ==
    (fdOpen /\ peer # "open") ~> (pc = "done" \/ (fdOpen /\ peer = "open"))

(* Spec section 5: "Maximum attempts: 5; on exhaustion, surface a terminal *)
(* failure".  The client gives up only after that many consecutive failed  *)
(* attempts to connect.                                                    *)
ExhaustedOnlyAfterFailures ==
    stopReason = "exhausted" => streak >= MaxRetry

=============================================================================
