----------------------------- MODULE Publisher -----------------------------
(***************************************************************************)
(* The publisher's subscriber table and its non-blocking broadcast:        *)
(* ExchangeSimulator's event loop (src/unnamed/part_005) driving the       *)
(* ClientManager (src/unnamed/part_006).  One thread runs the loop, so     *)
(* each handler is one atomic step; the kernel, which transmits queued     *)
(* bytes to the peers, and the peers themselves are the other actors.      *)
(*                                                                         *)
(* A connection is a socket handle in Fds.  q[c] is the depth of its       *)
(* kernel send queue, the value ioctl(TIOCOUTQ) reports; sndbuf[c] is the  *)
(* send buffer the kernel granted when setsockopt(SO_SNDBUF) asked for     *)
(* 4 MiB (the grant is capped by the system, so it may be smaller than the *)
(* 1 MiB slow threshold).  tail[c] records whether the last bytes written  *)
(* to the connection ended a whole frame or a torn one.  Message contents  *)
(* and sequence numbers are left to MessageParser; the counters of         *)
(* ClientConnection are statistics nothing reads and are left out.         *)
(***************************************************************************)
EXTENDS Naturals, FiniteSets

CONSTANTS
    Fds,            \* socket handles the kernel may hand to accept()
    Symbols,        \* symbol ids the tick generator draws from
    HeartbeatSize,  \* HEARTBEAT_MSG_SIZE
    TradeSize,      \* TRADE_MSG_SIZE
    QuoteSize,      \* QUOTE_MSG_SIZE
    SlowHigh,       \* SLOW_CONSUMER_THRESHOLD
    SndBufSizes     \* send-buffer sizes the kernel may grant

ASSUME SizesAssumption ==
    /\ HeartbeatSize \in Nat \ {0}
    /\ TradeSize \in Nat \ {0}
    /\ QuoteSize \in Nat \ {0}
    /\ SlowHigh \in Nat \ {0}
    /\ SndBufSizes \subseteq Nat \ {0}
    /\ SndBufSizes # {}
    \* the kernel grants at most the 4 MiB asked for: there is a largest grant
    /\ \E b \in SndBufSizes : \A x \in SndBufSizes : x <= b

VARIABLES
    clients,    \* DOMAIN of clients_
    subAll,     \* subscribe_all
    subs,       \* subscribed_symbols
    slow,       \* is_slow
    sndbuf,     \* send buffer granted to the socket
    q,          \* kernel send-queue depth
    tail,       \* "none", "whole" or "torn": how the stream written so far ends
    closed      \* connections whose peer has hung up, not yet handled

vars == <<clients, subAll, subs, slow, sndbuf, q, tail, closed>>

Tails == {"none", "whole", "torn"}

MaxSndBuf == CHOOSE b \in SndBufSizes : \A x \in SndBufSizes : x <= b

TypeOK ==
    /\ clients \subseteq Fds
    /\ subAll \in [Fds -> BOOLEAN]
    /\ subs \in [Fds -> SUBSET Symbols]
    /\ slow \in [Fds -> BOOLEAN]
    /\ sndbuf \in [Fds -> SndBufSizes]
    /\ q \in [Fds -> 0 .. MaxSndBuf]
    /\ \A c \in Fds : q[c] <= sndbuf[c]
    /\ tail \in [Fds -> Tails]
    /\ closed \subseteq clients

-----------------------------------------------------------------------------
(* Mutant: a partial send accounted as if the whole frame were queued.    *)
SendResultPartialOverflow(c, len) ==
    LET pending == q[c]
    IN  IF pending > SlowHigh \/ sndbuf[c] = pending
        THEN [q |-> pending, slow |-> TRUE, tail |-> tail[c]]
        ELSE [q |-> pending + len,
              slow |-> slow[c] /\ ~(pending < SlowHigh \div 2),
              tail |-> "whole"]

(* Mutant: a partial send that does not mark the client slow.             *)
SendResultPartialNotSlow(c, len) ==
    LET pending == q[c]
        space   == sndbuf[c] - pending
    IN  IF pending > SlowHigh \/ space = 0
        THEN [q |-> pending, slow |-> TRUE, tail |-> tail[c]]
        ELSE IF space < len
        THEN [q |-> sndbuf[c], slow |-> slow[c], tail |-> "torn"]
        ELSE [q |-> pending + len,
              slow |-> slow[c] /\ ~(pending < SlowHigh \div 2),
              tail |-> "whole"]

(* send_to_client(fd, data, len): the new q, is_slow and stream tail of c. *)
(* pending is measured before the send; above the threshold the client is *)
(* marked slow and nothing is sent.  The send then writes what fits in the *)
(* buffer: nothing (EAGAIN, marked slow), a prefix (partial send, marked   *)
(* slow, the rest of the frame is never written) or all of it, after which *)
(* the slow flag is cleared if pending was below half the threshold.       *)
SendResult(c, len) ==
    LET pending == q[c]
        space   == sndbuf[c] - pending
    IN  IF pending > SlowHigh \/ space = 0
        THEN [q |-> pending, slow |-> TRUE, tail |-> tail[c]]
        ELSE IF space < len
        THEN [q |-> sndbuf[c], slow |-> TRUE, tail |-> "torn"]
        ELSE [q |-> pending + len,
              slow |-> slow[c] /\ ~(pending < SlowHigh \div 2),
              tail |-> "whole"]

(* Sends of len bytes to every handle of targets; a send to a handle in    *)
(* failed fails with an error other than EAGAIN and changes nothing.       *)
SendAll(targets, failed, len) ==
    LET r == [c \in targets |-> SendResult(c, len)]
        ok == targets \ failed
    IN  /\ q' = [c \in Fds |-> IF c \in ok THEN r[c].q ELSE q[c]]
        /\ slow' = [c \in Fds |-> IF c \in ok THEN r[c].slow ELSE slow[c]]
        /\ tail' = [c \in Fds |-> IF c \in ok THEN r[c].tail ELSE tail[c]]

(* The clients broadcast() sends a tick of symbol sym to.                  *)
Eligible(sym) ==
    {c \in clients : ~slow[c] /\ (subAll[c] \/ sym \in subs[c])}

-----------------------------------------------------------------------------
(* add_client(fd): a handle already in the table is refused; otherwise   *)
(* the socket is made non-blocking, asks for a 4 MiB send buffer (the      *)
(* kernel grants b) and enters the table subscribed to all symbols.        *)
AddClient(c, b) ==
    IF c \in clients
    THEN UNCHANGED <<clients, subAll, subs, slow, sndbuf, q, tail>>
    ELSE /\ clients' = clients \cup {c}
         /\ subAll' = [subAll EXCEPT ![c] = TRUE]
         /\ subs' = [subs EXCEPT ![c] = {}]
         /\ slow' = [slow EXCEPT ![c] = FALSE]
         /\ sndbuf' = [sndbuf EXCEPT ![c] = b]
         /\ q' = [q EXCEPT ![c] = 0]
         /\ tail' = [tail EXCEPT ![c] = "none"]

(* remove_client(fd): a handle in the table is closed and erased.          *)
RemoveClient(c) ==
    clients' = clients \ {c}

(* handle_subscription(fd, ids, count): for a handle in the table the      *)
(* subscribed set is cleared and refilled with ids; count 0 (the empty     *)
(* set) means all symbols.                                                 *)
HandleSubscription(c, S) ==
    IF c \in clients
    THEN /\ subs' = [subs EXCEPT ![c] = S]
         /\ subAll' = [subAll EXCEPT ![c] = (S = {})]
    ELSE UNCHANGED <<subs, subAll>>

(* handle_new_connection: accept() returns a handle the kernel is not      *)
(* using (a closed handle may be reused), which is registered with the     *)
(* reactor and passed to add_client.                                       *)
Accept(c, b) ==
    /\ c \notin clients
    /\ AddClient(c, b)
    /\ UNCHANGED closed

(* handle_client_event -> process_subscription -> handle_subscription: a   *)
(* whole subscription frame read in one recv replaces the subscription;    *)
(* count 0 (the empty set) means all symbols.  A frame cut short by the    *)
(* read is dropped and changes nothing.                                    *)
Subscribe(c, S) ==
    /\ c \in clients \ closed
    /\ HandleSubscription(c, S)
    /\ UNCHANGED <<clients, slow, sndbuf, q, tail, closed>>

(* The peer closes or resets its end; the reactor has yet to see it.       *)
PeerClose(c) ==
    /\ c \in clients \ closed
    /\ closed' = closed \cup {c}
    /\ UNCHANGED <<clients, subAll, subs, slow, sndbuf, q, tail>>

(* handle_client_event with an error or EOF: handle_client_disconnect      *)
(* removes the connection and closes the socket.                           *)
Disconnect(c) ==
    /\ c \in closed
    /\ RemoveClient(c)
    /\ closed' = closed \ {c}
    /\ UNCHANGED <<subAll, subs, slow, sndbuf, q, tail>>

(* generate_and_broadcast_tick: one tick of symbol sym, a trade or a quote *)
(* of len bytes, sent to every eligible client; the loop generates ticks   *)
(* only while some client is connected.                                    *)
Tick(sym, len, failed) ==
    /\ clients # {}
    /\ SendAll(Eligible(sym), failed, len)
    /\ UNCHANGED <<clients, subAll, subs, sndbuf, closed>>

(* Mutant: heartbeats skip slow clients, as broadcast does.               *)
HeartbeatSkipSlow(failed) ==
    /\ SendAll({c \in clients : ~slow[c]}, failed, HeartbeatSize)
    /\ UNCHANGED <<clients, subAll, subs, sndbuf, closed>>

(* send_heartbeat: a heartbeat to every connection, slow ones included.    *)
Heartbeat(failed) ==
    /\ SendAll(clients, failed, HeartbeatSize)
    /\ UNCHANGED <<clients, subAll, subs, sndbuf, closed>>

(* The kernel hands k queued bytes to a peer that reads.                   *)
Transmit(c, k) ==
    /\ c \in clients
    /\ k \in 1 .. q[c]
    /\ q' = [q EXCEPT ![c] = @ - k]
    /\ UNCHANGED <<clients, subAll, subs, slow, sndbuf, tail, closed>>

Init ==
    /\ clients = {}
    /\ subAll = [c \in Fds |-> TRUE]
    /\ subs = [c \in Fds |-> {}]
    /\ slow = [c \in Fds |-> FALSE]
    /\ sndbuf = [c \in Fds |-> MaxSndBuf]
    /\ q = [c \in Fds |-> 0]
    /\ tail = [c \in Fds |-> "none"]
    /\ closed = {}

Next ==
    \/ \E c \in Fds, b \in SndBufSizes : Accept(c, b)
    \/ \E c \in Fds, S \in SUBSET Symbols : Subscribe(c, S)
    \/ \E c \in Fds : PeerClose(c) \/ Disconnect(c)
    \/ \E sym \in Symbols, len \in {TradeSize, QuoteSize},
          failed \in SUBSET closed : Tick(sym, len, failed)
    \/ \E failed \in SUBSET closed : Heartbeat(failed)
    \/ \E c \in Fds, k \in 1 .. MaxSndBuf : Transmit(c, k)

(* The loop runs send_heartbeat once a second whatever else happens, and   *)
(* the reactor handles every reported hang-up.                             *)
Fairness ==
    /\ WF_vars(Heartbeat({}))
    /\ \A c \in Fds : WF_vars(Disconnect(c))

Spec == Init /\ [][Next]_vars /\ Fairness

-----------------------------------------------------------------------------
(* A torn frame is the end of a client's stream only while the client is  *)
(* marked slow: after a partial send (part_006:146) broadcast skips it, so *)
(* no tick is written after the fragment until the slow flag is cleared by *)
(* a later whole send.                                                     *)
TornTailIsSlow ==
    \A c \in clients : tail[c] = "torn" => slow[c]

(* A slow client whose kernel queue empties again and again is served      *)
(* again: broadcast skips slow clients (part_006:93), so only the          *)
(* heartbeat's send_to_client can clear the flag (part_006:153).           *)
SlowRecovers ==
    \A c \in Fds :
        []<>(q[c] = 0) => [](slow[c] => <>(~slow[c] \/ c \notin clients))

(* Spec section 4.4: the slow flag is cleared only after a full send that  *)
(* leaves the kernel queue below SlowLow = SlowHigh / 2.                   *)
SlowClearedBelowLow ==
    [][\A c \in clients \cap clients' :
          slow[c] /\ ~slow'[c] => q'[c] < SlowHigh \div 2]_vars

=============================================================================
