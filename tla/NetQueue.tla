------------------------------ MODULE NetQueue ------------------------------
(***************************************************************************)
(* The packet queue in front of a network client, as the harness carries   *)
(* it over from QEMU (harness/e1000/klee_external_function_calls.c).  The  *)
(* queue calls out in two places: the receiver's handler, which may send   *)
(* again on the same queue before it returns (a hub, a loopback peer), and *)
(* sent_cb, which the flush loop calls between two packets and from which  *)
(* a sender goes on sending (virtio_net_tx_complete).  So a call and its   *)
(* return are two steps, and the calls in progress are on a stack.         *)
(***************************************************************************)
EXTENDS Naturals, Sequences, SequencesExt

CONSTANTS
    nq_maxlen,      \* queue limit for packets without a callback
    MaxPackets      \* bound: packets sent in a behaviour

ASSUME QueueAssumption == nq_maxlen \in Nat \ {0} /\ MaxPackets \in Nat

VARIABLES
    packets,            \* queue->packets: oldest first
    nq_count,           \* queue->nq_count
    delivering,         \* queue->delivering
    receive_disabled,   \* nc->receive_disabled of the receiver
    can_receive,        \* what the receiver's can_receive answers
    link_down,          \* nc->link_down of the receiver
    stack,              \* calls in progress, innermost last
    waiting,            \* the sender that uses callbacks got 0 and stopped
    behind,             \* history: able with packets queued, not flushed since
    sent,               \* history: packets sent so far; the next id
    got,                \* history: packets the receiver accepted, in order
    lost                \* history: ids dropped or refused

vars == <<packets, nq_count, delivering, receive_disabled, can_receive,
          link_down, stack, waiting, behind, sent, got, lost>>

(* cb: sent_cb is not NULL.  from and behind are histories: who sent it,   *)
(* and what behind was then.                                               *)
Packet ==
    [id : 1..MaxPackets, cb : BOOLEAN, from : {"outside", "handler", "callback"},
     behind : BOOLEAN]

(* A call of the handler, by the function fn; the loop of                  *)
(* qemu_net_queue_flush between two packets; sent_cb, called by that loop. *)
Loop     == [fn |-> "loop"]
Callback == [fn |-> "callback"]
Frame    == [fn : {"send", "flush"}, packet : Packet] \cup {Loop, Callback}

IsHandler(f) == f.fn \in {"send", "flush"}
InHandler    == stack # <<>> /\ IsHandler(Last(stack))

Init ==
    /\ packets = <<>> /\ nq_count = 0 /\ delivering = FALSE
    /\ receive_disabled = FALSE /\ can_receive = FALSE /\ link_down = FALSE
    /\ stack = <<>> /\ waiting = FALSE /\ behind = FALSE
    /\ sent = 0 /\ got = <<>> /\ lost = {}

qemu_can_send_packet == ~receive_disabled /\ can_receive

(* Mutant: the limit is checked for no packet at all.                      *)
Mutant_append_always(p) ==
    /\ packets' = Append(packets, p) /\ nq_count' = nq_count + 1
    /\ lost' = lost

(* Mutant: the limit also applies to packets whose sender waits.           *)
Mutant_append_limit(p) ==
    IF nq_count >= nq_maxlen
    THEN lost' = lost \cup {p.id} /\ UNCHANGED <<packets, nq_count>>
    ELSE packets' = Append(packets, p) /\ nq_count' = nq_count + 1 /\ lost' = lost

qemu_net_queue_append(p) ==
    IF nq_count >= nq_maxlen /\ ~p.cb
    THEN lost' = lost \cup {p.id} /\ UNCHANGED <<packets, nq_count>>
    ELSE packets' = Append(packets, p) /\ nq_count' = nq_count + 1 /\ lost' = lost

(* Mutant: the packet is forgotten.                                        *)
Mutant_not_put_back(p) == UNCHANGED <<packets, nq_count>>

(* Mutant: it goes to the end of the queue.                                *)
Mutant_put_last(p) == packets' = Append(packets, p) /\ nq_count' = nq_count + 1

(* A flushed packet that met a 0 goes back to the head of the queue.       *)
PutBack(p) == packets' = <<p>> \o packets /\ nq_count' = nq_count + 1

-----------------------------------------------------------------------------
(* Mutant: a handler in progress does not make the packet wait.            *)
Mutant_send_reentrant(p) ==
    IF ~qemu_can_send_packet
    THEN /\ qemu_net_queue_append(p)
         /\ waiting' = (waiting \/ p.cb)
         /\ UNCHANGED <<stack, delivering>>
    ELSE /\ stack' = Append(stack, [fn |-> "send", packet |-> p])
         /\ delivering' = TRUE
         /\ UNCHANGED <<packets, nq_count, lost, waiting>>

(* With the link down the packet counts as delivered without reaching the  *)
(* handler, and the queue is flushed.                                      *)
qemu_net_queue_send(p) ==
    IF delivering \/ ~qemu_can_send_packet
    THEN /\ qemu_net_queue_append(p)
         /\ waiting' = (waiting \/ p.cb)
         /\ UNCHANGED <<stack, delivering>>
    ELSE IF link_down
    THEN /\ stack' = Append(stack, Loop)
         /\ lost' = lost \cup {p.id}
         /\ UNCHANGED <<packets, nq_count, delivering, waiting>>
    ELSE /\ stack' = Append(stack, [fn |-> "send", packet |-> p])
         /\ delivering' = TRUE
         /\ UNCHANGED <<packets, nq_count, lost, waiting>>

SendPacket(cb, from) ==
    /\ sent < MaxPackets
    /\ qemu_net_queue_send([id |-> sent + 1, cb |-> cb, from |-> from, behind |-> behind])
    /\ sent' = sent + 1
    /\ UNCHANGED <<receive_disabled, can_receive, link_down, behind, got>>

(* Somebody sends while no call is in progress.  A sender with a callback  *)
(* keeps its promise not to send while it waits.  A sender whose own link  *)
(* is down drops its packet before this queue.                             *)
Send == \E cb \in BOOLEAN : stack = <<>> /\ (cb => ~waiting) /\ SendPacket(cb, "outside")

(* The handler sends (hub and user-mode peers, which pass no callback).    *)
SendFromHandler == InHandler /\ SendPacket(FALSE, "handler")

(* sent_cb sends on, with a callback again, until it is told to wait.      *)
InCallback == stack # <<>> /\ Last(stack) = Callback
SendFromCallback == InCallback /\ ~waiting /\ SendPacket(TRUE, "callback")

CallbackReturns ==
    /\ InCallback
    /\ stack' = Append(Front(stack), Loop)
    /\ UNCHANGED <<packets, nq_count, delivering, receive_disabled, can_receive,
                   link_down, waiting, behind, sent, got, lost>>

(* Mutant: sent_cb is called for no packet.                                *)
Mutant_no_callback(p) == stack' = Append(Front(stack), Loop) /\ waiting' = waiting

(* The flush loop is done with p, which was not put back.  The sender no   *)
(* longer waits when sent_cb begins to send.                               *)
Completed(p) ==
    /\ stack' = Append(Front(stack), IF p.cb THEN Callback ELSE Loop)
    /\ waiting' = (waiting /\ ~p.cb)

(* The handler returns ret: 1 accepted, 0 not now, -1 refused for good.    *)
(* What follows is the rest of qemu_deliver_packet and of its caller.      *)
Return(ret) ==
    /\ InHandler
    /\ LET fn == Last(stack).fn
           p == Last(stack).packet
       IN  /\ got' = IF ret = 1 THEN Append(got, p) ELSE got
           /\ receive_disabled' = (receive_disabled \/ ret = 0)
           /\ \/ /\ ret = 0 /\ fn = "send"
                 /\ qemu_net_queue_append(p)
                 /\ waiting' = (waiting \/ p.cb)
                 /\ stack' = Front(stack)
              \/ /\ ret = 0 /\ fn = "flush"
                 /\ PutBack(p)
                 /\ stack' = Front(stack)
                 /\ UNCHANGED <<lost, waiting>>
              \/ /\ ret # 0
                 /\ IF fn = "flush" THEN Completed(p)
                    ELSE stack' = Append(Front(stack), Loop) /\ waiting' = waiting
                 /\ lost' = IF ret = -1 THEN lost \cup {p.id} ELSE lost
                 /\ UNCHANGED <<packets, nq_count>>
    /\ delivering' = FALSE
    /\ UNCHANGED <<can_receive, link_down, behind, sent>>

(* One round of the loop of qemu_net_queue_flush: it ends with the queue   *)
(* or, a callback having met a 0 meanwhile, puts its packet back at once;  *)
(* drops a packet whose receiver has its link down; or calls the handler.  *)
FlushRound ==
    /\ stack # <<>> /\ Last(stack) = Loop
    /\ behind' = FALSE
    /\ \/ /\ packets = <<>> \/ (receive_disabled /\ ~link_down)
          /\ stack' = Front(stack)
          /\ UNCHANGED <<packets, nq_count, delivering, waiting, lost>>
       \/ /\ packets # <<>> /\ link_down
          /\ packets' = Tail(packets) /\ nq_count' = nq_count - 1
          /\ lost' = lost \cup {Head(packets).id}
          /\ Completed(Head(packets))
          /\ delivering' = FALSE
       \/ /\ packets # <<>> /\ ~link_down /\ ~receive_disabled
          /\ packets' = Tail(packets) /\ nq_count' = nq_count - 1
          /\ stack' = Append(Front(stack), [fn |-> "flush", packet |-> Head(packets)])
          /\ delivering' = TRUE
          /\ UNCHANGED <<waiting, lost>>
    /\ UNCHANGED <<receive_disabled, can_receive, link_down, sent, got>>

(* The receiver becomes able to receive and does not flush: e1000 when its *)
(* link comes up.                                                          *)
BecomeAble ==
    /\ stack = <<>>
    /\ ~can_receive /\ can_receive' = TRUE
    /\ behind' = (behind \/ packets # <<>>)
    /\ UNCHANGED <<packets, nq_count, delivering, receive_disabled, link_down,
                   stack, waiting, sent, got, lost>>

(* qemu_flush_queued_packets, which e1000 calls for a write of RCTL or RDT *)
(* whether it becomes able by it or not.  The flush does not look at       *)
(* delivering: it relies on its callers, of which none is a handler or a   *)
(* callback.                                                               *)
Flush ==
    /\ stack = <<>>
    /\ receive_disabled' = FALSE /\ can_receive' \in {can_receive, TRUE}
    /\ stack' = <<Loop>>
    /\ UNCHANGED <<packets, nq_count, delivering, link_down, waiting, behind, sent, got, lost>>

(* The receiver runs out of buffers or is switched off.                    *)
Disable ==
    /\ stack = <<>> \/ InHandler
    /\ can_receive /\ can_receive' = FALSE
    /\ UNCHANGED <<packets, nq_count, delivering, receive_disabled, link_down,
                   stack, waiting, behind, sent, got, lost>>

SetLink ==
    /\ stack = <<>>
    /\ link_down' = ~link_down
    /\ UNCHANGED <<packets, nq_count, delivering, receive_disabled, can_receive,
                   stack, waiting, behind, sent, got, lost>>

Returns == \E ret \in {1, 0, -1} : Return(ret)

Next ==
    \/ Send \/ SendFromHandler \/ SendFromCallback
    \/ Returns \/ CallbackReturns \/ FlushRound
    \/ BecomeAble \/ Flush \/ Disable \/ SetLink

(* Calls return and the loop goes on; a handler that is asked again and    *)
(* again accepts some time.  Nothing makes a receiver flush.               *)
Fairness ==
    /\ WF_vars(Returns \/ CallbackReturns \/ FlushRound)
    /\ SF_vars(Return(1))

Spec     == Init /\ [][Next]_vars
FairSpec == Spec /\ Fairness

-----------------------------------------------------------------------------
(* The receive handler is never entered while it is running, and           *)
(* delivering says when it runs.  A callback that sends on is never called *)
(* again by the flush that its own packets start: the recursion of flush,  *)
(* callback, send and flush ends at the second flush.                      *)
HandlerNotReentered ==
    /\ \A i \in DOMAIN stack : IsHandler(stack[i]) => i = Len(stack)
    /\ delivering <=> InHandler
    /\ Len(stack) <= 2
    /\ \A i \in DOMAIN stack : stack[i] = Callback => i = 1

(* Every packet sent is in exactly one place: queued, with the handler,    *)
(* accepted, or dropped for a reason.                                      *)
Ids(ps)  == {ps[i].id : i \in DOMAIN ps}
Handlers == {i \in DOMAIN stack : IsHandler(stack[i])}
InFlight == {stack[i].packet.id : i \in Handlers}
Conserved ==
    /\ 1..sent = Ids(packets) \cup InFlight \cup Ids(got) \cup lost
    /\ sent = Len(packets) + Cardinality(Handlers) + Len(got) + Cardinality(lost)

(* No packet overtakes one that was sent before it, through refusals and   *)
(* re-inserts, unless it was sent from inside a call or while the receiver *)
(* was able with older packets still queued.  These do: sent_cb runs       *)
(* inside the flush loop with delivering clear, so that what it sends is   *)
(* delivered before what the loop has not reached; a handler's packet is   *)
(* queued before its own, when that is refused; and a receiver that        *)
(* becomes able without flushing gets the next packet first.               *)
MayOvertake(p) == p.from # "outside" \/ p.behind
DeliveredInOrder ==
    \A i, j \in DOMAIN got : i < j /\ ~MayOvertake(got[i]) => got[i].id < got[j].id

(* The queue cannot grow without bound: packets without a callback stop at *)
(* the limit; one packet whose sender waits and one that a flush puts back *)
(* may exceed it.  The counter that the limit is compared with is the      *)
(* length of the list at every call and return, around the remove and      *)
(* re-insert of a flush that got 0 too.                                    *)
QueueBounded == nq_count = Len(packets) /\ Len(packets) <= nq_maxlen + 2

(* The sender waits exactly as long as its packet is still to be           *)
(* delivered: it is never dropped for lack of room, and no callback comes  *)
(* early or is forgotten, those included that wait again in a callback.    *)
WaiterHasPacket ==
    waiting <=> \/ \E i \in DOMAIN packets : packets[i].cb
                \/ \E i \in DOMAIN stack : stack[i].fn = "flush" /\ stack[i].packet.cb

(* If the receiver flushes again and again, a sender that was told to wait *)
(* is called back.  Becoming able is not enough: see BecomeAble.           *)
CallbackComes == []<><<Flush>>_vars => (waiting ~> ~waiting)
=============================================================================
