---------------------------- MODULE Rfc5444Reader -----------------------------
(* The RFC 5444 reader after parsing: packet, message and address consumers,  *)
(* the callbacks they get and what the answers of the callbacks do            *)
(* (rfc5444_reader.c).  Packets are octets, taken apart by Rfc5444Parse.       *)
(* A packet is handled in one step, as nothing else runs meanwhile: the       *)
(* callbacks answer RFC5444_OKAY, except for those a script names.            *)
EXTENDS Rfc5444Parse, FiniteSets

CONSTANTS
  ConsumerOf,   \* for each consumer its struct rfc5444_reader_tlvblock_consumer
  Packets,      \* the packets that may arrive
  Scripts,      \* answers: functions from numbers of callbacks to results
  TlvRoom       \* bound: entries of a kind that can be allocated for a packet

\* A consumer: kind ("packet", "message", "address"), order, type (0 for a default
\* consumer), entries (sequence of [type, ext or -1, mandatory, min, max]) and cb,
\* the callbacks it has.
Consumers == DOMAIN ConsumerOf

ConsumerEntry == [type : Octet, ext : Octet \cup {-1}, mandatory : BOOLEAN, min : Nat, max : Nat]

\* Two entries for different TLVs.
Apart(x, y) == x.type # y.type \/ (x.ext # -1 /\ y.ext # -1 /\ x.ext # y.ext)

\* A packet arrives as octets, every answer is a number, and the reader, which
\* forwards messages, is no consumer.
ASSUME ReaderAssumption ==
  /\ \A c \in Consumers : ConsumerOf[c].entries \in Seq(ConsumerEntry)
  /\ \A b \in Packets : b \in Seq(Octet)
  /\ \A script \in Scripts : \A n \in DOMAIN script : script[n] \in Int
  /\ "reader" \notin Consumers

\* A consumer asks for a TLV once.  The code does not check it; of two entries for
\* the same TLV it would fill the one that comes first in their order.
ASSUME EntriesAssumption ==
  \A c \in Consumers : \A i, j \in DOMAIN ConsumerOf[c].entries :
    i # j => Apart(ConsumerOf[c].entries[i], ConsumerOf[c].entries[j])

OKAY == 0
DROP_TLV == 1
DROP_ADDRESS == 2
DROP_MSG_BUT_FORWARD == 3
DROP_MESSAGE == 4
DROP_PACKET == 5
PARSE_ERROR == -1   \* one of the negative results

VARIABLES
  packet_consumer,   \* the trees of consumers, in their order
  message_consumer,
  packet,            \* the packet handled last, <<>> for none
  log                \* the callbacks of this packet

readerVars == <<packet_consumer, message_consumer, packet, log>>

-----------------------------------------------------------------------------
(* Consumers *)

\* _consumer_avl_comp(): is the first behind the second?
Behind(c, d) ==
  \/ ConsumerOf[c].order > ConsumerOf[d].order
  \/ /\ ConsumerOf[c].order = ConsumerOf[d].order
     /\ ConsumerOf[c].kind = "address" /\ ConsumerOf[d].kind # "address"

InsertConsumer(tree, c) == InsertBefore(tree, SelectInSeq(tree, LAMBDA d : Behind(d, c)), c)

RemoveConsumer(tree, c) ==
  LET place == SelectInSeq(tree, LAMBDA d : d = c)
  IN IF place = 0 THEN tree ELSE RemoveAt(tree, place)

\* Mutant: the entries stay in the order in which they were given.
EntriesUnsorted(c) == ConsumerOf[c].entries

\* _add_consumer() sorts the entries of a consumer, stable, and repairs their
\* lengths.
entry_intorder(x) == intorder(x.type, IF x.ext = -1 THEN 0 ELSE x.ext)

InsertEntry(list, x) ==
  InsertBefore(list, SelectInSeq(list, LAMBDA y : entry_intorder(y) > entry_intorder(x)),
               [x EXCEPT !.max = IF x.min > x.max THEN x.min ELSE x.max])

EntriesOf(c) ==
  LET e == ConsumerOf[c].entries
      sorted[k \in 0 .. Len(e)] == IF k = 0 THEN <<>> ELSE InsertEntry(sorted[k - 1], e[k])
  IN sorted[Len(e)]

\* rfc5444_reader_add_packet_consumer(), rfc5444_reader_add_message_consumer()
add_consumer(c) ==
  /\ packet = <<>>
  /\ c \notin Range(packet_consumer) \cup Range(message_consumer)
  /\ IF ConsumerOf[c].kind = "packet"
     THEN packet_consumer' = InsertConsumer(packet_consumer, c) /\ UNCHANGED message_consumer
     ELSE message_consumer' = InsertConsumer(message_consumer, c) /\ UNCHANGED packet_consumer
  /\ UNCHANGED <<packet, log>>

\* rfc5444_reader_remove_packet_consumer(), rfc5444_reader_remove_message_consumer()
remove_consumer(c) ==
  /\ packet = <<>>
  /\ c \in Range(packet_consumer) \cup Range(message_consumer)
  /\ packet_consumer' = RemoveConsumer(packet_consumer, c)
  /\ message_consumer' = RemoveConsumer(message_consumer, c)
  /\ UNCHANGED <<packet, log>>

-----------------------------------------------------------------------------
(* Callbacks.  While a packet is handled the state is: the script, the log,   *)
(* the message and the address (block and index) of the context, and what has *)
(* been dropped.                                                              *)

NoAddress == <<0, 0>>

Handling(script) ==
  [script |-> script, log |-> <<>>, result |-> OKAY, message |-> 0, addr |-> NoAddress,
   dropTlv |-> {}, dropAddr |-> {}]

\* A callback is made if the consumer has it; its answer is the new result.
Call(s, c, cb, detail) ==
  LET n == Len(s.log) + 1
      answer == IF n \in DOMAIN s.script THEN s.script[n] ELSE OKAY
  IN IF cb \notin ConsumerOf[c].cb THEN s
     ELSE [s EXCEPT !.result = answer,
            !.log = Append(@, [consumer |-> c, cb |-> cb, message |-> s.message,
                               addr |-> s.addr, detail |-> detail, answer |-> answer])]

\* _compare_tlvtypes() for the tlv number i and the entry number j
CompareTypes(tlvs, entries, i, j) ==
  IF j > Len(entries) THEN (IF i > Len(tlvs) THEN 0 ELSE -1)
  ELSE IF i > Len(tlvs) THEN 1
  ELSE IF entries[j].ext = -1 THEN tlvs[i].type - entries[j].type
  ELSE intorder(tlvs[i].type, tlvs[i].ext) - intorder(entries[j].type, entries[j].ext)

\* The loop of _schedule_tlvblock() through TLVs and entries, which both are
\* sorted.  'x' holds the state, the positions, what was found for each entry, and
\* whether a constraint has failed.  A TLV is known by its context, position and
\* index.
IndexMatch(x, tlvs, idx) ==
  /\ x.i <= Len(tlvs)
  /\ <<x.s.message, x.s.addr, x.i>> \notin x.s.dropTlv
  /\ idx \in tlvs[x.i].index1 .. tlvs[x.i].index2

\* A TLV that its callback drops is marked.
Marked(s, i) ==
  IF s.result # DROP_TLV THEN s
  ELSE [s EXCEPT !.dropTlv = @ \cup {<<s.message, s.addr, i>>}, !.result = OKAY]

\* ... after the callback for the TLV, if it was one for this index.
Compared(x, entries, tlvs, called) ==
  LET first == CompareTypes(tlvs, entries, x.i, x.j)
      i == IF x.i <= Len(tlvs) /\ first <= 0 THEN x.i + 1 ELSE x.i
      advance == CompareTypes(tlvs, entries, i, x.j) > 0
      match == called /\ x.j <= Len(entries) /\ x.s.result # DROP_TLV /\ first = 0
      missing == x.j <= Len(entries) /\ entries[x.j].mandatory /\ ~ match
      length == match /\ ~ tlvs[x.i].length \in entries[x.j].min .. entries[x.j].max
  IN IF x.s.result \notin {OKAY, DROP_TLV} THEN x
     ELSE [s |-> Marked(x.s, x.i), i |-> i, j |-> IF advance THEN x.j + 1 ELSE x.j,
           failed |-> x.failed \/ (first >= 0 /\ (missing \/ length)) \/ (advance /\ missing),
           found |-> IF match THEN [x.found EXCEPT ![x.j] = Append(@, x.i)] ELSE x.found]

NextTurn(x, c, entries, tlvs, idx) ==
  IF x.s.result # OKAY \/ (x.i > Len(tlvs) /\ x.j > Len(entries)) THEN x
  ELSE IF IndexMatch(x, tlvs, idx)
  THEN Compared([x EXCEPT !.s = Call(x.s, c, "tlv", x.i)], entries, tlvs, TRUE)
  ELSE Compared(x, entries, tlvs, FALSE)

\* Each turn goes on to another TLV or entry.
Merge(s, c, entries, tlvs, idx) ==
  LET turns == Len(tlvs) + Len(entries)
      turn[k \in 0 .. turns] ==
        IF k = 0 THEN [s |-> [s EXCEPT !.result = OKAY], i |-> 1, j |-> 1, failed |-> FALSE,
                       found |-> [n \in 1 .. Len(entries) |-> <<>>]]
        ELSE NextTurn(turn[k - 1], c, entries, tlvs, idx)
  IN turn[turns]

\* The callback for a whole block.  One that drops TLVs has marked the first TLV
\* of every entry.
BlockDropped(x, found) ==
  IF x.result # DROP_TLV THEN x
  ELSE [x EXCEPT !.result = OKAY,
         !.dropTlv = @ \cup {<<x.message, x.addr, found[n][1]>> :
                               n \in {k \in DOMAIN found : found[k] # <<>>}}]

TellBlock(m, c) ==
  IF m.s.result # OKAY THEN m.s
  ELSE BlockDropped(Call(m.s, c, IF m.failed THEN "failed" ELSE "block", m.found), m.found)

\* _schedule_tlvblock()
schedule_tlvblock(s, c, tlvs, idx) ==
  TellBlock(Merge(s, c, EntriesOf(c), tlvs, idx), c)

\* An end callback raises the result, but never lowers it.
CallEnd(s, c) ==
  LET x == Call(s, c, "end", s.result # OKAY)
  IN [x EXCEPT !.result = IF x.result > s.result THEN x.result ELSE s.result]

\* schedule_msgtlv_consumer()
schedule_msgtlv_consumer(s, c, tlvs) ==
  LET x == Call([s EXCEPT !.addr = NoAddress, !.result = OKAY], c, "start", 0)
  IN IF x.result = OKAY THEN schedule_tlvblock(x, c, tlvs, 0) ELSE x

\* What the end of an address leaves: a drop stays with it.
AddressEnded(x) ==
  IF x.result = DROP_ADDRESS
  THEN [x EXCEPT !.result = OKAY, !.dropAddr = @ \cup {<<x.message, x.addr>>}] ELSE x

ServeAddress(x, c, tlvs) ==
  IF x.result # OKAY THEN x ELSE schedule_tlvblock(x, c, tlvs, x.addr[2] - 1)

\* Start, TLVs and end for one address, known by the numbers of its block and in it.
ShowAddress(x, c, a, tlvs) ==
  AddressEnded(CallEnd(ServeAddress(Call([x EXCEPT !.addr = a], c, "start", 0), c, tlvs), c))

\* Mutant: an address that was dropped is shown to later consumers.
NextShownOfAll(x, c, a, tlvs) == IF x.result # OKAY THEN x ELSE ShowAddress(x, c, a, tlvs)

NextShown(x, c, a, tlvs) ==
  IF x.result # OKAY \/ <<x.message, a>> \in x.dropAddr THEN x ELSE ShowAddress(x, c, a, tlvs)

ServeBlock(s, c, b, block) ==
  LET turn[i \in 0 .. Len(block.addrs)] ==
        IF i = 0 THEN s ELSE NextShown(turn[i - 1], c, <<b, i>>, block.tlvs)
  IN turn[Len(block.addrs)]

\* schedule_msgaddr_consumer(): every address that has not been dropped.
schedule_msgaddr_consumer(s, c, blocks) ==
  LET turn[b \in 0 .. Len(blocks)] ==
        IF b = 0 THEN [s EXCEPT !.result = OKAY] ELSE ServeBlock(turn[b - 1], c, b, blocks[b])
  IN turn[Len(blocks)]

\* schedule_end_message_cbs() for the consumers started since the last group, the
\* last one first.
schedule_end_message_cbs(s, group) ==
  LET turn[k \in 0 .. Len(group)] ==
        IF k = 0 THEN [s EXCEPT !.addr = NoAddress]
        ELSE CallEnd(turn[k - 1], group[Len(group) + 1 - k])
  IN turn[Len(group)]

\* Mutant: a failed consumer ends the message without the end callbacks.
ConsumersWithoutEnd(s, msg) ==
  FoldLeft(LAMBDA y, c :
             IF y.result # OKAY \/ ConsumerOf[c].type \notin {0, msg.type} THEN y
             ELSE IF ConsumerOf[c].kind = "address" THEN schedule_msgaddr_consumer(y, c, msg.blocks)
             ELSE LET z == schedule_msgtlv_consumer(y, c, msg.tlvs)
                  IN IF z.result = OKAY THEN CallEnd(z, c) ELSE z,
           s, message_consumer)

\* In the loop over the consumers 'x' holds the state and the group of consumers
\* with the same order: a consumer with a higher order closes the group.
Closes(x, c) == x.group # <<>> /\ ConsumerOf[c].order > ConsumerOf[Last(x.group)].order

EndGroup(x) == schedule_end_message_cbs(x.s, x.group)

Serve(s, group, c, msg) ==
  IF s.result # OKAY THEN [s |-> s, group |-> <<>>]
  ELSE IF ConsumerOf[c].kind = "address"
  THEN [s |-> schedule_msgaddr_consumer(s, c, msg.blocks), group |-> group]
  ELSE [s |-> schedule_msgtlv_consumer(s, c, msg.tlvs), group |-> Append(group, c)]

NextConsumer(x, c, msg) ==
  IF x.s.result # OKAY \/ ConsumerOf[c].type \notin {0, msg.type} THEN x
  ELSE IF Closes(x, c) THEN Serve(EndGroup(x), <<>>, c, msg)
  ELSE Serve(x.s, x.group, c, msg)

\* The loop of _handle_message() over the consumers of a message.
ScheduleMessage(s, msg) ==
  LET turn[k \in 0 .. Len(message_consumer)] ==
        IF k = 0 THEN [s |-> s, group |-> <<>>]
        ELSE NextConsumer(turn[k - 1], message_consumer[k], msg)
  IN EndGroup(turn[Len(message_consumer)])

\* The end of _handle_message(): the message is forwarded, a drop ends here.
ForwardMessage(s, msg) ==
  LET forwarded == s.result \in {OKAY, DROP_MSG_BUT_FORWARD} /\ msg.hoplimit > 1
      x == IF forwarded THEN [s EXCEPT !.log = Append(@,
             [consumer |-> "reader", cb |-> "forward", message |-> s.message, addr |-> NoAddress,
              detail |-> 0, answer |-> OKAY])] ELSE s
  IN IF x.result = DROP_MESSAGE THEN [x EXCEPT !.result = OKAY] ELSE x

\* _handle_message() for one message after the other, as long as all is well.
handle_message(s, msg) ==
  LET x == [s EXCEPT !.message = @ + 1, !.addr = NoAddress]
  IN IF s.result # OKAY THEN s
     ELSE IF msg = Bad THEN [x EXCEPT !.result = PARSE_ERROR]
     ELSE ForwardMessage(ScheduleMessage(x, msg), msg)

handle_messages(s, msgs) ==
  LET turn[k \in 0 .. Len(msgs)] == IF k = 0 THEN s ELSE handle_message(turn[k - 1], msgs[k])
  IN turn[Len(msgs)]

\* The start of a packet for a packet consumer, and its TLVs.
StartPacket(s, c, header) ==
  IF s.result = OKAY /\ header.has_tlv /\ ConsumerOf[c].cb \cap {"tlv", "block"} # {}
  THEN schedule_tlvblock(s, c, header.tlvs, 0) ELSE s

NextStarted(x, c, header) ==
  IF x.s.result # OKAY THEN x
  ELSE [s |-> StartPacket(Call(x.s, c, "start", 0), c, header), started |-> Append(x.started, c)]

BeginPacket(header, script) ==
  LET turn[k \in 0 .. Len(packet_consumer)] ==
        IF k = 0 THEN [s |-> Handling(script), started |-> <<>>]
        ELSE NextStarted(turn[k - 1], packet_consumer[k], header)
  IN turn[Len(packet_consumer)]

\* The result of the end of a packet is lost.
EndCall(s, c) ==
  [Call([s EXCEPT !.message = 0, !.addr = NoAddress], c, "end", s.result # OKAY)
     EXCEPT !.result = s.result]

EndPacket(s, started) ==
  LET turn[k \in 0 .. Len(started)] ==
        IF k = 0 THEN s ELSE EndCall(turn[k - 1], started[Len(started) + 1 - k])
  IN turn[Len(started)]

ReadPacket(begun, msgs) == EndPacket(handle_messages(begun.s, msgs), begun.started)

CallsFor(header, b, script) ==
  IF header = Bad THEN <<>>
  ELSE ReadPacket(BeginPacket(header, script), MessagesFrom(b, header.next, TlvRoom)).log

\* rfc5444_reader_handle_packet()
handle_packet(b, script) ==
  /\ packet = <<>>
  /\ packet' = b
  /\ log' = CallsFor(parse_packet(b, TlvRoom), b, script)
  /\ UNCHANGED <<packet_consumer, message_consumer>>

\* The caller goes on.
PacketDone ==
  /\ packet # <<>>
  /\ packet' = <<>> /\ log' = <<>>
  /\ UNCHANGED <<packet_consumer, message_consumer>>

ReaderInit ==
  /\ packet_consumer = <<>> /\ message_consumer = <<>>
  /\ packet = <<>> /\ log = <<>>

ReaderNext ==
  \/ \E c \in Consumers : add_consumer(c) \/ remove_consumer(c)
  \/ \E b \in Packets, script \in Scripts : handle_packet(b, script)
  \/ PacketDone

ReaderSpec == ReaderInit /\ [][ReaderNext]_readerVars

-----------------------------------------------------------------------------
(* Properties *)

\* A consumer of messages that got the start of a message gets its end, once,
\* and nothing of this message after it, whichever callback in between has
\* dropped what.  The same is true for packet consumers and packets.
StartedIsEnded ==
  \A i \in DOMAIN log :
    LET c == log[i].consumer
        mine == {k \in DOMAIN log : log[k].consumer = c /\ log[k].message = log[i].message
                                    /\ log[k].addr = log[i].addr}
    IN log[i].cb = "start" /\ "end" \in ConsumerOf[c].cb =>
         Cardinality({k \in mine : log[k].cb = "end"}) = 1 /\ log[Max(mine)].cb = "end"

\* What a callback has dropped is not shown to anyone later: an address to no
\* other consumer, a TLV to no other callback for the same address or message,
\* a message to no consumer with a higher order.
DroppedIsSilent ==
  \A i, k \in DOMAIN log : i < k /\ log[i].message = log[k].message /\ log[i].consumer # log[k].consumer =>
    /\ log[i].addr # NoAddress /\ log[i].answer = DROP_ADDRESS => log[k].addr # log[i].addr
    /\ log[i].cb = "tlv" /\ log[i].answer = DROP_TLV /\ log[i].addr = log[k].addr =>
         /\ log[k].cb = "tlv" => log[k].detail # log[i].detail
         /\ log[k].cb = "block" => \A f \in Range(log[k].detail) : log[i].detail \notin Range(f)
    /\ log[i].message # 0 /\ log[i].answer \in {DROP_MESSAGE, DROP_MSG_BUT_FORWARD} =>
         log[k].cb \in {"end", "forward"}

\* The messages of the packet, and the TLVs of the context of a callback.
Messages == MessagesFrom(packet, parse_packet(packet, TlvRoom).next, TlvRoom)

TlvsIn(msg, addr) == IF addr = NoAddress THEN msg.tlvs ELSE msg.blocks[addr[1]].tlvs

ContextTlvs(call) ==
  IF call.message = 0 THEN parse_packet(packet, TlvRoom).tlvs
  ELSE TlvsIn(Messages[call.message], call.addr)

\* Is it a TLV for the entry x, and for the address with this index?
AsksFor(x, tlv, idx) ==
  tlv.type = x.type /\ x.ext \in {-1, tlv.ext} /\ idx \in tlv.index1 .. tlv.index2

\* A callback drops its TLV, or the first TLV of every entry of its block.
Drops(call, t) ==
  /\ call.answer = DROP_TLV
  /\ \/ call.cb = "tlv" /\ call.detail = t
     \/ call.cb \in {"block", "failed"} /\ \E f \in Range(call.detail) : f # <<>> /\ f[1] = t

\* What the callback number i of a log was told of the TLVs of its context.
IndexOf(addr) == IF addr = NoAddress THEN 0 ELSE addr[2] - 1

DroppedBefore(l, i, t) ==
  \E n \in 1 .. i - 1 : l[n].message = l[i].message /\ l[n].addr = l[i].addr /\ Drops(l[n], t)

EntryIsComplete(x, found, left, tlvs, idx) ==
  /\ Range(found) = {t \in left : AsksFor(x, tlvs[t], idx)}
  /\ \A m, n \in DOMAIN found : m < n => found[m] < found[n]
  /\ x.mandatory => found # <<>>
  /\ \A t \in Range(found) : tlvs[t].length \in x.min .. x.max

BlockIsComplete(l, i, tlvs) ==
  LET entries == EntriesOf(l[i].consumer)
      left == {t \in DOMAIN tlvs : ~ DroppedBefore(l, i, t)}
  IN \A j \in DOMAIN entries :
       EntryIsComplete(entries[j], l[i].detail[j], left, tlvs, IndexOf(l[i].addr))

\* A block callback is told, for every entry of its consumer, all the TLVs of
\* this type and for this address which nobody has dropped, in their order; and
\* it is only called when all mandatory TLVs are there and all lengths are right.
TlvsReachConsumer ==
  \A i \in DOMAIN log : log[i].cb = "block" => BlockIsComplete(log, i, ContextTlvs(log[i]))

\* "RFC5444_DROP_MESSAGE_BUT_FORWARD means to drop the current message but
\* forward allow to forward it" (rfc5444_context.h): it does not drop the
\* messages that follow in the packet.
DropMessageOnly ==
  \A i \in DOMAIN log, c \in Range(message_consumer) :
    LET next == log[i].message + 1
    IN /\ log[i].message > 0 /\ log[i].answer = DROP_MSG_BUT_FORWARD
       /\ \A k \in DOMAIN log : k # i => log[k].answer = OKAY
       /\ next <= Len(Messages) /\ Messages[next] # Bad
       /\ ConsumerOf[c].kind = "message" /\ ConsumerOf[c].type \in {0, Messages[next].type}
       => \E k \in DOMAIN log : log[k].consumer = c /\ log[k].message = next
=============================================================================
