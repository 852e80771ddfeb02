---------------------------- MODULE Rfc5444Writer -----------------------------
(* The RFC 5444 writer: the registry of message creators, content providers   *)
(* and TLV types (rfc5444_writer.c), messages built from what the providers   *)
(* contribute (rfc5444_msg_generator.c), the buffers of their TLVs            *)
(* (rfc5444_tlv_writer.c) and the packets that collect the messages for each  *)
(* target (rfc5444_pkt_generator.c).                                          *)
(* An address is added once, with at most one TLV of a type; memory for       *)
(* addresses and TLVs is not short.  Targets are new when they are            *)
(* registered, as the ones of oonf_rfc5444.c are.                             *)
EXTENDS Rfc5444Generator

CONSTANTS
  Targets,      \* the targets of packets
  PacketSize,   \* for each target the size of its packet buffer
  HasSeqno,     \* the targets whose packets have a sequence number
  MsgSize,      \* the size of the message buffer
  MsgType,      \* the type of the messages
  Contents,     \* what a message may consist of
  Later,        \* the contents that packets are built from in longer histories
  Forwards,     \* messages to forward, as octets
  PktTlv,       \* what the packet handler adds: a TLV to add, one to set later
  MaxChanges    \* bound: registrations and their removals in a history

\* The fields of a content: addrs, the message TLVs (added), the octets for TLVs
\* that are allocated, the TLVs to set when a fragment is finished (set), orig,
\* hoplimit, hopcount, seqno (None for a field the header does not have).

VARIABLES
  registry,  \* the message creator: exists, registered, specific, users
  targets,   \* the registered targets, in their order
  handler,   \* is the packet handler registered?
  pkt,       \* the packet of each target
  made,      \* the messages of the last create_message(), with their content
  sent,      \* the packets the last step has sent
  broken,    \* memory outside of a buffer has been used, or a loop never ends
  changes    \* registrations and their removals so far

writerVars == <<registry, targets, handler, pkt, made, sent, broken, changes>>

-----------------------------------------------------------------------------
(* rfc5444_tlv_writer.c: TLVs in front of what is added later *)

write_tlv(tlv) ==
  <<tlv.type, FlagOctet(ExtFlags(tlv.ext) \cup LengthFlags(Len(tlv.value)), TlvBit)>> \o ExtField(tlv.ext)
  \o LengthField(Len(tlv.value)) \o tlv.value

tlv_writer_init(header, max) ==
  [header |-> header, added |-> <<>>, allocated |-> 0, set |-> <<>>, max |-> max]

HasRoom(d, n) == d.header + Len(d.added) + d.allocated + n <= d.max

tlv_writer_add(d, tlv) ==
  IF HasRoom(d, Len(write_tlv(tlv))) THEN [d EXCEPT !.added = @ \o write_tlv(tlv)] ELSE d

tlv_writer_allocate(d, n) == IF HasRoom(d, n) THEN [d EXCEPT !.allocated = @ + n] ELSE d

tlv_writer_set(d, tlv) ==
  IF d.allocated - Len(d.set) < Len(write_tlv(tlv)) THEN d
  ELSE [d EXCEPT !.set = @ \o write_tlv(tlv)]

-----------------------------------------------------------------------------
(* rfc5444_pkt_generator.c, on a state [pkt, sent, broken] *)

NewPacket(t) ==
  [flushed |-> TRUE, tlv |-> tlv_writer_init(0, PacketSize[t]), bin |-> <<>>, msgs |-> <<>>]

\* _rfc5444_writer_begin_packet()
begin_packet(w, t) ==
  LET d == tlv_writer_init(IF t \in HasSeqno THEN 5 ELSE 3, PacketSize[t])
      tlvs == IF handler
              THEN tlv_writer_allocate(tlv_writer_add(d, PktTlv.added), Len(write_tlv(PktTlv.set)))
              ELSE d
  IN [w EXCEPT !.pkt[t].flushed = FALSE, !.pkt[t].tlv = tlvs]

\* The sequence number that the target's finishPacketHeader() sets.
PacketSeqno == 259

\* _write_pktheader(), with the octets behind it moved to its end.
PacketOctets(t, d, bin) ==
  LET tlvs == d.added \o d.set
      flags == (IF t \in HasSeqno THEN {"SEQNO"} ELSE {}) \cup (IF tlvs # <<>> THEN {"TLV"} ELSE {})
  IN <<FlagOctet(flags, PacketBit)>>
     \o (IF t \in HasSeqno THEN TwoOctets(PacketSeqno) ELSE <<>>)
     \o (IF tlvs # <<>> THEN TwoOctets(Len(tlvs)) \o tlvs ELSE <<>>)
     \o bin

\* Mutant: the messages stay in the packet buffer.
FlushKeepsMessages(w, t, force) ==
  IF w.pkt[t].flushed THEN w
  ELSE LET d == IF handler THEN tlv_writer_set(w.pkt[t].tlv, PktTlv.set) ELSE w.pkt[t].tlv
       IN [w EXCEPT !.pkt[t].flushed = TRUE, !.pkt[t].msgs = <<>>,
             !.sent = Append(@, [target |-> t, octets |-> PacketOctets(t, d, w.pkt[t].bin),
                                 msgs |-> w.pkt[t].msgs])]

\* The header of an open packet is finished and the packet is sent.
SendPacket(w, t) ==
  LET p == w.pkt[t]
      d == IF handler THEN tlv_writer_set(p.tlv, PktTlv.set) ELSE p.tlv
  IN [w EXCEPT !.pkt[t] = [p EXCEPT !.flushed = TRUE, !.bin = <<>>, !.msgs = <<>>],
               !.sent = Append(@, [target |-> t, octets |-> PacketOctets(t, d, p.bin),
                                   msgs |-> p.msgs])]

\* rfc5444_writer_flush()
flush(w, t, force) ==
  IF ~ w.pkt[t].flushed THEN SendPacket(w, t)
  ELSE IF force THEN SendPacket(begin_packet(w, t), t)
  ELSE w

AppendMessage(w, t, m) ==
  LET d == w.pkt[t].tlv
  IN [w EXCEPT !.pkt[t].bin = @ \o m, !.pkt[t].msgs = Append(@, m),
               !.broken = @ \/ d.header + Len(d.added) + d.allocated
                               + Len(w.pkt[t].bin) + Len(m) > PacketSize[t]]

\* A message goes to the end of the packet of a target; a packet that becomes
\* too large is sent first.  The space of allocated TLVs is not counted in the
\* test, but the message is written behind it.
PutMessage(w, t, m) ==
  LET d == w.pkt[t].tlv
      full == d.header + Len(d.added) + Len(d.set) + Len(w.pkt[t].bin) + Len(m) > d.max
  IN AppendMessage(IF full THEN begin_packet(flush(w, t, FALSE), t) ELSE w, t, m)

PutToAll(w, selected, m) ==
  FoldLeft(LAMBDA x, t : IF t \in selected THEN PutMessage(x, t, m) ELSE x, w, targets)

BeginAll(w, selected) ==
  FoldLeft(LAMBDA x, t : IF t \in selected /\ x.pkt[t].flushed THEN begin_packet(x, t) ELSE x,
           w, targets)

\* The octets of a message that have to fit behind header and TLVs of a packet.
RoomIn(w, t) ==
  LET d == w.pkt[t].tlv IN d.max - (d.header + Len(d.added) + d.allocated)

-----------------------------------------------------------------------------
(* rfc5444_msg_generator.c *)

\* rfc5444_writer_set_msg_header()
HeaderLen(c) ==
  6 + (IF c.orig = None THEN 0 ELSE AddrLen) + (IF c.hoplimit = None THEN 0 ELSE 1)
    + (IF c.hopcount = None THEN 0 ELSE 1) + (IF c.seqno = None THEN 0 ELSE 2)

\* _write_msgheader() with the TLVs and address blocks that follow.
MessageOctets(c, d, addrs) ==
  LET tlvs == d.added \o d.set
      flags == (IF c.orig = None THEN {} ELSE {"ORIGINATOR"})
               \cup (IF c.hoplimit = None THEN {} ELSE {"HOPLIMIT"})
               \cup (IF c.hopcount = None THEN {} ELSE {"HOPCOUNT"})
               \cup (IF c.seqno = None THEN {} ELSE {"SEQNO"})
  IN <<MsgType, MessageOctet(flags, AddrLen)>>
     \o TwoOctets(d.header + Len(tlvs) + Len(addrs))
     \o (IF c.orig = None THEN <<>> ELSE c.orig)
     \o (IF c.hoplimit = None THEN <<>> ELSE <<c.hoplimit>>)
     \o (IF c.hopcount = None THEN <<>> ELSE <<c.hopcount>>)
     \o (IF c.seqno = None THEN <<>> ELSE TwoOctets(c.seqno))
     \o TwoOctets(Len(tlvs)) \o tlvs \o addrs

\* The message TLVs before the addresses are written.
MessageTlvs(c, max) ==
  tlv_writer_allocate(FoldLeft(tlv_writer_add, tlv_writer_init(HeaderLen(c), max), c.added),
                      c.allocated)

\* The fragments of the address part.
Fragments(c, max) ==
  IF c.addrs = <<>> THEN [NoSession(<<>>) EXCEPT !.frags = <<(<<>>)>>]
  ELSE Compress(NoSession(c.addrs), c.addrs, max)

\* _finalize_message_fragment() for each fragment: a message for all targets.
Finalize(w, selected, c, data, session) ==
  LET final == FoldLeft(tlv_writer_set, data, c.set)
      messages == [i \in DOMAIN session.frags |-> MessageOctets(c, final, session.frags[i])]
      overrun == \E i \in DOMAIN session.frags :
                   data.header + Len(data.added) + data.allocated
                     + Len(session.frags[i]) > MsgSize
  IN [FoldLeft(LAMBDA x, m : PutToAll(x, selected, m), w, messages) EXCEPT
       !.broken = @ \/ overrun \/ session.status \in {"undefined", "endless"},
       !.made = [content |-> c, status |-> session.status, messages |-> messages,
                 max |-> data.max]]

\* The message from the header to the last fragment, for the selected targets:
\* rfc5444_writer_create_message() without the choice of the targets.
BuildMessage(w, selected, c) ==
  LET max == Min({MsgSize} \cup {RoomIn(w, t) : t \in selected \cap Range(targets)})
  IN Finalize(w, selected, c, MessageTlvs(c, max), Fragments(c, max))

\* The content without what a provider that is not registered would have added.
Contributed(c) ==
  IF "provider" \in registry.users THEN c
  ELSE [c EXCEPT !.addrs = <<>>, !.added = <<>>, !.allocated = 0, !.set = <<>>]

Quiet == [pkt |-> pkt, sent |-> <<>>, broken |-> broken, made |-> made]
Becomes(w) == \E x \in {w} : pkt' = x.pkt /\ sent' = x.sent /\ broken' = x.broken /\ made' = x.made

\* Contents outside of Later are only for a first message to all targets, and
\* nothing but a flush follows on it.
Untouched ==
  /\ made.content = None /\ changes = 0 /\ ~ handler /\ ~ registry.specific
  /\ pkt = [t \in Targets |-> NewPacket(t)] /\ sent = <<>>
Rich == made.content # None /\ made.content \notin Later

\* rfc5444_writer_create_message() with a selector that accepts 'selected'; for
\* a creator with messages of its own for each target one message after the
\* other, up to the first that fails.
create_message(selected, c) ==
  LET accepted == SelectSeq(targets, LAMBDA t : t \in selected)
      groups == IF registry.specific THEN [n \in DOMAIN accepted |-> {accepted[n]}]
                ELSE <<selected>>
  IN /\ ~ broken /\ ~ Rich
     /\ targets # <<>> /\ registry.registered
     /\ Becomes(FoldLeft(LAMBDA w, g : IF w.made.status = "too large" THEN w
                                       ELSE BuildMessage(BeginAll(w, g), g, Contributed(c)),
                         [Quiet EXCEPT !.made.status = "ok"], groups))
     /\ UNCHANGED <<registry, targets, handler, changes>>

\* rfc5444_writer_forward_msg() for the targets its selector accepts.
forward_msg(selected, m) ==
  LET x == BeginAll(Quiet, selected)
      used == selected \cap Range(targets)
      flags == FlagsIn(m[2], MessageBit)
      hoplimit == 5 + (IF "ORIGINATOR" \in flags THEN AddrLen ELSE 0)
      hopcount == hoplimit + (IF "HOPLIMIT" \in flags THEN 1 ELSE 0)
      limited == IF "HOPLIMIT" \in flags THEN [m EXCEPT ![hoplimit] = (@ - 1) % 256] ELSE m
      hopped == IF "HOPCOUNT" \in flags THEN [limited EXCEPT ![hopcount] = (@ + 1) % 256] ELSE limited
      forwarded == \/ "HOPLIMIT" \notin flags
                   \/ m[hoplimit] > 1
  IN /\ ~ broken /\ ~ Rich
     /\ registry.exists /\ used # {}
     /\ Becomes(IF Len(m) > Min({RoomIn(x, t) : t \in used}) \/ ~ forwarded THEN x
                ELSE PutToAll(x, selected, hopped))
     /\ UNCHANGED <<registry, targets, handler, changes>>

Flush(t, force) ==
  /\ ~ broken /\ t \in Range(targets)
  /\ Becomes(flush(Quiet, t, force))
  /\ UNCHANGED <<registry, targets, handler, changes>>

-----------------------------------------------------------------------------
(* rfc5444_writer.c: the registry.  Users of the creator are the content       *)
(* provider, its TLV types, and a TLV type that is registered on its own.     *)

NoCreator == [exists |-> FALSE, registered |-> FALSE, specific |-> FALSE, users |-> {}]

\* Mutant: a creator that is registered, but has no users, is freed.
LazyFreeOfRegistered(r) == IF r.users = {} THEN [r EXCEPT !.exists = FALSE] ELSE r

\* _lazy_free_message()
lazy_free_message(r) ==
  IF ~ r.registered /\ r.users = {} THEN NoCreator ELSE r

Change ==
  /\ ~ broken /\ ~ Rich
  /\ changes < MaxChanges /\ changes' = changes + 1

Registry(r) ==
  /\ Change
  /\ registry' = r /\ sent' = <<>>
  /\ UNCHANGED <<targets, handler, pkt, made, broken>>

register_message(specific) ==
  /\ ~ registry.registered
  /\ Registry([registry EXCEPT !.exists = TRUE, !.registered = TRUE, !.specific = specific])

unregister_message ==
  /\ registry.exists
  /\ Registry(lazy_free_message([registry EXCEPT !.registered = FALSE]))

register_msgcontentprovider ==
  /\ "provider" \notin registry.users
  /\ Registry([registry EXCEPT !.exists = TRUE, !.users = @ \cup {"provider", "provider type"}])

\* Each TLV type first, with a look at the creator, then the provider.
unregister_content_provider ==
  LET typeless == lazy_free_message([registry EXCEPT !.users = @ \ {"provider type"}])
  IN /\ "provider" \in registry.users
     /\ Registry(lazy_free_message([typeless EXCEPT !.users = @ \ {"provider"}]))

register_addrtlvtype ==
  /\ "single type" \notin registry.users
  /\ Registry([registry EXCEPT !.exists = TRUE, !.users = @ \cup {"single type"}])

unregister_addrtlvtype ==
  /\ "single type" \in registry.users
  /\ Registry(lazy_free_message([registry EXCEPT !.users = @ \ {"single type"}]))

register_target(t) ==
  /\ Change /\ t \notin Range(targets)
  /\ targets' = Append(targets, t)
  /\ pkt' = [pkt EXCEPT ![t] = NewPacket(t)] /\ sent' = <<>>
  /\ UNCHANGED <<registry, handler, made, broken>>

unregister_target(t) ==
  /\ Change /\ t \in Range(targets)
  /\ targets' = SelectSeq(targets, LAMBDA u : u # t)
  /\ pkt' = [pkt EXCEPT ![t] = NewPacket(t)] /\ sent' = <<>>
  /\ UNCHANGED <<registry, handler, made, broken>>

\* rfc5444_writer_register_pkthandler(), rfc5444_writer_unregister_pkthandler()
register_pkthandler(on) ==
  /\ Change /\ handler # on
  /\ handler' = on /\ sent' = <<>>
  /\ UNCHANGED <<registry, targets, pkt, made, broken>>

\* rfc5444_writer_cleanup(): packet handler, targets, then the creator with all
\* its users.
writer_cleanup ==
  /\ Change
  /\ handler' = FALSE /\ targets' = <<>> /\ sent' = <<>>
  /\ registry' = LET kept == [registry EXCEPT !.registered = registry.exists]
                     typed == lazy_free_message([kept EXCEPT !.users = @ \ {"provider"}])
                     untyped == lazy_free_message([typed EXCEPT !.users = {}])
                 IN lazy_free_message([untyped EXCEPT !.registered = FALSE])
  /\ pkt' = [t \in Targets |-> NewPacket(t)]
  /\ UNCHANGED <<made, broken>>

\* A writer after rfc5444_writer_init(), or with everything registered.
WriterInit ==
  /\ \/ registry = NoCreator /\ targets = <<>>
     \/ /\ \E specific \in BOOLEAN :
             registry = [exists |-> TRUE, registered |-> TRUE, specific |-> specific,
                         users |-> {"provider", "provider type"}]
        /\ targets = SetToSeq(Targets)
  /\ handler \in BOOLEAN
  /\ pkt = [t \in Targets |-> NewPacket(t)]
  /\ made = [content |-> None, status |-> "ok", messages |-> <<>>, max |-> 0]
  /\ sent = <<>> /\ broken = FALSE /\ changes = 0

WriterNext ==
  \/ \E c \in Later \cup (IF Untouched THEN Contents ELSE {}) :
       \E s \in IF c \in Later THEN SUBSET Targets ELSE {Targets} : create_message(s, c)
  \/ \E s \in SUBSET Targets, m \in Forwards : forward_msg(s, m)
  \/ \E t \in Targets, force \in BOOLEAN : Flush(t, force)
  \/ \E specific \in BOOLEAN : register_message(specific)
  \/ unregister_message
  \/ register_msgcontentprovider
  \/ unregister_content_provider
  \/ register_addrtlvtype
  \/ unregister_addrtlvtype
  \/ \E t \in Targets : register_target(t) \/ unregister_target(t)
  \/ \E on \in BOOLEAN : register_pkthandler(on)
  \/ writer_cleanup

WriterSpec == WriterInit /\ [][WriterNext]_writerVars

-----------------------------------------------------------------------------
(* Properties *)

\* The addresses a reader gets out of a parsed message, with prefix lengths and TLVs.
AddressesIn(m) ==
  LET values(b, i, t) == {single_value(tlv, i - 1) :
                            tlv \in {x \in Range(b.tlvs) : /\ x.type = TlvTypes[t].type
                                                           /\ x.ext = TlvTypes[t].ext
                                                           /\ i - 1 \in x.index1 .. x.index2}}
      read(b) == [i \in DOMAIN b.addrs |->
                    [octets |-> b.addrs[i], prefix |-> b.prefixes[i],
                     tlv |-> [t \in Types |-> values(b, i, t)]]]
  IN IF m = Bad THEN <<Bad>> ELSE FlattenSeq([n \in DOMAIN m.blocks |-> read(m.blocks[n])])

\* What the address compression and the fragmentation produce is read back as
\* exactly the addresses, prefix lengths and TLV values that the content
\* providers have added, in their order, each of them once.
RoundTrip ==
  made.status = "ok" /\ ~ broken /\ made.messages # <<>> =>
    FlattenSeq([n \in DOMAIN made.messages |->
                  LET m == made.messages[n]
                  IN AddressesIn(parse_message(m, 1, Len(m) + 1, Len(m)))])
      = [k \in DOMAIN made.content.addrs |->
           [octets |-> made.content.addrs[k].octets, prefix |-> made.content.addrs[k].prefix,
            tlv |-> [t \in Types |-> IF made.content.addrs[k].tlv[t] = None THEN {}
                                    ELSE {made.content.addrs[k].tlv[t]}]]]

\* The octets of the messages a reader finds in a packet behind its header.
OctetsOf(msgs, b, first) ==
  LET start(n) == IF n = 1 THEN first ELSE msgs[n - 1].next
  IN [n \in DOMAIN msgs |-> IF msgs[n] = Bad THEN Bad ELSE SubSeq(b, start(n), msgs[n].next - 1)]

MessagesIn(b, first) == OctetsOf(MessagesFrom(b, first, Len(b)), b, first)

\* A packet that is sent consists of a header that can be read and of the
\* messages that were created or forwarded for its target since the packet
\* before, complete and in this order, whatever TLVs the packet handler has
\* allocated and then set or not set.
PacketCarriesMessages ==
  \A n \in DOMAIN sent :
    LET header == parse_packet(sent[n].octets, Len(sent[n].octets))
    IN ~ broken => /\ header # Bad
                   /\ MessagesIn(sent[n].octets, header.next) = sent[n].msgs

\* A content provider or a TLV type that is registered belongs to a message
\* creator that has not been freed.
UsersHaveCreator == (registry.users # {} \/ registry.registered) <=> registry.exists
=============================================================================
