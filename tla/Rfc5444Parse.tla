----------------------------- MODULE Rfc5444Parse -----------------------------
(* The parser of rfc5444_reader.c: TLVs, TLV blocks, address blocks and        *)
(* messages.  A packet is a sequence of octets.  Every error leads to the     *)
(* same cleanup, so a parser returns Bad for all of them.  'e' is the first   *)
(* position behind the data a parser may use.  Each loop is a function of the *)
(* number of its turns.                                                       *)
EXTENDS Integers, Sequences, SequencesExt, FiniteSetsExt

CONSTANT Bad   \* the result of a parser that met an error

Octet == 0 .. 255

\* The flags of rfc5444_context.h, an octet of flags and the set of their names.
PacketBit == [SEQNO |-> 8, TLV |-> 4]
MessageBit == [ORIGINATOR |-> 128, HOPLIMIT |-> 64, HOPCOUNT |-> 32, SEQNO |-> 16]
BlockBit == [HEAD |-> 128, FULLTAIL |-> 64, ZEROTAIL |-> 32, SINGLEPLEN |-> 16, MULTIPLEN |-> 8]
TlvBit == [TYPEEXT |-> 128, SINGLE_IDX |-> 64, MULTI_IDX |-> 32,
           VALUE |-> 16, EXTVALUE |-> 8, MULTIVALUE |-> 4]

FlagsIn(octet, bits) == {f \in DOMAIN bits : (octet \div bits[f]) % 2 = 1}
FlagOctet(flags, bits) == MapThenSumSet(LAMBDA f : bits[f], flags)

\* An octet of flags of a message holds the length of addresses, less one.
MessageOctet(flags, addr_len) == FlagOctet(flags, MessageBit) + addr_len - 1
AddrLenIn(octet) == 1 + (octet % 16)

\* _rfc5444_get_u8() and _rfc5444_get_u16(): 0 behind the data.
get_u8(b, p, e) == IF p < e THEN b[p] ELSE 0
get_u16(b, p, e) == 256 * get_u8(b, p, e) + get_u8(b, p + 1, e)

Octets(b, p, n) == SubSeq(b, p, p + n - 1)

\* The octets of a TLV that depend on its flags, and a number of so many octets.
ExtLen(flags) == IF "TYPEEXT" \in flags THEN 1 ELSE 0
IdxLen(flags) == IF "SINGLE_IDX" \in flags THEN 1 ELSE IF "MULTI_IDX" \in flags THEN 2 ELSE 0
LengthLen(flags) ==
  IF "VALUE" \notin flags THEN 0 ELSE IF "EXTVALUE" \in flags THEN 2 ELSE 1
get_number(b, p, e, size) ==
  IF size = 0 THEN 0 ELSE IF size = 1 THEN get_u8(b, p, e) ELSE get_u16(b, p, e)

\* _parse_tlv(): 'n' is the number of addresses the TLV may belong to.  The TLV
\* with the given flags, its indices at q, length at r and value at v.
TlvWith(b, p, q, r, v, e, n, flags) ==
  LET index1 == IF IdxLen(flags) = 0 THEN 0 ELSE get_u8(b, q, e)
      index2 == IF IdxLen(flags) = 0 THEN (n - 1) % 256 ELSE get_u8(b, r - 1, e)
      length == get_number(b, r, e, LengthLen(flags))
      count == (index2 - index1 + 1) % 256
      multi == "MULTIVALUE" \in flags /\ count # 1 /\ length > 0
  IN IF \/ p + 2 > e \/ v > e
        \/ {"SINGLE_IDX", "MULTI_IDX"} \subseteq flags
        \/ "EXTVALUE" \in flags /\ "VALUE" \notin flags
     THEN Bad
     ELSE IF v + length > e \/ (multi /\ length % count # 0) THEN Bad
     ELSE [next |-> v + length, type |-> get_u8(b, p, e),
           ext |-> get_number(b, p + 2, e, ExtLen(flags)),
           index1 |-> index1, index2 |-> index2, multi |-> multi,
           length |-> IF multi THEN length \div count ELSE length,
           value |-> Octets(b, v, length)]

parse_tlv(b, p, e, n) ==
  LET flags == FlagsIn(get_u8(b, p + 1, e), TlvBit)
      q == p + 2 + ExtLen(flags)
      r == q + IdxLen(flags)
  IN TlvWith(b, p, q, r, r + LengthLen(flags), e, n, flags)

\* The value for one address, 'single_value' in the code.
single_value(tlv, idx) ==
  IF tlv.multi THEN SubSeq(tlv.value, (idx - tlv.index1) * tlv.length + 1,
                                      (idx - tlv.index1 + 1) * tlv.length)
  ELSE tlv.value

\* _calc_tlvblock_intorder(), and the tree of TLVs in this order.
intorder(type, ext) == 256 * type + ext

\* Into a sorted list, in front of what is 'larger' (0 if there is none).
InsertBefore(list, larger, x) == IF larger = 0 THEN Append(list, x) ELSE InsertAt(list, larger, x)

InsertTlv(tlvs, tlv) ==
  InsertBefore(tlvs, SelectInSeq(tlvs, LAMBDA t : intorder(t.type, t.ext)
                                                  > intorder(tlv.type, tlv.ext)), tlv)

\* One turn of the loop of _parse_tlvblock(): TLVs are read up to 'end', each of
\* them as far as 'e', while there is room for entries.
TakeTlv(x, tlv, room) ==
  IF tlv = Bad \/ room = Len(x.tlvs) THEN Bad
  ELSE [next |-> tlv.next, tlvs |-> InsertTlv(x.tlvs, tlv)]

NextTlv(x, b, end, e, n, room) ==
  IF x = Bad THEN Bad
  ELSE IF x.next >= end THEN x
  ELSE TakeTlv(x, parse_tlv(b, x.next, e, n), room)

TlvsFrom(b, p, end, e, n, room) ==
  LET turn[k \in 0 .. end - p] == IF k = 0 THEN [next |-> p, tlvs |-> <<>>]
                                  ELSE NextTlv(turn[k - 1], b, end, e, n, room)
  IN turn[end - p]

parse_tlvblock(b, p, e, n, room) ==
  IF p + 2 > e THEN Bad
  ELSE IF p + 2 + get_u16(b, p, e) > e THEN Bad
  ELSE TlvsFrom(b, p + 2, p + 2 + get_u16(b, p, e), e, n, room)

\* _parse_addrblock(), with the addresses that schedule_msgaddr_consumer() puts
\* together from head, middle and tail.
parse_addrblock(b, p, e, addr_len) ==
  LET num_addr == get_u8(b, p, e)
      flags == FlagsIn(get_u8(b, p + 1, e), BlockBit)
      head == IF "HEAD" \in flags THEN get_u8(b, p + 2, e) ELSE 0
      q == p + 2 + (IF "HEAD" \in flags THEN 1 + head ELSE 0)
      tail == IF flags \cap {"FULLTAIL", "ZEROTAIL"} # {} THEN get_u8(b, q, e) ELSE 0
      r == q + (IF "FULLTAIL" \in flags THEN 1 + tail
                ELSE IF "ZEROTAIL" \in flags THEN 1 ELSE 0)
      mid == (addr_len - head - tail) % 256
      m == r + mid * num_addr
      end == m + (IF "SINGLEPLEN" \in flags THEN 1 ELSE IF "MULTIPLEN" \in flags THEN num_addr ELSE 0)
      prefix(i) == IF "SINGLEPLEN" \in flags THEN get_u8(b, m, e)
                   ELSE IF "MULTIPLEN" \in flags THEN get_u8(b, m + i - 1, e) ELSE 8 * addr_len
      address(i) == Octets(b, p + 3, head) \o Octets(b, r + mid * (i - 1), mid) \o
                    (IF "ZEROTAIL" \in flags THEN [j \in 1 .. tail |-> 0]
                     ELSE Octets(b, q + 1, tail))
  IN IF p + 2 > e THEN Bad
     ELSE IF \/ num_addr = 0 \/ {"FULLTAIL", "ZEROTAIL"} \subseteq flags
             \/ {"SINGLEPLEN", "MULTIPLEN"} \subseteq flags
             \/ q > e \/ r > e \/ m > e \/ end > e
     THEN Bad
     ELSE [next |-> end, prefixes |-> [i \in 1 .. num_addr |-> prefix(i)],
           addrs |-> [i \in 1 .. num_addr |-> address(i)]]

\* The address blocks of a message, each with its TLV block.
ParseBlock(b, a, e, room) ==
  IF a = Bad THEN Bad
  ELSE [block |-> a, tlvblock |-> parse_tlvblock(b, a.next, e, Len(a.addrs), room)]

TakeBlock(x, a, room) ==
  IF room = Len(x.blocks) \/ a = Bad THEN Bad
  ELSE IF a.tlvblock = Bad THEN Bad
  ELSE [next |-> a.tlvblock.next,
        blocks |-> Append(x.blocks, [addrs |-> a.block.addrs, prefixes |-> a.block.prefixes,
                                     tlvs |-> a.tlvblock.tlvs])]

NextBlock(x, b, e, addr_len, room) ==
  IF x = Bad THEN Bad
  ELSE IF x.next >= e THEN x
  ELSE TakeBlock(x, ParseBlock(b, parse_addrblock(b, x.next, e, addr_len), e, room), room)

BlocksFrom(b, p, e, addr_len, room) ==
  LET turn[k \in 0 .. e - p] == IF k = 0 THEN [next |-> p, blocks |-> <<>>]
                                ELSE NextBlock(turn[k - 1], b, e, addr_len, room)
  IN IF turn[e - p] = Bad THEN Bad ELSE turn[e - p].blocks

\* The TLV block of a message and the address blocks behind it.
ParseBody(b, t, end, addr_len, room) ==
  IF t = Bad THEN Bad
  ELSE [tlvs |-> t.tlvs, blocks |-> BlocksFrom(b, t.next, end, addr_len, room)]

\* The fields of a message whose body is 'x'.
MessageWith(b, p, e, x) ==
  LET flags == FlagsIn(get_u8(b, p + 1, e), MessageBit)
      addr_len == AddrLenIn(get_u8(b, p + 1, e))
      limit == p + 4 + (IF "ORIGINATOR" \in flags THEN addr_len ELSE 0)
      count == limit + (IF "HOPLIMIT" \in flags THEN 1 ELSE 0)
      seqno == count + (IF "HOPCOUNT" \in flags THEN 1 ELSE 0)
  IN IF x = Bad THEN Bad
     ELSE IF x.blocks = Bad THEN Bad
     ELSE [next |-> p + get_u16(b, p + 2, e), type |-> get_u8(b, p, e), tlvs |-> x.tlvs, blocks |-> x.blocks,
           orig |-> IF "ORIGINATOR" \in flags THEN Octets(b, p + 4, addr_len) ELSE <<>>,
           hoplimit |-> IF "HOPLIMIT" \in flags THEN get_u8(b, limit, e) ELSE 0,
           hopcount |-> IF "HOPCOUNT" \in flags THEN get_u8(b, count, e) ELSE 0,
           seqno |-> IF "SEQNO" \in flags THEN get_u16(b, seqno, e) ELSE 0]

\* The octets of a message header.
HeaderSize(flags, addr_len) ==
  4 + (IF "ORIGINATOR" \in flags THEN addr_len ELSE 0) + (IF "HOPLIMIT" \in flags THEN 1 ELSE 0)
    + (IF "HOPCOUNT" \in flags THEN 1 ELSE 0) + (IF "SEQNO" \in flags THEN 2 ELSE 0)

\* The parsing half of _handle_message(): header, TLV block, address blocks.
\* 'room' bounds the entries of each kind that can be allocated.
parse_message(b, p, e, room) ==
  LET addr_len == AddrLenIn(get_u8(b, p + 1, e))
      end == p + get_u16(b, p + 2, e)
      body == p + HeaderSize(FlagsIn(get_u8(b, p + 1, e), MessageBit), addr_len)
  IN IF p + 4 > e THEN Bad
     ELSE IF body > e \/ end > e THEN Bad
     ELSE MessageWith(b, p, e, ParseBody(b, parse_tlvblock(b, body, end, 0, room),
                                      end, addr_len, room))

\* The messages from position p on, the last one Bad if it has an error.
TakeMessage(x, m, e) ==
  [next |-> IF m = Bad THEN e ELSE m.next, msgs |-> Append(x.msgs, m)]

NextMessage(x, b, room) ==
  IF x.next > Len(b) THEN x
  ELSE TakeMessage(x, parse_message(b, x.next, Len(b) + 1, room), Len(b) + 1)

MessagesFrom(b, p, room) ==
  LET turn[k \in 0 .. Len(b)] == IF k = 0 THEN [next |-> p, msgs |-> <<>>]
                                 ELSE NextMessage(turn[k - 1], b, room)
  IN turn[Len(b)].msgs

\* The header of a packet with its TLVs.
PacketWith(flags, seqno, t) ==
  IF t = Bad THEN Bad
  ELSE [next |-> t.next, tlvs |-> t.tlvs, has_tlv |-> "TLV" \in flags,
        seqno |-> IF "SEQNO" \in flags THEN seqno ELSE 0]

\* The header of a packet in rfc5444_reader_handle_packet(); the upper half of
\* its first octet is the version.
parse_packet(b, room) ==
  LET e == Len(b) + 1
      first == get_u8(b, 1, e)
      flags == FlagsIn(first, PacketBit)
      p == 2 + IF "SEQNO" \in flags THEN 2 ELSE 0
  IN IF first \div 16 # 0 \/ p > e THEN Bad
     ELSE PacketWith(flags, get_u16(b, 2, e),
                     IF "TLV" \in flags THEN parse_tlvblock(b, p, e, 0, room)
                     ELSE [next |-> p, tlvs |-> <<>>])
=============================================================================
