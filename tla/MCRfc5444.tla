------------------------------ MODULE MCRfc5444 -------------------------------
(* Instances for the RFC 5444 writer and the reader.  They share no state, so *)
(* each behaviour exercises one of the two.                                   *)
EXTENDS Rfc5444Writer, Rfc5444Reader

VARIABLE part

A == <<10, 1, 1>>
B == <<10, 1, 2>>
C == <<10, 2, 1>>
D == <<11, 0, 0>>
E == <<10, 0, 0>>

MCTlvTypes == <<[type |-> 3, ext |-> 0], [type |-> 4, ext |-> 1]>>

Addr(octets, prefix, v, w) ==
  [octets |-> octets, prefix |-> prefix, mandatory |-> FALSE, tlv |-> <<v, w>>]

Pool ==
  {Addr(o, 24, v, None) : o \in {A, B, C, D}, v \in {None, <<1>>, <<2>>, <<1, 2, 3, 4, 5, 6>>}}
  \cup {Addr(o, 16, v, <<7>>) : o \in {B, E}, v \in {None, <<>>}}
  \cup {[Addr(A, 24, <<1>>, <<7>>) EXCEPT !.mandatory = TRUE]}

Content(addrs) ==
  [addrs |-> addrs, added |-> <<>>, allocated |-> 0, set |-> <<>>,
   orig |-> None, hoplimit |-> None, hopcount |-> None, seqno |-> None]

Small == [Content(<<Addr(A, 24, <<1>>, None)>>) EXCEPT
            !.added = <<[type |-> 1, ext |-> 2, value |-> <<9>>]>>,
            !.allocated = 3, !.set = <<[type |-> 5, ext |-> 0, value |-> <<8>>]>>,
            !.orig = <<1, 2, 3>>, !.hoplimit = 255, !.hopcount = 0, !.seqno = 300]
MCLater == {Small, [Small EXCEPT !.addrs = <<>>]}

MCContents ==
  MCLater \cup
  {Content(s) : s \in {t \in SeqOf(Pool, 3) : \A i, j \in DOMAIN t : t[i].octets = t[j].octets => i = j}}

MCForwards == {<<MsgType, MessageOctet({"HOPLIMIT", "HOPCOUNT"}, AddrLen), 0, 17, l, 3, 0, 9>>
                  \o write_tlv([type |-> 8, ext |-> 0, value |-> <<1, 2, 3, 4, 5, 6>>])
                 : l \in {1, 5}}

MCPacketSize == [t1 |-> 45, t2 |-> 49]
MCPktTlv == [added |-> [type |-> 1, ext |-> 0, value |-> <<>>],
             set |-> [type |-> 2, ext |-> 0, value |-> <<1>>]]

-----------------------------------------------------------------------------
(* Two messages for the reader, the first one with two addresses and TLVs of  *)
(* every form, and a packet around them.                                      *)

FirstMessage ==
  LET flags(f) == FlagOctet(f, TlvBit)
      tlvs == write_tlv([type |-> 1, ext |-> 0, value |-> <<>>])
              \o write_tlv([type |-> 2, ext |-> 3, value |-> <<1, 2>>])
      addrtlvs == <<3, flags({"VALUE", "SINGLE_IDX"}), 0, 1, 7>>
                  \o <<3, flags({"VALUE", "TYPEEXT", "MULTIVALUE"}), 1, 2, 8, 9>>
                  \o <<4, flags({"SINGLE_IDX"}), 1>>
      addrs == <<2, FlagOctet({"HEAD"}, BlockBit), 2>> \o <<10, 1>> \o <<1, 2>> \o TwoOctets(Len(addrtlvs)) \o addrtlvs
      body == TwoOctets(Len(tlvs)) \o tlvs \o addrs
  IN <<1, MessageOctet({"HOPLIMIT"}, 3)>> \o TwoOctets(5 + Len(body)) \o <<5>> \o body

SecondMessage == <<2, MessageOctet({}, 3), 0, 8, 0, 2, 1, 0>>

MCPackets ==
  {<<FlagOctet({"TLV", "SEQNO"}, PacketBit), 1, 2, 0, 4, 1, 0, 2, 0>> \o FirstMessage \o SecondMessage}

Consumer(kind, order, type, entries) ==
  [kind |-> kind, order |-> order, type |-> type, entries |-> entries,
   cb |-> {"start", "end", "tlv", "block"}]
Entry(type, ext, mandatory) == [type |-> type, ext |-> ext, mandatory |-> mandatory, min |-> 0, max |-> 1]

MCConsumerOf ==
  [p1 |-> Consumer("packet", 1, 0, <<Entry(1, 0, FALSE)>>),
   m1 |-> Consumer("message", 1, 1, <<Entry(2, -1, FALSE), Entry(1, 0, TRUE)>>),
   m2 |-> [Consumer("message", 1, 0, <<>>) EXCEPT !.cb = {"start", "end", "failed"}],
   m3 |-> Consumer("message", 2, 0, <<Entry(1, -1, FALSE)>>),
   a1 |-> Consumer("address", 1, 1, <<Entry(4, 0, TRUE), Entry(3, -1, FALSE)>>),
   a2 |-> Consumer("address", 2, 1, <<Entry(3, 0, FALSE), Entry(3, 1, TRUE)>>)]

MCScripts == {<<>>} \cup {k :> r : k \in 1 .. 35, r \in 1 .. 5}
                   \cup {k :> r @@ k + 1 :> q : k \in 1 .. 35, r, q \in {DROP_ADDRESS, DROP_MESSAGE}}

allVars == <<writerVars, readerVars, part>>

Init ==
  /\ WriterInit /\ ReaderInit
  /\ \/ part = "writer"
     \/ part = "reader" /\ registry = NoCreator /\ ~ handler

Next ==
  \/ part = "writer" /\ WriterNext /\ UNCHANGED <<readerVars, part>>
  \/ part = "reader" /\ ReaderNext /\ UNCHANGED <<writerVars, part>>

Spec == Init /\ [][Next]_allVars
=============================================================================
