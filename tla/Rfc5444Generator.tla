--------------------------- MODULE Rfc5444Generator ---------------------------
(* How rfc5444_msg_generator.c turns the addresses of a message into address  *)
(* blocks: a search for the cheapest split into blocks, which looks at one    *)
(* address after the other, for every possible length of a common head; the   *)
(* fragmentation of messages that grow too large; and the octets of blocks    *)
(* and their TLVs.  The octets are those Rfc5444Parse reads, and loops are    *)
(* functions of the number of their turns.                                    *)
EXTENDS Rfc5444Parse, FiniteSets, FiniteSetsExt

CONSTANTS AddrLen,    \* octets of an address
          TlvTypes,   \* the registered address TLV types, in their order
          None        \* no TLV

ASSUME GeneratorAssumption ==
  /\ AddrLen \in Nat \ {0}
  /\ \A t \in DOMAIN TlvTypes : TlvTypes[t].type \in Nat /\ TlvTypes[t].ext \in Nat

\* An address of a message: octets, prefix length, whether it is mandatory, and
\* for each TLV type its value or None.
Types == DOMAIN TlvTypes
Heads == 0 .. AddrLen - 1

TwoOctets(n) == <<n \div 256, n % 256>>

\* The length field of a TLV and its flags.
LengthField(n) == IF n > 255 THEN TwoOctets(n) ELSE IF n > 0 THEN <<n>> ELSE <<>>
LengthFlags(n) == (IF n > 255 THEN {"EXTVALUE"} ELSE {}) \cup (IF n > 0 THEN {"VALUE"} ELSE {})
ExtFlags(ext) == IF ext = 0 THEN {} ELSE {"TYPEEXT"}
ExtField(ext) == IF ext = 0 THEN <<>> ELSE <<ext>>

-----------------------------------------------------------------------------
(* The compression session: for every length of a head the block that is open *)
(* (its first address, its costs), and what has been found out so far about   *)
(* the addresses.  Address 0 is NULL.                                         *)

NoSession(addrs) ==
  [status |-> "ok", frags |-> <<>>, first |-> TRUE, first_addr |-> 1, last |-> 0,
   idx |-> 0, non_mandatory |-> 0, same |-> 1,
   acs |-> [i \in Heads |-> [total |-> 0, current |-> 0, ptr |-> 0, multiplen |-> FALSE]],
   count |-> [t \in Types |-> [i \in Heads |-> 0]],
   multi |-> [t \in Types |-> [i \in Heads |-> FALSE]],
   index |-> [k \in DOMAIN addrs |-> 0],
   same_length |-> [k \in DOMAIN addrs |-> [t \in Types |-> FALSE]],
   same_value |-> [k \in DOMAIN addrs |-> [t \in Types |-> FALSE]],
   block |-> [k \in DOMAIN addrs |-> [end |-> 0, multi |-> FALSE, head |-> 0]]]

\* The state is cleared for the first address of a fragment.
Cleared(w, addrs) ==
  LET n == NoSession(addrs)
  IN [w EXCEPT !.acs = n.acs, !.count = n.count, !.multi = n.multi, !.same = 1]

\* Mutant: a block forgets that its prefix lengths differ.
CloseForgetsPrefixes(w, last, common) ==
  LET size == Min({w.acs[i].total : i \in common .. AddrLen - 1})
      best == Min({i \in common .. AddrLen - 1 : w.acs[i].total = size})
  IN [w EXCEPT
       !.block[w.acs[best].ptr] = [end |-> last, multi |-> FALSE, head |-> best],
       !.acs = [i \in Heads |-> IF i > common THEN [w.acs[i] EXCEPT !.total = size] ELSE w.acs[i]]]

\* _close_addrblock(): remember the cheapest of the blocks that end here.  Equal
\* octets give a common head as long as an address, and no such block.
close_addrblock(w, last, common) ==
  LET closed == common .. AddrLen - 1
      size == Min({w.acs[i].total : i \in closed})
      best == Min({i \in closed : w.acs[i].total = size})
      start == w.acs[best].ptr
  IN IF common = AddrLen \/ start = 0 THEN [w EXCEPT !.status = "undefined"]
     ELSE [w EXCEPT
       !.block[start] = [end |-> last, multi |-> w.acs[best].multiplen, head |-> best],
       !.acs = [i \in Heads |-> IF i > common THEN [w.acs[i] EXCEPT !.total = size] ELSE w.acs[i]]]

\* _calculate_tlv_flags(): does a TLV continue the one of the address before?
calculate_tlv_flags(w, addrs, k) ==
  LET before(t) == {j \in 1 .. k - 1 : addrs[j].tlv[t] # None}
      prev(t) == Max(before(t))
      follows(t) == /\ ~ w.first /\ addrs[k].tlv[t] # None /\ before(t) # {}
                    /\ w.index[k] <= w.index[prev(t)] + 1
      same_length(t) == follows(t) /\ Len(addrs[k].tlv[t]) = Len(addrs[prev(t)].tlv[t])
  IN [w EXCEPT !.same_length[k] = [t \in Types |-> same_length(t)],
               !.same_value[k] = [t \in Types |-> same_length(t) /\
                                                  addrs[k].tlv[t] = addrs[prev(t)].tlv[t]]]

\* The cost of a TLV that does not continue another one.
TlvCost(t, value) ==
  4 + Len(ExtField(TlvTypes[t].ext)) + Len(value) + Len(LengthField(Len(value)))

CommonHead(a, b) == Max({n \in 0 .. AddrLen : SubSeq(a, 1, n) = SubSeq(b, 1, n)})

\* The costs of the address in a new block and in the open one, for every length
\* of the head.  The cost of prefix lengths that become different is counted with
\* the indices the wrong way round, as in the code.
Continued(x, addrs, k, common, same) ==
  LET addr == addrs[k]
      has == {t \in Types : addr.tlv[t] # None}
      a(i) == x.acs[i]
      closed(i) == x.first \/ i > common
      becomes(i) == ~ closed(i) /\ ~ a(i).multiplen /\ same = 1
      special == IF addr.prefix # 8 * AddrLen THEN 1 ELSE 0
      new_cost(i) == 2 + (IF i > 0 THEN 1 ELSE 0) + AddrLen + special
                     + MapThenSumSet(LAMBDA t : TlvCost(t, addr.tlv[t]), has)
      tlv_cost(t, i) == IF ~ x.same_length[k][t] \/ closed(i) THEN TlvCost(t, addr.tlv[t])
                        ELSE IF x.multi[t][i] THEN Len(addr.tlv[t])
                        ELSE IF ~ x.same_value[k][t] THEN Len(addr.tlv[t]) * x.count[t][i]
                        ELSE 0
      continue_cost(i) == AddrLen - i
                     + (IF a(i).multiplen THEN 1
                        ELSE IF becomes(i) THEN x.index[a(i).ptr] - x.index[k] + 1 ELSE 0)
                     + MapThenSumSet(LAMBDA t : tlv_cost(t, i), has)
      opens == {i \in Heads : closed(i) \/
                  a(i).total + continue_cost(i) > a(AddrLen - 1).total + new_cost(i)}
  IN IF x.status # "ok" THEN x
     ELSE [x EXCEPT !.same = same,
       !.acs = [i \in Heads |->
          IF i \in opens THEN [ptr |-> k, multiplen |-> FALSE,
                               total |-> a(AddrLen - 1).total, current |-> new_cost(i)]
          ELSE [a(i) EXCEPT !.multiplen = @ \/ becomes(i), !.current = continue_cost(i)]],
       !.count = [t \in Types |-> IF t \notin has THEN x.count[t]
          ELSE [i \in Heads |-> IF i \in opens THEN 1 ELSE x.count[t][i] + 1]],
       !.multi = [t \in Types |-> IF t \notin has THEN x.multi[t]
          ELSE [i \in Heads |-> i \notin opens /\ (x.multi[t][i] \/ ~ x.same_value[k][t])]]]

\* _compress_address()
compress_address(w, addrs, k) ==
  LET common == CommonHead(addrs[k - 1].octets, addrs[k].octets)
  IN IF w.first THEN Continued(w, addrs, k, 0, w.same)
     ELSE Continued(close_addrblock(w, k - 1, common), addrs, k, common,
                    IF addrs[k - 1].prefix = addrs[k].prefix THEN w.same + 1 ELSE 1)

-----------------------------------------------------------------------------
(* Octets of a fragment *)

\* _write_tlvtype(): the TLVs of one type for the block from 'first' to 'end',
\* runs of TLVs with one length each as one TLV.
NextRun(x, w, addrs, t, first, end) ==
  LET tlvs == {j \in x.next .. Len(addrs) : addrs[j].tlv[t] # None}
      start == Min(tlvs)
      \* the scan passes over addresses behind the block
      inside == {j \in tlvs : j > start /\ w.index[j] <= w.index[end]}
      breaks == {j \in inside : ~ w.same_length[j][t]}
      run == {start} \cup {j \in inside : \A i \in breaks : j < i}
      stop == Max(run)
      same == \A j \in run \ {start} : w.same_value[j][t]
      value == IF same THEN addrs[start].tlv[t]
               ELSE FlattenSeq([n \in 1 .. Cardinality(run) |->
                      addrs[CHOOSE j \in run : Cardinality({i \in run : i <= j}) = n].tlv[t]])
      total == IF same THEN Len(addrs[start].tlv[t])
               ELSE Len(addrs[start].tlv[t]) * (w.index[stop] - w.index[start] + 1)
      idx == IF start = first /\ stop = end THEN <<>>
             ELSE IF start = stop THEN <<w.index[start] - w.index[first]>>
             ELSE <<w.index[start] - w.index[first], w.index[stop] - w.index[first]>>
      flags == ExtFlags(TlvTypes[t].ext) \cup LengthFlags(total)
               \cup (IF same THEN {} ELSE {"MULTIVALUE"})
               \cup (IF idx = <<>> THEN {} ELSE IF Len(idx) = 1 THEN {"SINGLE_IDX"} ELSE {"MULTI_IDX"})
  IN IF tlvs = {} THEN x
     ELSE IF start > end THEN x
     ELSE [next |-> stop + 1,
           octets |-> x.octets \o <<TlvTypes[t].type, FlagOctet(flags, TlvBit)>>
                      \o ExtField(TlvTypes[t].ext) \o idx \o LengthField(total) \o value]

write_tlvtype(w, addrs, t, first, end) ==
  LET turn[k \in 0 .. end - first + 1] ==
        IF k = 0 THEN [next |-> first, octets |-> <<>>]
        ELSE NextRun(turn[k - 1], w, addrs, t, first, end)
  IN turn[end - first + 1].octets

\* The longest tail all addresses of a block share, behind the head and at least
\* one octet in the middle.
TailLen(addrs, first, end, head) ==
  Max({n \in 0 .. AddrLen - head - 1 : \A k \in first .. end :
         SubSeq(addrs[k].octets, AddrLen - n + 1, AddrLen)
           = SubSeq(addrs[first].octets, AddrLen - n + 1, AddrLen)})

\* One block of _write_addresses().
WriteBlock(w, addrs, first) ==
  LET end == w.block[first].end
      a == addrs[first].octets
      head == IF first = end THEN 0 ELSE w.block[first].head
      tail == IF first = end THEN 0 ELSE TailLen(addrs, first, end, head)
      zero == tail > 0 /\ \A i \in AddrLen - tail + 1 .. AddrLen : a[i] = 0
      plens == IF w.block[first].multi THEN [n \in 1 .. end - first + 1 |-> addrs[first + n - 1].prefix]
               ELSE IF addrs[first].prefix # 8 * AddrLen THEN <<addrs[first].prefix>> ELSE <<>>
      flags == (IF head > 0 THEN {"HEAD"} ELSE {})
               \cup (IF tail = 0 THEN {} ELSE IF zero THEN {"ZEROTAIL"} ELSE {"FULLTAIL"})
               \cup (IF w.block[first].multi THEN {"MULTIPLEN"}
                     ELSE IF plens = <<>> THEN {} ELSE {"SINGLEPLEN"})
      tlvs == FlattenSeq([t \in Types |-> write_tlvtype(w, addrs, t, first, end)])
  IN <<w.index[end] - w.index[first] + 1, FlagOctet(flags, BlockBit)>>
     \o (IF head > 0 THEN <<head>> \o SubSeq(a, 1, head) ELSE <<>>)
     \o (IF tail = 0 THEN <<>> ELSE IF zero THEN <<tail>>
         ELSE <<tail>> \o SubSeq(a, AddrLen - tail + 1, AddrLen))
     \o FlattenSeq([n \in 1 .. end - first + 1 |->
                      SubSeq(addrs[first + n - 1].octets, head + 1, AddrLen - tail)])
     \o plens \o TwoOctets(Len(tlvs)) \o tlvs

\* _write_addresses(): block after block.  A block without an end, or with one
\* in front of it, makes the loop use memory that is no address.
NextWritten(x, w, addrs, last) ==
  IF x.next > last THEN x
  ELSE IF w.block[x.next].end \notin x.next .. last THEN [next |-> last + 1, octets |-> Bad]
  ELSE [next |-> w.block[x.next].end + 1, octets |-> x.octets \o WriteBlock(w, addrs, x.next)]

write_addresses(w, addrs, first, last) ==
  LET turn[k \in 0 .. last - first + 1] ==
        IF k = 0 THEN [next |-> first, octets |-> <<>>]
        ELSE NextWritten(turn[k - 1], w, addrs, last)
  IN turn[last - first + 1].octets

AppendFragment(w, octets) ==
  IF octets = Bad THEN [w EXCEPT !.status = "undefined"]
  ELSE [w EXCEPT !.frags = Append(@, octets)]

WriteFragment(w, addrs, last) ==
  IF w.status # "ok" THEN w
  ELSE AppendFragment(w, write_addresses(w, addrs, w.first_addr, last))

\* The address part of a fragment, from the first address to 'last'.
Fragment(w, addrs, last) ==
  WriteFragment(close_addrblock(w, last, 0), addrs, last)

Numbered(w, addrs, k) ==
  [(IF w.first THEN Cleared(w, addrs) ELSE w) EXCEPT !.index[k] = w.idx, !.idx = @ + 1]

Fits(w, max, k) ==
  \E i \in Heads : /\ w.acs[i].total + w.acs[i].current <= max
                   /\ w.index[k] - w.index[w.acs[i].ptr] <= 254

Taken(w, addrs, k) ==
  [w EXCEPT !.first = FALSE, !.last = k,
            !.non_mandatory = IF addrs[k].mandatory THEN @ ELSE @ + 1,
            !.acs = [i \in Heads |-> [w.acs[i] EXCEPT !.total = @ + w.acs[i].current,
                                                      !.current = 0]]]

\* The loop of rfc5444_writer_create_message() over the addresses.  An address
\* that does not fit ends a fragment and is looked at again; one that does not
\* even fit into a fragment of its own makes the loop run for ever.
Take(w, addrs, max, k) ==
  IF w.status # "ok" THEN [next |-> k, w |-> w]
  ELSE IF Fits(w, max, k) THEN [next |-> k + 1, w |-> Taken(w, addrs, k)]
  ELSE [next |-> k,
        w |-> IF w.non_mandatory = 0 THEN [w EXCEPT !.status = "too large"]
              ELSE IF w.first THEN [w EXCEPT !.status = "endless"]
              ELSE [Fragment(w, addrs, w.last) EXCEPT !.first = TRUE, !.first_addr = k]]

NextCompressed(x, addrs, max) ==
  IF x.next > Len(addrs) \/ x.w.status # "ok" THEN x
  ELSE Take(compress_address(calculate_tlv_flags(Numbered(x.w, addrs, x.next), addrs, x.next),
                             addrs, x.next),
            addrs, max, x.next)

LastFragment(w, addrs) == IF w.status = "ok" THEN Fragment(w, addrs, Len(addrs)) ELSE w

Compress(w, addrs, max) ==
  LET turn[k \in 0 .. 2 * Len(addrs)] ==
        IF k = 0 THEN [next |-> 1, w |-> w] ELSE NextCompressed(turn[k - 1], addrs, max)
  IN LastFragment(turn[2 * Len(addrs)].w, addrs)
=============================================================================
