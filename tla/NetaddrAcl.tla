------------------------------ MODULE NetaddrAcl ------------------------------
(* Access control lists of common/netaddr_acl.c.  An address is a member of   *)
(* a small set and a network prefix the set of the addresses in it.           *)
EXTENDS Sequences, SequencesExt

\* An entry of the configuration is a keyword or a signed prefix.
Keyword(k) == [kind |-> "keyword", word |-> k, net |-> {}]
Signed(sign, net) == [kind |-> sign, word |-> "", net |-> net]

netaddr_acl_add ==
  [accept |-> {}, reject |-> {}, reject_first |-> FALSE, accept_default |-> FALSE]

netaddr_acl_handle_keywords(acl, k) ==
  [acl EXCEPT !.accept_default = IF k = "default_accept" THEN TRUE
                                 ELSE IF k = "default_reject" THEN FALSE ELSE @,
              !.reject_first = IF k = "first_reject" THEN TRUE
                               ELSE IF k = "first_accept" THEN FALSE ELSE @]

AddEntry(acl, e) ==
  CASE e.kind = "keyword" -> netaddr_acl_handle_keywords(acl, e.word)
    [] e.kind = "-" -> [acl EXCEPT !.reject = @ \union {e.net}]
    [] e.kind = "+" -> [acl EXCEPT !.accept = @ \union {e.net}]

netaddr_acl_from_strarray(entries) == FoldLeft(AddEntry, netaddr_acl_add, entries)

is_in_array(nets, addr) == addr \in UNION nets

netaddr_acl_check_accept(acl, addr) ==
  LET accepted == is_in_array(acl.accept, addr)
      rejected == is_in_array(acl.reject, addr)
  IN IF acl.reject_first /\ rejected THEN FALSE
     ELSE IF accepted THEN TRUE
     ELSE IF rejected THEN FALSE
     ELSE acl.accept_default
=============================================================================
