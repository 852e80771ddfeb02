------------------------------- MODULE CfgDb -------------------------------
(***************************************************************************)
(* The configuration database (config/cfg_db.c): section types, in them    *)
(* named sections and at most one unnamed section, in those the entries,   *)
(* each a list of values.  A database is                                   *)
(*                                                                         *)
(*    [linked |-> has cfg_db_link_schema() been called,                    *)
(*     types  |-> type -> (name -> (key -> sequence of values))]           *)
(*                                                                         *)
(* All three levels are AVL trees with unique keys in the code and         *)
(* functions with finite domains here.  Running out of memory is left out. *)
(***************************************************************************)
EXTENDS Naturals, Sequences, SequencesExt

\* The name of an unnamed section (a NULL pointer in the code).
NoName == "-"

Nothing == [x \in {} |-> x]
Has(f, x) == x \in DOMAIN f
Put(f, x, v) == [y \in DOMAIN f \cup {x} |-> IF y = x THEN v ELSE f[y]]
Without(f, x) == [y \in DOMAIN f \ {x} |-> f[y]]

cfg_db_add == [linked |-> FALSE, types |-> Nothing]

cfg_db_link_schema(db) == [db EXCEPT !.linked = TRUE]

\* The names of a section type, the unnamed section among them.
Names(db, t) == IF Has(db.types, t) THEN DOMAIN db.types[t] ELSE {}

cfg_db_find_namedsection(db, t, n) == n \in Names(db, t)

cfg_db_find_entry(db, t, n, k) ==
    cfg_db_find_namedsection(db, t, n) /\ Has(db.types[t][n], k)

\* What there is of a section type, a section and an entry, if anything.
SectionsOf(db, t) == IF Has(db.types, t) THEN db.types[t] ELSE Nothing
EntriesOf(db, t, n) == IF cfg_db_find_namedsection(db, t, n) THEN db.types[t][n] ELSE Nothing
KeysOf(db, t, n) == DOMAIN EntriesOf(db, t, n)
ValuesOf(db, t, n, k) ==
    IF cfg_db_find_entry(db, t, n, k) THEN db.types[t][n][k] ELSE <<>>

\* The database with other entries in a section, which is made if need be.
WithSection(db, t, n, entries) ==
    [db EXCEPT !.types = Put(db.types, t, Put(SectionsOf(db, t), n, entries))]

cfg_db_add_section(db, t, n) ==
    IF cfg_db_find_namedsection(db, t, n) THEN db ELSE WithSection(db, t, n, Nothing)

cfg_db_set_entry_ext(db, t, n, k, v, append, front) ==
    LET old == IF append THEN ValuesOf(db, t, n, k) ELSE <<>>
    IN  WithSection(db, t, n, Put(EntriesOf(db, t, n), k,
                                  IF front THEN <<v>> \o old ELSE Append(old, v)))

\* A plausible bug: a value that is set goes behind the ones that are there.
SetAtTheEnd(db, t, n, k, v, append) ==
    cfg_db_set_entry_ext(db, t, n, k, v, append, FALSE)

cfg_db_set_entry(db, t, n, k, v, append) ==
    cfg_db_set_entry_ext(db, t, n, k, v, append, TRUE)

\* Despite its comment ("Appends an entry") the value goes to the front.
cfg_db_add_entry(db, t, n, k, v) == cfg_db_set_entry(db, t, n, k, v, TRUE)

cfg_db_remove_sectiontype(db, t) == [db EXCEPT !.types = Without(db.types, t)]

cfg_db_remove_namedsection(db, t, n) ==
    IF cfg_db_find_namedsection(db, t, n)
    THEN [db EXCEPT !.types = Put(db.types, t, Without(db.types[t], n))] ELSE db

cfg_db_remove_entry(db, t, n, k) ==
    IF cfg_db_find_entry(db, t, n, k)
    THEN WithSection(db, t, n, Without(EntriesOf(db, t, n), k)) ELSE db

\* Only the first of several equal values is removed; an entry goes with its
\* last value.
cfg_db_remove_element(db, t, n, k, v) ==
    LET vals == ValuesOf(db, t, n, k)
    IN  IF vals = <<v>> THEN cfg_db_remove_entry(db, t, n, k)
        ELSE IF Contains(vals, v)
        THEN WithSection(db, t, n, Put(EntriesOf(db, t, n), k,
                                       RemoveAt(vals, SelectInSeq(vals, LAMBDA w : w = v))))
        ELSE db

(***************************************************************************)
(* _cfg_db_append(): every named section of src is added to dst, and every *)
(* value of it behind the values dst already has.  A section type without  *)
(* any section is not copied.  The schema is not linked.                   *)
(***************************************************************************)
cfg_db_copy(dst, src) ==
    LET types == DOMAIN dst.types \cup {t \in DOMAIN src.types : Names(src, t) # {}}
    IN  [dst EXCEPT !.types =
           [t \in types |->
             [n \in Names(dst, t) \cup Names(src, t) |->
               [k \in KeysOf(dst, t, n) \cup KeysOf(src, t, n) |->
                 ValuesOf(dst, t, n, k) \o ValuesOf(src, t, n, k)]]]]

cfg_db_duplicate(src) == cfg_db_copy(cfg_db_add, src)

(***************************************************************************)
(* cfg_db_get_entry_value(): the section's own values, or else those of    *)
(* the unnamed section of the type, or else the default of the schema.  An *)
(* empty sequence stands for a NULL pointer.                               *)
(***************************************************************************)
cfg_db_get_entry_value(db, t, n, k, default) ==
    IF cfg_db_find_entry(db, t, n, k) THEN ValuesOf(db, t, n, k)
    ELSE IF cfg_db_find_entry(db, t, NoName, k) THEN ValuesOf(db, t, NoName, k)
    ELSE IF db.linked THEN default ELSE <<>>
=============================================================================
