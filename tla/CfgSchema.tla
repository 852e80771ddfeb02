----------------------------- MODULE CfgSchema -----------------------------
(***************************************************************************)
(* The configuration schema (config/cfg_schema.c): what sections and       *)
(* entries there may be, the check of a database against it, and the calls *)
(* of the delta handlers when one database replaces another.               *)
(***************************************************************************)
EXTENDS CfgDb, FiniteSets

CONSTANTS
    \* All schema sections of the program: a function to records
    \*   [type, mode, def_name, handler, entries]
    \* where entries maps a key to [def, list, validator, valid]: default values,
    \* whether the value is a list, whether there is a validator (a string needs
    \* none) and what it accepts.
    Sections

UnnamedModes == {"unnamed", "unnamed_optional"}
NamedModes == {"named", "named_mandatory", "named_with_default"}

Entries(s) == Sections[s].entries

\* Sections of one type, such as those of the RFC 5444 and the link_config
\* interfaces, are all named or all unnamed and agree on the defaults of the
\* entries they share.  cfg_schema_add_section() does not check it.
ASSUME SchemaAssumption ==
    /\ \A s \in DOMAIN Sections : Sections[s].mode \in UnnamedModes \cup NamedModes
    /\ \A s, r \in DOMAIN Sections : Sections[s].type = Sections[r].type =>
          /\ Sections[s].mode \in UnnamedModes <=> Sections[r].mode \in UnnamedModes
          /\ \A k \in DOMAIN Entries(s) \cap DOMAIN Entries(r) :
                Entries(s)[k].def = Entries(r)[k].def

\* The sections registered for a type (the tree of sections has duplicates).
OfType(schema, t) == {s \in schema : Sections[s].type = t}

cfg_schema_add_section(schema, s) == schema \cup {s}
cfg_schema_remove_section(schema, s) == schema \ {s}

\* The default of an entry: that of a registered section that has it.
DefaultOf(schema, t, k) ==
    LET having == {s \in OfType(schema, t) : Has(Entries(s), k)}
    IN  IF having = {} THEN <<>> ELSE Entries(CHOOSE s \in having : TRUE)[k].def

(***************************************************************************)
(* _validate_cfg_entry(): all values of a list are checked, of any other   *)
(* entry only the first.  Cleaning up keeps the values before the first    *)
(* bad one, and of a single-valued entry only the first; an entry without  *)
(* validator is passed over and keeps them all.                            *)
(***************************************************************************)
Bad(checks, vals) ==
    {i \in DOMAIN vals : \E c \in checks : (c.list \/ i = 1) /\ vals[i] \notin c.valid}

Kept(checks, vals) ==
    LET bad == Bad(checks, vals)
    IN  IF bad # {} THEN SubSeq(vals, 1, (CHOOSE i \in bad : \A j \in bad : i <= j) - 1)
        ELSE IF \E c \in checks : ~c.list THEN <<vals[1]>> ELSE vals

\* The schema entries that look at the values of k, from all sections of type t.
\* An entry that nobody knows passes: the loop over the schema entries with its
\* key has no turn, so its NULL test is never reached.
Checks(schema, t, k) ==
    {Entries(s)[k] : s \in {x \in OfType(schema, t) : Has(Entries(x), k) /\ Entries(x)[k].validator}}

validate_cfg_entry(schema, t, k, vals) == Bad(Checks(schema, t, k), vals) # {}

CleanEntries(schema, t, entries) ==
    LET clean == [k \in DOMAIN entries |-> Kept(Checks(schema, t, k), entries[k])]
    IN  [k \in {j \in DOMAIN entries : clean[j] # <<>>} |-> clean[k]]

\* _check_missing_entries(): an entry without a default has to be in the
\* section itself, even when the unnamed section has it.
check_missing_entries(schema, t, entries) ==
    \E s \in OfType(schema, t) : \E k \in DOMAIN Entries(s) :
        Entries(s)[k].def = <<>> /\ ~Has(entries, k)

\* A name where the schema has none.
BadName(schema, t, n) ==
    n # NoName /\ \E s \in OfType(schema, t) : Sections[s].mode \in UnnamedModes

MissingMandatory(schema, db) ==
    \E s \in schema : /\ Sections[s].mode = "named_mandatory"
                      /\ Names(db, Sections[s].type) \ {NoName} = {}

\* The database after cfg_schema_validate() with cleanup.
Cleaned(schema, db) ==
    LET clean(t) == [n \in {m \in Names(db, t) : ~BadName(schema, t, m)} |->
                       CleanEntries(schema, t, db.types[t][n])]
        known == {t \in DOMAIN db.types : OfType(schema, t) # {} /\ DOMAIN clean(t) # {}}
    IN  [db EXCEPT !.types = [t \in known |-> clean(t)]]

\* The result of cfg_schema_validate(): TRUE when it returns 0.
cfg_schema_validate(schema, db, ignore_unknown) ==
    /\ db.linked
    /\ ignore_unknown \/ \A t \in DOMAIN db.types : OfType(schema, t) # {}
    /\ \A t \in DOMAIN db.types : OfType(schema, t) # {} =>
         \A n \in Names(db, t) :
            /\ ~BadName(schema, t, n)
            /\ \A k \in DOMAIN db.types[t][n] :
                  ~validate_cfg_entry(schema, t, k, db.types[t][n][k])
            /\ ~check_missing_entries(schema, t, db.types[t][n])
    /\ ~MissingMandatory(schema, db)

(***************************************************************************)
(* The values of a section as cfg_schema_tobin() puts them into a          *)
(* handler's structure: all values of a list, the first one otherwise.     *)
(***************************************************************************)
cfg_schema_tovalue(schema, db, s, n, k) ==
    cfg_db_get_entry_value(db, Sections[s].type, n, k,
                           DefaultOf(schema, Sections[s].type, k))

tobin(entry, vals) ==
    IF entry.list \/ vals = <<>> THEN vals ELSE <<vals[1]>>

cfg_schema_tobin(schema, db, s, n) ==
    [k \in DOMAIN Entries(s) |->
        tobin(Entries(s)[k], cfg_schema_tovalue(schema, db, s, n, k))]

\* With no section at hand every entry gets the default of its own schema.
Defaults(s) == [k \in DOMAIN Entries(s) |-> tobin(Entries(s)[k], Entries(s)[k].def)]

(***************************************************************************)
(* Calls of delta handlers: pairs of a schema section, whose handler is    *)
(* called, and the name of the section it is called for.                   *)
(***************************************************************************)
section_needs_default(db, s) ==
    Names(db, Sections[s].type) \ {NoName} = {}

\* A plausible bug: only the section's own entries are compared.
OwnValuesDiffer(schema, pre, post, s, n) ==
    \E k \in DOMAIN Entries(s) :
        ValuesOf(pre, Sections[s].type, n, k) # ValuesOf(post, Sections[s].type, n, k)

ValuesDiffer(schema, pre, post, s, n) ==
    \E k \in DOMAIN Entries(s) :
        cfg_schema_tovalue(schema, pre, s, n, k) # cfg_schema_tovalue(schema, post, s, n, k)

\* The unnamed section and the default one for which the handler is called
\* without a look at the values.
Forced(pre, post, s, startup) ==
    LET t == Sections[s].type
        withDefault == Sections[s].mode = "named_with_default"
        preDef == withDefault /\ ~startup /\ section_needs_default(pre, s)
        postDef == withDefault /\ section_needs_default(post, s)
    IN  {n \in {NoName, Sections[s].def_name} :
           \/ /\ n = NoName /\ startup /\ Sections[s].mode = "unnamed"
              /\ ~Has(pre.types, t) /\ ~Has(post.types, t)
           \/ n = Sections[s].def_name /\ preDef # postDef}

\* The names whose sections the handler of s is called for.
handle_named_section_change(schema, pre, post, s, startup) ==
    LET forced == Forced(pre, post, s, startup)
    IN  {n \in Names(pre, Sections[s].type) \cup Names(post, Sections[s].type) \cup forced :
           /\ ~(Sections[s].mode \in NamedModes /\ n = NoName)
           /\ startup \/ n \in forced \/ ValuesDiffer(schema, pre, post, s, n)}

handle_db_changes(schema, pre, post, startup) ==
    UNION {{<<s, n>> : n \in handle_named_section_change(schema, pre, post, s, startup)} :
             s \in {x \in schema : Sections[x].handler}}

\* The section a handler finds after the change, the default one included.
HasPost(post, s, n) ==
    \/ cfg_db_find_namedsection(post, Sections[s].type, n)
    \/ /\ Sections[s].mode = "named_with_default" /\ n = Sections[s].def_name
       /\ section_needs_default(post, s)

cfg_schema_handle_db_changes(schema, pre, post) ==
    handle_db_changes(schema, pre, post, FALSE)

cfg_schema_handle_db_startup_changes(schema, post) ==
    handle_db_changes(schema, cfg_db_link_schema(cfg_db_add), post, TRUE)
=============================================================================
