------------------------------- MODULE CfgCmd -------------------------------
(***************************************************************************)
(* The configuration commands (config/cfg_cmd.c), the registries of parsers*)
(* and io handlers (cfg_parser.c, cfg_io.c), and the compact format        *)
(* (src-plugins/cfgparser_compact).                                        *)
(*                                                                         *)
(* A command's argument 'type[name].key=value' is a record                 *)
(*    [type, name, key, value]                                             *)
(* with NoType, NoName, NoKey and NoValue for the parts left out.  The type*)
(* and name of the last argument that had a type are remembered and used   *)
(* for the arguments that have none.  A text in the compact format is a    *)
(* sequence of lines: [head |-> TRUE, type, name] for '[type=name]' and    *)
(* [head |-> FALSE, key, value] for an entry; a line without a second      *)
(* token has NoValue.                                                      *)
(***************************************************************************)
EXTENDS CfgSchema

CONSTANTS
    TypeOrder, NameOrder, KeyOrder,  \* sequences: the order of the AVL trees
    ParserOrder, DefParsers          \* the parsers, and those with the def flag

ASSUME CfgCmdAssumption ==
    /\ \A order \in {TypeOrder, NameOrder, KeyOrder, ParserOrder} : order \in Seq(STRING)
    /\ "compact" \in Range(ParserOrder)

NoType == "-"
NoKey == "-"
NoValue == 99
Failed == [failed |-> TRUE]
Fails(x) == "failed" \in DOMAIN x

\* The lines of a text and the contents of a file, Failed if it cannot be read.
Lines == [head : {TRUE}, type : STRING, name : STRING]
         \cup [head : {FALSE}, key : STRING, value : Nat]
Files == [text : Seq(Lines)] \cup {Failed}

-----------------------------------------------------------------------------
(* The registry of parsers; io handlers are kept the same way.             *)

NoParser == "none"
cfg_add == [known |-> {}, default |-> NoParser]

cfg_parser_add(reg, p) ==
    LET known == reg.known \cup {p}
    IN  [known |-> known,
         default |-> IF p \in DefParsers \/ Cardinality(known) = 1
                     THEN p ELSE reg.default]

FirstOf(known) ==
    IF known = {} THEN NoParser
    ELSE ParserOrder[CHOOSE i \in DOMAIN ParserOrder :
            /\ ParserOrder[i] \in known
            /\ \A j \in 1 .. i - 1 : ParserOrder[j] \notin known]

\* A plausible bug: another default is chosen only among the flagged parsers.
RemoveWantsFlag(reg, p) ==
    LET known == reg.known \ {p}
    IN  [known |-> known,
         default |-> IF reg.default = p THEN FirstOf(known \cap DefParsers) ELSE reg.default]

cfg_parser_remove(reg, p) ==
    LET known == reg.known \ {p}
    IN  [known |-> known,
         default |-> IF p \notin reg.known \/ reg.default # p THEN reg.default
                     ELSE IF known \cap DefParsers # {} THEN FirstOf(known \cap DefParsers)
                     ELSE FirstOf(known)]

\* _find_parser(); the format 'auto' (NULL) takes the default.
find_parser(reg, format) ==
    IF format = NoParser THEN reg.default
    ELSE IF format \in reg.known THEN format ELSE NoParser

-----------------------------------------------------------------------------
(* The compact format.                                                     *)

\* The texts f[x] one after the other, in the order of the tree.
InOrder(f, order) ==
    LET upTo[i \in 0 .. Len(order)] ==
          IF i = 0 THEN <<>>
          ELSE IF Has(f, order[i]) THEN upTo[i - 1] \o f[order[i]] ELSE upTo[i - 1]
    IN  upTo[Len(order)]

cb_compact_serialize(db) ==
    LET lines(t, n) == [k \in KeysOf(db, t, n) |->
                          [i \in 1 .. Len(ValuesOf(db, t, n, k)) |->
                             [head |-> FALSE, key |-> k, value |-> ValuesOf(db, t, n, k)[i]]]]
        sections(t) == [n \in Names(db, t) |->
                          <<[head |-> TRUE, type |-> t, name |-> n]>>
                          \o InOrder(lines(t, n), KeyOrder)]
    IN  InOrder([t \in DOMAIN db.types |-> InOrder(sections(t), NameOrder)], TypeOrder)

\* _parse_line(): p is [db, type, name], the section being that of the last
\* head line.  A plausible bug: the name of the last section is not reset.
ParseKeepsName(p, line) ==
    IF Fails(p) THEN p
    ELSE IF line.head
    THEN LET n == IF line.name = NoName THEN p.name ELSE line.name
         IN  [db |-> cfg_db_add_section(p.db, line.type, n), type |-> line.type, name |-> n]
    ELSE IF p.type = NoType \/ line.value = NoValue THEN Failed
    ELSE [p EXCEPT !.db = cfg_db_add_entry(p.db, p.type, p.name, line.key, line.value)]

parse_line(p, line) ==
    IF Fails(p) THEN p
    ELSE IF line.head
    THEN [db |-> cfg_db_add_section(p.db, line.type, line.name),
          type |-> line.type, name |-> line.name]
    ELSE IF p.type = NoType \/ line.value = NoValue THEN Failed
    ELSE [p EXCEPT !.db = cfg_db_add_entry(p.db, p.type, p.name, line.key, line.value)]

cb_compact_parse(text) ==
    LET after[i \in 0 .. Len(text)] ==
          IF i = 0 THEN [db |-> cfg_db_add, type |-> NoType, name |-> NoName]
          ELSE parse_line(after[i - 1], text[i])
        done == after[Len(text)]
    IN  IF Fails(done) THEN Failed ELSE done.db

\* Reading and writing through the file io: only the compact parser knows the
\* text, and a file that cannot be opened or parsed gives no database.
cfg_io_load(reg, format, file) ==
    IF file = Failed \/ find_parser(reg, format) # "compact"
    THEN Failed ELSE cb_compact_parse(file.text)

cfg_io_save(reg, format, db, file) ==
    IF find_parser(reg, format) # "compact"
    THEN file ELSE [text |-> cb_compact_serialize(db)]

-----------------------------------------------------------------------------
(* The commands.  cmd = [type, name, format] is what the instance remembers*)
(* from one command to the next.                                           *)

cfg_cmd_clear_state == [type |-> NoType, name |-> NoName, format |-> NoParser]

do_parse_arg(cmd, arg) ==
    IF arg.type = NoType THEN cmd
    ELSE [cmd EXCEPT !.type = arg.type, !.name = arg.name]

\* set: the database afterwards.  Without any section type so far an assertion
\* ends the program, so callers give one first.
cfg_cmd_handle_set(cmd, db, arg) ==
    LET c == do_parse_arg(cmd, arg)
    IN  IF arg.value # NoValue
        THEN cfg_db_set_entry(db, c.type, c.name, arg.key, arg.value, TRUE)
        ELSE IF arg.key # NoKey THEN db
        ELSE cfg_db_add_section(db, c.type, c.name)

\* remove: after a named section its whole section type is removed as well,
\* as the code falls through to the next test.
cfg_cmd_handle_remove(cmd, db, arg) ==
    LET c == do_parse_arg(cmd, arg)
    IN  IF arg.value # NoValue THEN db
        ELSE IF arg.key # NoKey THEN cfg_db_remove_entry(db, c.type, c.name, arg.key)
        ELSE IF c.name # NoName /\ ~cfg_db_find_namedsection(db, c.type, c.name) THEN db
        ELSE cfg_db_remove_sectiontype(cfg_db_remove_namedsection(db, c.type, c.name),
                                       c.type)

\* get changes nothing but the remembered section.
cfg_cmd_handle_get(cmd, arg) == do_parse_arg(cmd, arg)

cfg_cmd_handle_load(reg, cmd, db, file) ==
    LET new == cfg_io_load(reg, cmd.format, file)
    IN  IF Fails(new) THEN db ELSE cfg_db_copy(db, new)

cfg_cmd_handle_save(reg, cmd, db, file) == cfg_io_save(reg, cmd.format, db, file)

cfg_cmd_handle_format(cmd, format) == [cmd EXCEPT !.format = format]
=============================================================================
