------------------------------ MODULE OonfCfg ------------------------------
(***************************************************************************)
(* The configuration of a running program (core/oonf_cfg.c), its plugins   *)
(* (core/oonf_plugins.c, core/oonf_subsystem.c) and the telnet commands    *)
(* 'config' (src-plugins/remotecontrol) and 'plugin'                       *)
(* (src-plugins/plugin_controller).                                        *)
(*                                                                         *)
(* Commands change the raw database; a commit makes it the work database   *)
(* and calls the delta handlers.  The main loop is not part of the         *)
(* repository: Boot, Reload and Commit are how it calls oonf_cfg.c.        *)
(***************************************************************************)
EXTENDS CfgCmd

CONSTANTS
    PluginOf,       \* section -> the plugin it belongs to, 0 for the core
    Installed,      \* plugins that dlopen() finds
    Scopes,         \* what behaviours are about: [types, file], the section types the
                    \* commands name and the configuration file at the start
    Args,           \* arguments for set, remove and get
    MaxSteps        \* bound on the number of commands and reloads

ASSUME OonfCfgAssumption ==
    /\ DOMAIN PluginOf = DOMAIN Sections
    /\ Args \subseteq [type : STRING, name : STRING, key : STRING, value : Nat]
    /\ Scopes \subseteq [types : SUBSET STRING, file : Files]
    /\ MaxSteps \in Nat

VARIABLES
    raw, work,      \* the databases _oonf_raw_db and _oonf_work_db
    schema,         \* the registered schema sections
    plugins,        \* the dynamic plugins in oonf_plugin_tree
    global,         \* config_global: [plugin, failfast]
    first_apply,    \* _first_apply
    commit,         \* _trigger_commit
    seen,           \* what each delta handler was last told: <<section, name>> -> values
    asked,          \* the value last set for an entry, while nothing removed it
    granted,        \* 'asked' at the last successful commit
    cmd, reg,       \* the cfg_instance: remembered section, registered parsers
    file,           \* the configuration file
    scope, steps

vars == <<raw, work, schema, plugins, global, first_apply, commit, seen, asked,
          granted, cmd, reg, file, scope, steps>>
dbvars == <<work, schema, plugins, global, first_apply, commit, seen, granted, scope>>

Core == {s \in DOMAIN Sections : PluginOf[s] = 0}
Globals == "global"

oonf_cfg_update_globalcfg(db) ==
    LET bin == IF cfg_db_find_namedsection(db, "g", NoName)
               THEN cfg_schema_tobin(Core, db, Globals, NoName) ELSE Defaults(Globals)
    IN  [plugin |-> bin["plugin"], failfast |-> bin["failfast"] = <<1>>]

oonf_cfg_init ==
    /\ raw = cfg_db_link_schema(cfg_db_add)
    /\ work = cfg_db_add
    /\ schema = Core
    /\ plugins = {}
    /\ global = [plugin |-> <<>>, failfast |-> FALSE]
    /\ first_apply = TRUE
    /\ commit = FALSE

Init ==
    /\ oonf_cfg_init
    /\ seen = Nothing /\ asked = Nothing /\ granted = Nothing
    /\ cmd = cfg_cmd_clear_state
    /\ reg = cfg_parser_add(cfg_add, "compact")
    /\ \E s \in Scopes : scope = s.types /\ file = s.file
    /\ steps = 0

-----------------------------------------------------------------------------
(* Plugins.  Value 0 is an empty name, which is skipped.                   *)

\* oonf_cfg_load_plugin() for all names; with failfast the first one that
\* cannot be loaded ends the loop.
Wanted(g) ==
    LET bad == {i \in DOMAIN g.plugin : g.plugin[i] # 0 /\ g.plugin[i] \notin Installed}
        upto == IF bad = {} \/ ~g.failfast THEN Len(g.plugin)
                ELSE (CHOOSE i \in bad : \A j \in bad : i <= j) - 1
    IN  [names |-> {g.plugin[i] : i \in 1 .. upto} \cap Installed,
         ok |-> bad = {} \/ ~g.failfast]

\* oonf_subsystem_configure(): only a plugin not in the tree before is given
\* its schema sections.
oonf_subsystem_configure(sch, new) ==
    sch \cup {s \in DOMAIN Sections : PluginOf[s] \in new}

\* Plugins no longer wanted stay: no plugin of the repository sets can_cleanup,
\* so oonf_plugins_unload() refuses.
oonf_cfg_loadplugins ==
    LET w == Wanted(global)
    IN  [plugins |-> plugins \cup w.names,
         schema |-> oonf_subsystem_configure(schema, w.names \ plugins),
         ok |-> w.ok]

\* The telnet command 'plugin <word> <p>': the tests of the word are inverted,
\* so it is every word but 'load' that loads, and it loads without configuring.
PluginCommand(p) ==
    /\ ~first_apply /\ "z" \in scope /\ steps < MaxSteps /\ steps' = steps + 1
    /\ p \in Installed \ plugins
    /\ plugins' = plugins \cup {p}
    /\ UNCHANGED <<raw, work, schema, global, first_apply, commit, seen, asked, granted,
                   cmd, reg, file, scope>>

-----------------------------------------------------------------------------
(* Commits.                                                                *)

\* What the handlers know after the calls; a named section that is gone is
\* not followed any more.
Told(view, sch, calls, post) ==
    LET keep == {p \in DOMAIN view \cup calls :
                   \/ Sections[p[1]].mode \in UnnamedModes
                   \/ p[2] \in Names(post, Sections[p[1]].type)}
    IN  [p \in keep |->
           IF p \notin calls THEN view[p]
           ELSE IF HasPost(post, p[1], p[2])
           THEN cfg_schema_tobin(sch, post, p[1], p[2]) ELSE Defaults(p[1])]

\* The entries of known section types among those asked for.
KnownAsked(a, sch) ==
    [e \in {x \in DOMAIN a : OfType(sch, x[1]) # {}} |-> a[e]]

\* oonf_cfg_apply() with the raw database r, the wishes a and the globals g.
ApplyOk(r, loaded) == loaded.ok /\ cfg_schema_validate(loaded.schema, r, TRUE)

\* A plausible bug: the work database is taken over as it is.
NewWorkUncleaned(sch, r) == cfg_db_link_schema(cfg_db_duplicate(r))

NewWork(sch, r) == Cleaned(sch, cfg_db_link_schema(cfg_db_duplicate(r)))

oonf_cfg_apply(r, a, loaded) ==
    /\ plugins' = loaded.plugins
    /\ schema' = loaded.schema
    /\ IF ApplyOk(r, loaded)
       THEN LET post == NewWork(loaded.schema, r)
                calls == IF first_apply
                         THEN cfg_schema_handle_db_startup_changes(loaded.schema, post)
                         ELSE cfg_schema_handle_db_changes(loaded.schema, work, post)
            IN  /\ work' = post
                /\ global' = oonf_cfg_update_globalcfg(post)
                /\ seen' = Told(seen, loaded.schema, calls, post)
                /\ first_apply' = FALSE
                /\ commit' = FALSE
                /\ raw' = cfg_db_link_schema(cfg_db_duplicate(post))
                /\ asked' = KnownAsked(a, loaded.schema)
                /\ granted' = KnownAsked(a, loaded.schema)
       ELSE /\ raw' = r /\ asked' = a
            /\ UNCHANGED <<work, seen, first_apply, commit, granted>>
            /\ global' = global

Commit ==
    /\ commit
    /\ oonf_cfg_apply(raw, asked, oonf_cfg_loadplugins)
    /\ UNCHANGED <<cmd, reg, file, scope, steps>>

\* The main program's start (external): the file is read, the global section
\* taken from the raw database, the plugins loaded and everything applied.  A
\* start that fails ends the program.
Boot ==
    /\ first_apply
    /\ LET r == cfg_cmd_handle_load(reg, cmd, raw, file)
           w == Wanted(oonf_cfg_update_globalcfg(r))
           loaded == [plugins |-> plugins \cup w.names,
                      schema |-> oonf_subsystem_configure(schema, w.names \ plugins),
                      ok |-> w.ok]
       IN  /\ ApplyOk(r, loaded)
           /\ oonf_cfg_apply(r, asked, loaded)
    /\ UNCHANGED <<cmd, reg, file, scope, steps>>

\* A reload (external): oonf_cfg_clear_rawdb(), the file again, a commit.
Reload ==
    /\ ~first_apply
    /\ steps < MaxSteps /\ steps' = steps + 1
    /\ raw' = cfg_cmd_handle_load(reg, cmd, cfg_db_link_schema(cfg_db_add), file)
    /\ asked' = Nothing
    /\ commit' = TRUE
    /\ UNCHANGED <<work, schema, plugins, global, first_apply, seen, granted, cmd, reg,
                   file, scope>>

\* oonf_cfg_rollback(): the copy of the work database has no schema, so that
\* it does not pass any validation until the raw database is cleared.
oonf_cfg_rollback ==
    /\ ~first_apply
    /\ steps < MaxSteps /\ steps' = steps + 1
    /\ raw' = cfg_db_duplicate(work)
    /\ asked' = granted
    /\ UNCHANGED <<dbvars, cmd, reg, file>>

-----------------------------------------------------------------------------
(* The telnet command 'config'.                                            *)

Step == steps < MaxSteps /\ steps' = steps + 1 /\ UNCHANGED dbvars

InScope == {arg \in Args : arg.type = NoType \/ arg.type \in scope}
Target(arg) == LET c == do_parse_arg(cmd, arg) IN <<c.type, c.name, arg.key>>

SetCommand(arg) ==
    /\ Step
    /\ do_parse_arg(cmd, arg).type # NoType
    /\ raw' = cfg_cmd_handle_set(cmd, raw, arg)
    /\ asked' = IF arg.value = NoValue THEN asked
                ELSE Put(asked, Target(arg), arg.value)
    /\ cmd' = do_parse_arg(cmd, arg)
    /\ UNCHANGED <<reg, file>>

RemoveCommand(arg) ==
    /\ Step
    /\ do_parse_arg(cmd, arg).type # NoType
    /\ arg.value = NoValue
    /\ raw' = cfg_cmd_handle_remove(cmd, raw, arg)
    /\ asked' = [e \in {x \in DOMAIN asked : cfg_db_find_entry(raw', x[1], x[2], x[3])}
                   |-> asked[e]]
    /\ cmd' = do_parse_arg(cmd, arg)
    /\ UNCHANGED <<reg, file>>

GetCommand(arg) ==
    /\ Step
    /\ arg.key = NoKey
    /\ cmd' = cfg_cmd_handle_get(cmd, arg)
    /\ UNCHANGED <<raw, asked, reg, file>>

LoadCommand ==
    /\ Step
    /\ raw' = cfg_cmd_handle_load(reg, cmd, raw, file)
    /\ UNCHANGED <<asked, cmd, reg, file>>

SaveCommand ==
    /\ Step
    /\ file' = cfg_cmd_handle_save(reg, cmd, raw, file)
    /\ UNCHANGED <<raw, asked, cmd, reg>>

\* The parsers come and go, and formats are named, in the behaviours about them.
FormatCommand(format) ==
    /\ scope = {"parsers"} /\ Step
    /\ cmd' = cfg_cmd_handle_format(cmd, format)
    /\ UNCHANGED <<raw, asked, reg, file>>

CommitCommand ==
    /\ ~commit /\ ~first_apply
    /\ cfg_schema_validate(schema, raw, TRUE)
    /\ commit' = TRUE
    /\ UNCHANGED <<raw, work, schema, plugins, global, first_apply, seen, asked, granted,
                   cmd, reg, file, scope, steps>>

-----------------------------------------------------------------------------
\* Plugins that bring a parser: registered when configured, removed at cleanup.
ChangeParsers(p) ==
    /\ scope = {"parsers"} /\ Step
    /\ reg' = IF p \in reg.known THEN cfg_parser_remove(reg, p) ELSE cfg_parser_add(reg, p)
    /\ UNCHANGED <<raw, asked, cmd, file>>

Next ==
    \/ Boot \/ Commit \/ Reload \/ oonf_cfg_rollback
    \/ \E arg \in InScope : SetCommand(arg) \/ RemoveCommand(arg) \/ GetCommand(arg)
    \/ LoadCommand \/ SaveCommand \/ CommitCommand
    \/ \E f \in Range(ParserOrder) \cup {NoParser} : FormatCommand(f)
    \/ \E p \in Installed : PluginCommand(p)
    \/ \E p \in Range(ParserOrder) : ChangeParsers(p)

Spec == Init /\ [][Next]_vars

-----------------------------------------------------------------------------
(* Properties.                                                             *)

(***************************************************************************)
(* What a delta handler was last told about a section is what the section  *)
(* effectively has in the work database, through its own entries, the      *)
(* unnamed section of its type and the schema, for as long as the section  *)
(* exists.  Every handler of an unnamed section that was registered at the *)
(* start has been called, or, where the mode leaves the call at startup    *)
(* out, has nothing but defaults to miss (cfg_schema.c:812-1098).          *)
(***************************************************************************)
HandlersAreCurrent ==
    ~first_apply =>
        /\ \A p \in DOMAIN seen : seen[p] = cfg_schema_tobin(schema, work, p[1], p[2])
        /\ \A s \in Core :
              /\ Sections[s].handler
              /\ Sections[s].mode \in UnnamedModes
              /\ <<s, NoName>> \notin DOMAIN seen
              => /\ Sections[s].mode = "unnamed_optional"
                 /\ cfg_schema_tobin(schema, work, s, NoName) = Defaults(s)

(***************************************************************************)
(* Whatever was loaded, set or left in the raw database, what a commit     *)
(* puts into the work database is what the schema allows at that time:     *)
(* only known section types, no names where there may be none, all entries *)
(* without a default, and of the entries with a validator only values it   *)
(* accepts, and one value where it is not a list (oonf_cfg.c:329-349,      *)
(* cfg_schema.c:177-310).                                                  *)
(***************************************************************************)
Clean(sch, db) ==
    \A t \in DOMAIN db.types :
        /\ OfType(sch, t) # {}
        /\ \A n \in Names(db, t) :
            /\ ~BadName(sch, t, n)
            /\ ~check_missing_entries(sch, t, db.types[t][n])
            /\ \A k \in DOMAIN db.types[t][n] : \A c \in Checks(sch, t, k) :
                   /\ \A i \in DOMAIN db.types[t][n][k] : db.types[t][n][k][i] \in c.valid
                   /\ ~c.list => Len(db.types[t][n][k]) = 1

Applied == (commit /\ ~commit') \/ (first_apply /\ ~first_apply')
WorkIsClean == [][Applied => Clean(schema', work')]_vars

(***************************************************************************)
(* The value an operator has set last for an entry comes first in it, also *)
(* after loading a file on top, commits that failed and commits that       *)
(* cleaned the database up, and so it is the value a single-valued entry   *)
(* gets; after a rollback the value of the last commit is back             *)
(* (cfg_cmd.c:103-113, cfg_db.h:347-364, cfg_schema.c:955-975).            *)
(***************************************************************************)
LastSetWins ==
    /\ \A e \in DOMAIN asked :
          /\ cfg_db_find_entry(raw, e[1], e[2], e[3])
          /\ Head(raw.types[e[1]][e[2]][e[3]]) = asked[e]
    /\ \A e \in DOMAIN granted :
          /\ cfg_db_find_entry(work, e[1], e[2], e[3])
          /\ Head(work.types[e[1]][e[2]][e[3]]) = granted[e]

(***************************************************************************)
(* Saving the work database and loading it again gives back all sections,  *)
(* the empty ones too, all single values and all members of lists; the     *)
(* order of a list is reversed, as the parser puts each value in front     *)
(* (cfgparser_compact.c:125-310).                                          *)
(***************************************************************************)
SavedIsRestored ==
    LET again == cb_compact_parse(cb_compact_serialize(work))
    IN  /\ ~Fails(again)
        /\ DOMAIN again.types = DOMAIN work.types
        /\ \A t \in DOMAIN work.types :
             /\ Names(again, t) = Names(work, t)
             /\ \A n \in Names(work, t) :
                  /\ KeysOf(again, t, n) = KeysOf(work, t, n)
                  /\ \A k \in KeysOf(work, t, n) :
                        again.types[t][n][k] = Reverse(work.types[t][n][k])

(***************************************************************************)
(* As long as any parser is registered one of them is the default, and one *)
(* that asked to be the default if there is such a one                     *)
(* (cfg_parser.c:64-100).                                                  *)
(***************************************************************************)
DefaultIsRegistered ==
    /\ reg.known # {} => reg.default \in reg.known
    /\ reg.known = {} => reg.default = NoParser
    /\ reg.known \cap DefParsers # {} => reg.default \in DefParsers

(***************************************************************************)
(* A handler of named sections has been told of every section there is:    *)
(* 'named section, delta handlers will always trigger for this'            *)
(* (cfg_schema.h:205).  It does not hold: a section added to a running     *)
(* program whose values are those of the unnamed section or the defaults   *)
(* does not count as a change.                                             *)
(***************************************************************************)
NamedIsTold ==
    ~first_apply =>
        \A s \in {x \in schema : Sections[x].mode = "named" /\ Sections[x].handler} :
            \A n \in Names(work, Sections[s].type) \ {NoName} : <<s, n>> \in DOMAIN seen
=============================================================================
