------------------------------- MODULE Logger -------------------------------
(***************************************************************************)
(* The logging macros of fc/log/logger.hpp.  A use of a macro is not one   *)
(* step: it asks the logger whether the level is enabled, then evaluates   *)
(* the arguments of the message, which may throw, then hands the message   *)
(* to the logger.  Other threads log and set levels in between.  The three *)
(* dumps idump, wdump and edump catch what their arguments throw and log   *)
(* an error message with the plain macro instead; a build with             *)
(* FC_DISABLE_LOGGING empties the macros of the default and user loggers.  *)
(*                                                                         *)
(* The class logger is only declared in the header: is_enabled, log and    *)
(* set_log_level are modelled by what their names and uses say.  The text  *)
(* of a message is abstracted to "message" or "error".                     *)
(***************************************************************************)
EXTENDS Integers, Sequences, FiniteSets, TLC

CONSTANTS
    Loggers,     \* names of loggers, "default" and "user" among them
    Threads,     \* threads that log
    Settings,    \* the levels loggers are set to
    MaxCalls     \* bound on the uses of macros in a behaviour

ASSUME {"default", "user"} \subseteq Loggers

VARIABLES
    disabled,    \* the build defines FC_DISABLE_LOGGING
    level,       \* the log level of each logger
    where,       \* where each thread is in its use of a macro
    call,        \* the use each thread is in
    out,         \* the messages handed to log, in order
    calls        \* uses begun

loggerVars == <<disabled, level, where, call, out, calls>>

log_level == [all |-> 0, debug |-> 1, info |-> 2, warn |-> 3, error |-> 4,
              off |-> 5]
Levels == {log_level[n] : n \in DOMAIN log_level}

ASSUME Settings \subseteq Levels

\* What a #define gives a name: a statement that asks a logger and hands
\* it a message of a level ("given" is the LOGGER argument), a use of
\* another macro with the macro of its catch block ("none" without try),
\* or the empty statement.
Asks(lvl, to)    == [is |-> "log", level |-> log_level[lvl], to |-> to]
Uses(m, handler) == [is |-> "use", macro |-> m, handler |-> handler]
Nothing          == [is |-> "nothing"]

\* Mutant: the catch block of every dump logs with ilog.
CaughtDump_Info(m) == Uses(m, "ilog")

\* idump, wdump, edump: the plain macro in a try block, and the same macro
\* in the catch block.
CaughtDump(m) == Uses(m, m)

\* The definitions of the header, in the order of the file.
Defines ==
    << <<"fc_dlog", Asks("debug", "given")>>,
       <<"fc_ilog", Asks("info", "given")>>,
       <<"fc_wlog", Asks("warn", "given")>>,
       <<"fc_elog", Asks("error", "given")>>,
       <<"dlog", Asks("debug", "default")>>,
       <<"ulog", Asks("debug", "user")>>,
       <<"ilog", Asks("info", "default")>>,
       <<"wlog", Asks("warn", "default")>>,
       <<"elog", Asks("error", "default")>>,
       <<"fc_ddump", Uses("fc_dlog", "none")>>,
       <<"fc_idump", Uses("fc_ilog", "none")>>,
       <<"fc_wdump", Uses("fc_wlog", "none")>>,
       <<"fc_edump", Uses("fc_elog", "none")>>,
       <<"ddump", Uses("dlog", "none")>>,
       <<"idump", CaughtDump("ilog")>>,
       <<"wdump", CaughtDump("wlog")>>,
       <<"edump", CaughtDump("elog")>> >>

\* Mutant: dlog is left out of the block.
Disables_NotDlog ==
    [k \in 1 .. 4 |-> <<(<<"ulog", "elog", "wlog", "ilog">>)[k], Nothing>>]

\* #ifdef FC_DISABLE_LOGGING: the #undef and #define that end the header.
Disables ==
    [k \in 1 .. 5 |-> <<(<<"ulog", "elog", "wlog", "ilog", "dlog">>)[k], Nothing>>]

Names == {Defines[k][1] : k \in DOMAIN Defines}

\* The macros with a LOGGER argument.
TakesLogger == {"fc_dlog", "fc_ilog", "fc_wlog", "fc_elog",
                "fc_ddump", "fc_idump", "fc_wdump", "fc_edump"}

\* The definition of m a use below the header sees: the last one.
InForce(off, m) ==
    LET directives == IF off THEN Defines \o Disables ELSE Defines
        of_m       == {k \in DOMAIN directives : directives[k][1] = m}
    IN  directives[CHOOSE k \in of_m : \A j \in of_m : j <= k][2]

\* What a use of m expands to.  The preprocessor replaces the macros of a
\* body where the macro is used, not where it is defined: a macro named in
\* the body of m is the one in force at the use.
Expands(off, m) ==
    LET def == InForce(off, m)
    IN  IF def.is = "use"
        THEN [handler |-> def.handler] @@ InForce(off, def.macro)
        ELSE [handler |-> "none"] @@ def

\* The expansions in a build with FC_DISABLE_LOGGING and in one without.
Expansion == [off \in BOOLEAN |-> [m \in Names |-> Expands(off, m)]]
Macros == Expansion[disabled]

\* The logger a use writes to: the LOGGER argument, get(DEFAULT_LOGGER) or
\* get("user").
Target(m, given) ==
    IF Macros[m].to = "given" THEN given ELSE Macros[m].to

\* FC_MULTILINE_MACRO_BEGIN FC_MULTILINE_MACRO_END: the use does nothing.
Empty(m) == Macros[m].is = "nothing"

is_enabled(l, e) == e >= level[l]

NoCall == [macro |-> "none"]

LoggerInit ==
    /\ disabled \in BOOLEAN
    /\ level \in [Loggers -> Settings]
    /\ where = [t \in Threads |-> "idle"]
    /\ call = [t \in Threads |-> NoCall]
    /\ out = <<>>
    /\ calls = 0

At(t, label) == where' = [where EXCEPT ![t] = label]
Returns(t) == At(t, "idle") /\ call' = [call EXCEPT ![t] = NoCall]

\* The condition of the macro: a use that is enabled goes on to its message.
Check(t, use) ==
    \/ /\ is_enabled(use.logger, Macros[use.macro].level)
       /\ At(t, "enabled")
       /\ call' = [call EXCEPT ![t] = use]
    \/ /\ ~is_enabled(use.logger, Macros[use.macro].level)
       /\ Returns(t)

\* A thread reaches a macro; throws says whether an argument of the message
\* throws when it is evaluated.  seen is a history of the use: the level the
\* logger had when the macro asked it first.
Use(t, m, given, throws) ==
    /\ where[t] = "idle"
    /\ calls < MaxCalls
    /\ calls' = calls + 1
    /\ \/ Empty(m) /\ UNCHANGED <<where, call>>
       \/ /\ ~Empty(m)
          /\ Check(t, [macro |-> m, logger |-> Target(m, given),
                       throws |-> throws, text |-> "message",
                       seen |-> level[Target(m, given)]])
    /\ UNCHANGED <<disabled, level, out>>

\* The arguments are evaluated and the message is handed to the logger.
Log(t) ==
    /\ where[t] = "enabled"
    /\ ~call[t].throws
    /\ out' = Append(out, [macro |-> call[t].macro, logger |-> call[t].logger,
                           text |-> call[t].text])
    /\ Returns(t)
    /\ UNCHANGED <<disabled, level, calls>>

\* An argument throws: the catch block of idump, wdump and edump takes it,
\* from the other macros it leaves the use.
Throw(t) ==
    /\ where[t] = "enabled"
    /\ call[t].throws
    /\ \/ Macros[call[t].macro].handler # "none" /\ At(t, "caught")
       \/ Macros[call[t].macro].handler = "none" /\ At(t, "thrown")
    /\ UNCHANGED <<disabled, level, call, out, calls>>

\* The catch block: the plain macro with the names of the arguments, its
\* condition asked again.
Catch(t) ==
    /\ where[t] = "caught"
    /\ Check(t, [macro |-> Macros[call[t].macro].handler, logger |-> call[t].logger,
                 throws |-> FALSE, text |-> "error", seen |-> call[t].seen])
    /\ UNCHANGED <<disabled, level, out, calls>>

\* The exception reaches the code that used the macro.
Unwind(t) ==
    /\ where[t] = "thrown"
    /\ Returns(t)
    /\ UNCHANGED <<disabled, level, out, calls>>

set_log_level(l, e) ==
    /\ level' = [level EXCEPT ![l] = e]
    /\ UNCHANGED <<disabled, where, call, out, calls>>

LoggerNext ==
    \/ \E t \in Threads, m \in Names, l \in Loggers, throws \in BOOLEAN :
           Use(t, m, l, throws)
    \/ \E t \in Threads : Log(t) \/ Throw(t) \/ Catch(t) \/ Unwind(t)
    \/ \E l \in Loggers, e \in Settings : level[l] # e /\ set_log_level(l, e)

LoggerSpec == LoggerInit /\ [][LoggerNext]_loggerVars

-----------------------------------------------------------------------------
\* "this disables all normal logging statements": in a build with
\* FC_DISABLE_LOGGING nothing is written through a macro that is not given
\* its logger.  The dumps are defined above the block that empties ulog,
\* elog, wlog, ilog and dlog, and are silent only because their bodies are
\* expanded where they are used; a macro missing from the block would keep
\* logging, and its dump with it.
DisabledBuildIsSilent ==
    disabled => \A n \in DOMAIN out : out[n].macro \in TakesLogger

\* The catch block of a dump logs with the plain macro of the dump's own
\* level (idump with ilog, wdump with wlog, edump with elog), and asks the
\* logger a second time.  So an exception is caught and nothing is written
\* about it only when another thread has set the level of the logger between
\* the check of the dump and the check of its catch block: with the level
\* left alone, a dump whose arguments throw always leaves its error message.
SilentOnlyAfterSetLevel ==
    [][\A t \in Threads :
           where[t] = "caught" /\ where'[t] = "idle" =>
               level[call[t].logger] # call[t].seen]_loggerVars
=============================================================================
