-------------------------------- MODULE Core --------------------------------
(***************************************************************************)
(* The libretro core as a frontend sees it: the callbacks it sets, the     *)
(* options it is told of while it sets the environment, and the machines   *)
(* of Lifecycle.                                                           *)
(*                                                                         *)
(* The frontend is the one libretro.h promises: it sets the environment    *)
(* before retro_init and the other callbacks before the first retro_run,   *)
(* and makes one call at a time.  The entry points that neither change     *)
(* state nor call back are left out.                                       *)
(***************************************************************************)
EXTENDS Lifecycle, CoreOptions

VARIABLES
  environ_cb,    \* set
  setting,       \* retro_set_environment is running
  log_cb,        \* "unset", "frontend" or "fallback"
  others,        \* the other callbacks are set
  null_called    \* a callback that was not set has been called

callbackVars == <<environ_cb, setting, log_cb, others, null_called>>
coreVars     == <<vars, optionVars, callbackVars>>

\* No call into the core is running.
Outside == Idle /\ phase \notin Closing /\ ~ setting

-----------------------------------------------------------------------------
\* retro_set_environment, up to the options.
retro_set_environment ==
  /\ Outside
  /\ phase = "unloaded"
  /\ environ_cb' = TRUE
  /\ setting' = TRUE
  /\ libretro_set_core_options
  /\ UNCHANGED <<vars, log_cb, others, null_called>>

SetOptions ==
  /\ OptionsNext
  /\ UNCHANGED <<vars, callbackVars>>

\* Mistake: there is no fallback.
SetLog_NoFallback(logs) ==
  /\ setting /\ at = "returned"
  /\ setting' = FALSE
  /\ log_cb' = IF log_cb = "unset" /\ logs THEN "frontend" ELSE log_cb
  /\ UNCHANGED <<vars, optionVars, environ_cb, others, null_called>>

\* The rest of retro_set_environment: the frontend may have no log interface.
\* A log callback that is set stays.
SetLog(logs) ==
  /\ setting /\ at = "returned"
  /\ setting' = FALSE
  /\ log_cb' = CASE log_cb # "unset" -> log_cb
                 [] log_cb = "unset" /\ logs -> "frontend"
                 [] OTHER -> "fallback"
  /\ UNCHANGED <<vars, optionVars, environ_cb, others, null_called>>

\* retro_set_video_refresh and the four setters of the other callbacks.
SetCallbacks ==
  /\ Outside
  /\ phase # "deinitialised"
  /\ ~ others
  /\ others' = TRUE
  /\ UNCHANGED <<vars, optionVars, environ_cb, setting, log_cb, null_called>>

\* The callbacks the entry points of Lifecycle call: retro_load_game reports
\* the platform, and so do Init and LoadBootRoms their failures.
CallsBack(call, callbacks) ==
  /\ call
  /\ null_called' = (null_called \/ ~ callbacks)
  /\ UNCHANGED <<optionVars, environ_cb, setting, log_cb, others>>

\* Log.
CanLog == log_cb # "unset"

\* retro_set_controller_port_device only reports.
retro_set_controller_port_device ==
  /\ Outside
  /\ phase \in {"initialised", "loaded"}
  /\ CallsBack(UNCHANGED vars, CanLog)

Enter ==
  /\ Outside
  /\ error = "none"
  /\ \/ /\ phase = "unloaded" /\ environ_cb
        /\ CallsBack(retro_init, environ_cb)
     \/ CallsBack(NoPlatform, CanLog)
     \/ \E stage \in InitOutcomes, allocated \in BOOLEAN,
            size \in BiosSizes \cup {Unset} :
          CallsBack(retro_load_game(stage, allocated, size), CanLog)
     \/ others /\ CallsBack(retro_run, others /\ CanLog)
     \/ CallsBack(retro_unload_game, TRUE)
     \/ CallsBack(retro_deinit, TRUE)

\* The variables of the library go with it.
Unload ==
  /\ Outside
  /\ error = "none"
  /\ UnloadLibrary
  /\ environ_cb' = FALSE
  /\ log_cb' = "unset"
  /\ others' = FALSE
  /\ UNCHANGED <<optionVars, setting, null_called>>

LoadOn == CallsBack(Load, environ_cb /\ CanLog)

ShutdownOn == CallsBack(Shutdown, TRUE)

CoreInit ==
  /\ Init
  /\ OptionsInit
  /\ environ_cb = FALSE
  /\ setting = FALSE
  /\ log_cb = "unset"
  /\ others = FALSE
  /\ null_called = FALSE

CoreNext ==
  \/ retro_set_environment
  \/ SetOptions
  \/ \E logs \in BOOLEAN : SetLog(logs)
  \/ SetCallbacks
  \/ retro_set_controller_port_device
  \/ Enter
  \/ Unload
  \/ LoadOn
  \/ ShutdownOn

\* A call that has begun goes on.
CoreSpec ==
  /\ CoreInit /\ [][CoreNext]_coreVars
  /\ WF_coreVars(LoadOn)

-----------------------------------------------------------------------------
(* Properties.                                                             *)

\* A frontend that keeps its promises is never called back through a pointer
\* that is not set, whatever it answers to retro_set_environment.
NoNullCall == ~ null_called

=============================================================================
