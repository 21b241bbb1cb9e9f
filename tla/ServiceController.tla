------------------------- MODULE ServiceController --------------------------
(***************************************************************************)
(* Installing and uninstalling a service, and undoing either when a step    *)
(* fails (ServiceController of reccy/services/controller.py).               *)
(*                                                                         *)
(* An operation is a list of steps still to do: files it writes, removes or *)
(* restores, and commands to the platform's service manager.  Each may      *)
(* succeed, fail, or raise though it took effect (a timeout, an interrupt). *)
(* Contents are "old" if they were there before the operation, else "new".  *)
(***************************************************************************)
EXTENDS Sequences

File == {"metadata", "service", "status"}
Content == {"none", "old", "new"}
Platform == {"macos", "windows", "linux"}
Operation == {"none", "install", "uninstall", "start", "stop", "restart"}

VARIABLES
  platform,   \* self.platform
  files,      \* contents of the metadata, service and status files
  log,        \* the log file: none, empty or written
  manager,    \* what the service manager has loaded, enabled and running
  op,         \* the operation under way
  todo,       \* its steps left
  undoing,    \* the operation has failed: todo is its rollback
  original,   \* contents read when it began
  log_existed,
  was,        \* is-enabled and is-active when it began
  attempted,  \* commands of the operation, begun
  completed,  \* and ended
  before,     \* history: manager when the operation began
  uncertain   \* history: a command raised after its effect, or a rollback failed

locals == <<original, log_existed, was, attempted, completed>>
history == <<before, uncertain>>
vars == <<platform, files, log, manager, op, todo, undoing, locals, history>>

Manager == [loaded : Content, enabled : BOOLEAN, running : BOOLEAN]
Command == {"bootstrap", "bootout", "kickstart", "register", "unregister",
            "start_task", "stop_task", "reload", "enable", "disable", "start", "stop"}
FileStep == {"write_metadata", "ensure_log", "write_service", "unlink_service",
             "unlink_metadata", "unlink_status", "restore_metadata",
             "restore_service", "restore_status", "unlink_log"}

TypeOK ==
  /\ platform \in Platform
  /\ files \in [File -> Content]
  /\ log \in {"none", "empty", "written"}
  /\ manager \in Manager /\ before \in Manager
  /\ op \in Operation
  /\ todo \in Seq(Command \cup FileStep)
  /\ undoing \in BOOLEAN /\ log_existed \in BOOLEAN /\ uncertain \in BOOLEAN
  /\ original \in [File -> Content]
  /\ was \in [enabled : BOOLEAN, running : BOOLEAN]
  /\ attempted \subseteq Command /\ completed \subseteq attempted

Absent == [file \in File |-> "none"]
NothingLoaded == [loaded |-> "none", enabled |-> FALSE, running |-> FALSE]

Init ==
  /\ platform \in Platform
  /\ files = Absent /\ log = "none" /\ manager = NothingLoaded
  /\ op = "none" /\ todo = <<>> /\ undoing = FALSE
  /\ original = Absent /\ log_existed = FALSE
  /\ was = [enabled |-> FALSE, running |-> FALSE]
  /\ attempted = {} /\ completed = {}
  /\ before = NothingLoaded /\ uncertain = FALSE

-----------------------------------------------------------------------------
(* The service managers, as the commands are used.                          *)

Accepts(command) ==
  CASE command = "bootstrap" -> manager.loaded = "none" /\ files["service"] /= "none"
    [] command \in {"register", "enable"} -> files["service"] /= "none"
    [] command = "reload" -> TRUE
    [] OTHER -> manager.loaded /= "none"

After(command) ==
  CASE command = "bootstrap" ->
         [manager EXCEPT !.loaded = files["service"], !.running = TRUE]
    [] command \in {"register", "reload"} ->
         [manager EXCEPT !.loaded = files["service"]]
    [] command \in {"bootout", "unregister"} ->
         [manager EXCEPT !.loaded = "none", !.running = FALSE]
    [] command \in {"enable", "disable"} ->
         [manager EXCEPT !.enabled = command = "enable"]
    [] command \in {"kickstart", "start_task", "start"} ->
         [manager EXCEPT !.running = TRUE]
    [] OTHER -> [manager EXCEPT !.running = FALSE]

(* The installed program writes its log and status files while it runs. *)
Daemon ==
  /\ manager.running
  /\ log' = "written"
  /\ files' = [files EXCEPT !["status"] = IF @ = "none" THEN "old" ELSE @]
  /\ UNCHANGED <<platform, manager, op, todo, undoing, locals, history>>

(* Somebody enables or disables an installed unit by systemctl. *)
Administer ==
  /\ op = "none" /\ platform = "linux" /\ files["service"] /= "none"
  /\ manager' = [manager EXCEPT !.enabled = ~@]
  /\ UNCHANGED <<platform, files, log, op, todo, undoing, locals, history>>

-----------------------------------------------------------------------------
(* The steps of the operations.                                             *)

InstallSteps ==
  <<"write_metadata", "ensure_log", "write_service">> \o
  CASE platform = "macos" -> <<"bootstrap">>
    [] platform = "windows" -> <<"register", "ensure_log", "start_task">>
    [] OTHER -> <<"reload", "enable", "start">>

UninstallSteps ==
  CASE platform = "macos" ->
         <<"bootout", "unlink_service", "unlink_metadata", "unlink_status">>
    [] platform = "windows" ->
         <<"unregister", "unlink_service", "unlink_metadata", "unlink_status">>
    [] OTHER -> <<"stop", "disable", "unlink_service", "reload",
                  "unlink_metadata", "unlink_status">>

(* What start runs after launchctl print has told whether the job is loaded. *)
StartSteps(loaded) ==
  <<"ensure_log",
    CASE platform = "macos" -> IF loaded THEN "kickstart" ELSE "bootstrap"
      [] platform = "windows" -> "start_task"
      [] OTHER -> "start">>

StopSteps ==
  CASE platform = "macos" -> <<"bootout">>
    [] platform = "windows" -> <<"stop_task">>
    [] OTHER -> <<"stop">>

When(condition, steps) == IF condition THEN steps ELSE <<>>
WasInstalled == original["service"] /= "none"

(* A mistake: the manager reads its definitions before the files are back. *)
UndoInstallReloadsFirst(tried, done) ==
  When(platform = "macos" /\ "bootstrap" \in done /\ ~WasInstalled, <<"bootout">>) \o
  When(platform = "windows" /\ "register" \in done /\ ~WasInstalled, <<"unregister">>) \o
  When(platform = "linux" /\ ~WasInstalled /\ "start" \in tried /\ "enable" \in done,
       <<"stop">>) \o
  When(platform = "linux" /\ ~WasInstalled /\ "enable" \in done, <<"disable">>) \o
  When(platform = "linux" /\ tried /= {}, <<"reload">>) \o
  When(platform = "windows" /\ tried /= {} /\ WasInstalled, <<"register">>) \o
  <<"restore_metadata", "restore_service">> \o When(~log_existed, <<"unlink_log">>)

(* _rollback_install *)
UndoInstall(tried, done) ==
  When(platform = "macos" /\ "bootstrap" \in done /\ ~WasInstalled, <<"bootout">>) \o
  When(platform = "windows" /\ "register" \in done /\ ~WasInstalled, <<"unregister">>) \o
  When(platform = "linux" /\ ~WasInstalled /\ "start" \in tried /\ "enable" \in done,
       <<"stop">>) \o
  When(platform = "linux" /\ ~WasInstalled /\ "enable" \in done, <<"disable">>) \o
  <<"restore_metadata", "restore_service">> \o When(~log_existed, <<"unlink_log">>) \o
  When(platform = "linux" /\ tried /= {}, <<"reload">>) \o
  When(platform = "windows" /\ tried /= {} /\ WasInstalled, <<"register">>)

(* The rollback in uninstall, and _rollback_uninstall. *)
UndoUninstall(tried) ==
  <<"restore_service", "restore_metadata", "restore_status">> \o
  When(tried /= {} /\ WasInstalled,
    CASE platform = "macos" -> <<"bootstrap">>
      [] platform = "windows" -> <<"register">>
      [] OTHER -> <<"reload">> \o When(was.enabled, <<"enable">>)
                  \o When(was.running, <<"start">>))

-----------------------------------------------------------------------------

Begin(operation, steps) ==
  /\ op = "none" /\ op' = operation
  /\ todo' = steps /\ undoing' = FALSE
  /\ original' = files /\ log_existed' = (log /= "none")
  /\ was' = [enabled |-> manager.enabled, running |-> manager.running]
  /\ attempted' = {} /\ completed' = {}
  /\ before' = manager /\ uncertain' = FALSE
  /\ UNCHANGED <<platform, files, log, manager>>

Install == Begin("install", InstallSteps)
Uninstall == Begin("uninstall", UninstallSteps)
Start == Begin("start", StartSteps(manager.loaded /= "none"))
StopService == Begin("stop", StopSteps)
Restart == Begin("restart",
             StopSteps \o StartSteps(platform /= "macos" /\ manager.loaded /= "none"))

UnlinkStep == [metadata |-> "unlink_metadata", service |-> "unlink_service",
               status |-> "unlink_status"]
RestoreStep == [metadata |-> "restore_metadata", service |-> "restore_service",
                status |-> "restore_status"]

Running(step) == op /= "none" /\ todo /= <<>> /\ Head(todo) = step

(* A mistake: what was not there before is left there. *)
RestoreContents(file) ==
  IF original[file] = "none" THEN files[file] ELSE original[file]

Restored(file) == original[file]

(* The effect of a file step. *)
Write(step) ==
  /\ files' =
       [file \in File |->
         CASE step = "write_metadata" /\ file = "metadata" -> "new"
           [] step = "write_service" /\ file = "service" -> "new"
           [] step = UnlinkStep[file] -> "none"
           [] step = RestoreStep[file] -> Restored(file)
           [] OTHER -> files[file]]
  /\ log' = CASE step = "ensure_log" /\ log = "none" -> "empty"
              [] step = "unlink_log" /\ log = "empty" -> "none"
              [] OTHER -> log
  /\ UNCHANGED manager

Execute(command) ==
  /\ Accepts(command)
  /\ manager' = After(command)
  /\ UNCHANGED <<files, log>>

Perform(step) == IF step \in Command THEN Execute(step) ELSE Write(step)
PerformNothing == UNCHANGED <<files, log, manager>>

(* A mistake: a command is noted once it has ended, if at all. *)
AttemptUnnoted(step) == attempted

(* attempted with the step that is about to run. *)
Attempt(step) == attempted \cup ({step} \cap Command)

Succeed(step) ==
  /\ Running(step)
  /\ Perform(step)
  /\ todo' = Tail(todo)
  /\ attempted' = Attempt(step)
  /\ completed' = completed \cup ({step} \cap Command)
  /\ UNCHANGED <<platform, op, undoing, original, log_existed, was, history>>

(* A step of the operation itself raises: it is undone, if it is of a kind   *)
(* that is.                                                                 *)
Fail(step, took_effect) ==
  /\ Running(step) /\ ~undoing
  /\ IF took_effect THEN Perform(step) ELSE PerformNothing
  /\ uncertain' = (uncertain \/ took_effect)
  /\ attempted' = Attempt(step)
  /\ undoing' = TRUE
  /\ todo' = CASE op = "install" -> UndoInstall(Attempt(step), completed)
               [] op = "uninstall" -> UndoUninstall(Attempt(step))
               [] OTHER -> <<>>
  /\ UNCHANGED <<platform, op, original, log_existed, was, completed, before>>

(* A step of the rollback raises: noted, and the rest is still done. *)
FailUndo(step) ==
  /\ Running(step) /\ undoing
  /\ PerformNothing
  /\ todo' = Tail(todo) /\ uncertain' = TRUE
  /\ UNCHANGED <<platform, op, undoing, locals, before>>

(* An interrupt in the rollback ends it. *)
InterruptUndo ==
  /\ undoing /\ todo /= <<>>
  /\ todo' = <<>> /\ uncertain' = TRUE
  /\ UNCHANGED <<platform, files, log, manager, op, undoing, locals, before>>

Aged(content) == IF content = "new" THEN "old" ELSE content

EndOperation ==
  /\ op /= "none" /\ todo = <<>>
  /\ op' = "none" /\ undoing' = FALSE
  /\ files' = [file \in File |-> Aged(files[file])]
  /\ manager' = [manager EXCEPT !.loaded = Aged(@)]
  /\ original' = Absent /\ log_existed' = FALSE
  /\ was' = [enabled |-> FALSE, running |-> FALSE]
  /\ attempted' = {} /\ completed' = {}
  /\ before' = NothingLoaded /\ uncertain' = FALSE
  /\ UNCHANGED <<platform, log, todo>>

Next ==
  \/ Install \/ Uninstall \/ Start \/ StopService \/ Restart
  \/ \E step \in Command \cup FileStep :
       \/ Succeed(step) \/ FailUndo(step)
       \/ \E took_effect \in BOOLEAN : Fail(step, took_effect)
  \/ InterruptUndo \/ EndOperation
  \/ Daemon \/ Administer

Spec == Init /\ [][Next]_vars

-----------------------------------------------------------------------------
(* Properties.                                                              *)

RolledBack == undoing /\ todo = <<>> /\ ~uncertain

(* After the rollback of an installation the metadata and service files are  *)
(* those from before, and there is a status file again after one of a        *)
(* removal, which the service itself may have written.                      *)
FilesRestored ==
  RolledBack =>
    /\ op \in {"install", "uninstall"} =>
         /\ \A file \in {"metadata", "service"} : files[file] = original[file]
         /\ original["status"] /= "none" => files["status"] /= "none"
    /\ op = "install" /\ ~log_existed => log /= "empty"

(* After the rollback of a first installation the manager is as before.      *)
(* After that of a removal it has loaded what it had, and on Linux the unit  *)
(* is enabled and running if it was.                                        *)
ManagerRestored ==
  RolledBack =>
    /\ op = "install" /\ ~WasInstalled /\ before = NothingLoaded => manager = before
    /\ op = "uninstall" /\ WasInstalled /\ before.loaded /= "none" =>
         /\ manager.loaded = before.loaded
         /\ platform = "linux" => manager = before

(* "Failed or interrupted install and uninstall operations attempt to        *)
(* restore prior local files and manager state" (README.md): a removal that  *)
(* failed by itself has not loaded a service that was not.                  *)
NothingNewLoaded ==
  RolledBack /\ op = "uninstall" /\ before.loaded = "none" => manager.loaded = "none"

=============================================================================
