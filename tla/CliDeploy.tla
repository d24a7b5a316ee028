------------------------------ MODULE CliDeploy ------------------------------
(* A deploy from the command line: the image is pushed with docker, the       *)
(* backend is told, and the enclave is watched until it runs, with its build  *)
(* log shown as it grows.  The backend, which builds and launches meanwhile,  *)
(* and docker are external; a request is answered from the row of the moment  *)
(* or fails.                                                                  *)
EXTENDS Naturals, Sequences, SequencesExt

CONSTANTS
    MaxPollFailures,    \* MAX_POLL_FAILURES
    MaxLog              \* bound: length of a build log

VARIABLES
    row,        \* the enclave's row: status, build log, whether the build restarted, image pushed
    deploy      \* the command: where it is, and the locals of watch_until_running

deployVars == <<row, deploy>>

DeployAt(at) == deploy.at = at
DeployGoto(at) == deploy' = [deploy EXCEPT !.at = at]
DeployEnds(how) == deploy' = [deploy EXCEPT !.at = "ended", !.how = how]

-----------------------------------------------------------------------------
(* push_to_enclave                                                            *)

\* get_registry, and the row where it was given without a push target; any error ends
\* the push.
PreparePush ==
    /\ DeployAt("start")
    /\ DeployGoto("docker") \/ DeployEnds("failed")
    /\ UNCHANGED row

\* docker_login, docker tag and stream_docker_push: any of them may fail, the last one
\* also when the image has landed in the registry
DockerPush(landed, reported) ==
    /\ DeployAt("docker")
    /\ reported => landed
    /\ row' = [row EXCEPT !.pushed = landed]
    /\ IF reported THEN DeployGoto("notify") ELSE DeployEnds("failed")

\* notify_push: a warning when it fails, and in both cases the watch begins
NotifyPush ==
    /\ DeployAt("notify")
    /\ DeployGoto("watch")
    /\ UNCHANGED row

-----------------------------------------------------------------------------
(* watch_until_running                                                        *)

\* WATCH_TIMEOUT at the top of the loop
WatchTimesOut ==
    /\ DeployAt("watch")
    /\ DeployEnds("gave up")
    /\ UNCHANGED row

\* get_enclave fails: the row of the last poll stands, and the failures are counted
StatusPollFails ==
    /\ DeployAt("watch")
    /\ IF deploy.failures + 1 >= MaxPollFailures THEN DeployEnds("gave up")
       ELSE deploy' = [deploy EXCEPT !.failures = deploy.failures + 1]
    /\ UNCHANGED row

\* get_enclave answers, and its status decides
StatusPoll ==
    /\ DeployAt("watch")
    /\ IF row.status \in {"stopped", "destroyed"} THEN DeployEnds("moved away")
       ELSE deploy' = [deploy EXCEPT !.failures = 0, !.phase = row.status,
                           !.at = IF row.status \in {"running", "error"} THEN "drain" ELSE "watch"]
    /\ UNCHANGED row

LastNewline(text) ==
    IF "\n" \in {text[k] : k \in DOMAIN text}
    THEN CHOOSE k \in DOMAIN text : text[k] = "\n" /\ \A m \in (k + 1) .. Len(text) : text[m] # "\n"
    ELSE 0

\* How much of the new text is counted as printed: whole lines, or all of it.
Counted(new, drain) == IF drain THEN Len(new) ELSE LastNewline(new)

\* stream_new_log: a log shorter than what was printed starts over; whole lines are
\* shown, and at the end the rest
NewLog(drain) ==
    LET from == IF Len(row.log) < deploy.printed THEN 0 ELSE deploy.printed
        new == SubSeq(row.log, from + 1, Len(row.log))
        shows == IF drain THEN new ELSE SubSeq(new, 1, LastNewline(new))
    IN  [deploy EXCEPT !.printed = from + Counted(new, drain), !.shown = deploy.shown \o shows]

\* The poll of the log while a build is in flight; one that fails changes nothing.
StreamNewLog ==
    /\ DeployAt("watch") /\ deploy.phase \in {"building", "deploying"}
    /\ deploy' = NewLog(FALSE)
    /\ UNCHANGED row

\* The last one, after which the verdict of the row is returned.
DrainLog ==
    /\ DeployAt("drain")
    /\ deploy' = [NewLog(TRUE) EXCEPT !.at = "ended", !.how = deploy.phase]
    /\ UNCHANGED row

DrainFails ==
    /\ DeployAt("drain")
    /\ deploy' = [deploy EXCEPT !.at = "ended", !.how = deploy.phase, !.partial = TRUE]
    /\ UNCHANGED row

-----------------------------------------------------------------------------
(* The backend, external                                                      *)

\* It picks up the image, builds, launches; or fails, or waits for the image too long,
\* or is told to stop.
StatusMoves(to) ==
    /\ \/ row.status = "waiting_for_image" /\ to = "building" /\ row.pushed
       \/ <<row.status, to>> \in {<<"building", "deploying">>, <<"deploying", "running">>}
       \/ row.status \in {"waiting_for_image", "building", "deploying"} /\ to = "error"
       \/ row.status \in {"waiting_for_image", "building", "deploying", "running"} /\ to \in {"stopped", "destroyed"}
    /\ row' = [row EXCEPT !.status = to]
    /\ UNCHANGED deploy

BuildLogs(ch) ==
    /\ row.status = "building" /\ Len(row.log) < MaxLog
    /\ row' = [row EXCEPT !.log = Append(row.log, ch)]
    /\ UNCHANGED deploy

\* The build is started again with a new log.
BuildRestarts ==
    /\ row.status = "building" /\ ~row.restarted /\ row.log # <<>>
    /\ row' = [row EXCEPT !.log = <<>>, !.restarted = TRUE]
    /\ UNCHANGED deploy

DeployInit ==
    /\ row = [status |-> "waiting_for_image", log |-> <<>>, restarted |-> FALSE, pushed |-> FALSE]
    /\ deploy = [at |-> "start", how |-> "none", phase |-> "none", failures |-> 0,
                 printed |-> 0, shown |-> <<>>, partial |-> FALSE]

DeployNext ==
    \/ PreparePush
    \/ \E landed, reported \in BOOLEAN : DockerPush(landed, reported)
    \/ NotifyPush
    \/ WatchTimesOut
    \/ StatusPollFails
    \/ StatusPoll
    \/ StreamNewLog
    \/ DrainLog
    \/ DrainFails
    \/ \E to \in {"building", "deploying", "running", "error", "stopped", "destroyed"} : StatusMoves(to)
    \/ \E ch \in {"a", "\n"} : BuildLogs(ch)
    \/ BuildRestarts

-----------------------------------------------------------------------------
(* Properties                                                                 *)

\* Of a build that was not started over, a watch shows the log without a gap or a
\* repeat, whenever its polls fall (stream_new_log), and all of it by the time it says
\* that the enclave runs or has failed, unless that last fetch failed; and it never says
\* so of an enclave that did not get there (watch_until_running).
WatchIsFaithful ==
    /\ ~row.restarted => IsPrefix(deploy.shown, row.log)
    /\ ~row.restarted /\ deploy.how \in {"running", "error"} /\ ~deploy.partial => deploy.shown = row.log
    /\ deploy.how = "running" => row.status \in {"running", "stopped", "destroyed"}
    /\ deploy.how = "error" => row.status = "error"
=============================================================================
