------------------------------ MODULE Updates -------------------------------
(***************************************************************************)
(* In-panel updates: the panel and the worker drop request.json into a      *)
(* shared directory and read status.json, latest.json and the heartbeat     *)
(* (services/updates.ts); the agent on the host takes the request, moves    *)
(* the source tree and rebuilds the containers (scripts/sr-agent.sh).       *)
(* Commits are numbered; CodeCommits are those that change the image.       *)
(***************************************************************************)
EXTENDS Integers

CONSTANTS Requesters,    \* callers of requestUpdateJob: the panel and the hourly worker job
          MaxCommit, CodeCommits,
          MaxJobs, MaxAgentCrashes \* bounds: requests written, agent crashes

ASSUME UpdatesAssumption ==
  MaxCommit \in Nat /\ CodeCommits \subseteq 1..MaxCommit /\ MaxJobs \in Nat /\ MaxAgentCrashes \in Nat

VARIABLES origin,   \* newest commit of the remote branch
          fetched,  \* origin/<branch> as the host last fetched it
          head,     \* commit the source tree is at
          image,    \* commit the running containers were built from
          reqFile,  \* request.json: "none", "check" or "update"
          status,   \* status.json: state, and whether it is younger than 40 min
          latest,   \* latest.json: commits behind, and whether it is fresh; behind = -1: no file
          online,   \* the heartbeat is younger than 45 s
          agent,    \* where the agent is, the commit its job started from
          asked,    \* requestUpdateJob of each caller between reading and writing
          jobsAsked, agentCrashes

updateVars == <<origin, fetched, head, image, reqFile, status, latest, online, agent, asked, jobsAsked, agentCrashes>>

IdleAgent == [at |-> "watch", from |-> 0]
UpdatesInit ==
  /\ origin = 0 /\ fetched = 0 /\ head = 0 /\ image = 0 /\ reqFile = "none" /\ online = FALSE
  /\ status = [state |-> "idle", fresh |-> FALSE] /\ latest = [behind |-> -1, fresh |-> FALSE]
  /\ agent = IdleAgent /\ asked = [r \in Requesters |-> "none"] /\ jobsAsked = 0 /\ agentCrashes = 0

commitPushed ==
  /\ origin < MaxCommit /\ origin' = origin + 1
  /\ UNCHANGED <<fetched, head, image, reqFile, status, latest, online, agent, asked, jobsAsked, agentCrashes>>

(* ------------------------------- the panel ------------------------------ *)

jobIsFresh == status.fresh
jobIsBusy == status.state \in {"checking", "running"} /\ jobIsFresh

\* requestUpdateJob: refused while the agent is silent, a request waits or a job
\* runs; the file is written afterwards and replaces whatever is there by then.
requestUpdateJob(r, action) ==
  /\ asked[r] = "none" /\ jobsAsked < MaxJobs /\ jobsAsked' = jobsAsked + 1
  /\ online /\ reqFile = "none" /\ ~jobIsBusy
  /\ asked' = [asked EXCEPT ![r] = action]
  /\ UNCHANGED <<origin, fetched, head, image, reqFile, status, latest, online, agent, agentCrashes>>
\* autoUpdateTick: a stale latest.json asks for a check, one that is behind for an
\* install (in the chosen hour, when the owner wants it).
autoUpdateTick(r) ==
  \/ ~latest.fresh /\ requestUpdateJob(r, "check")
  \/ latest.fresh /\ latest.behind > 0 /\ requestUpdateJob(r, "update")
writeRequest(r) ==
  /\ asked[r] # "none" /\ reqFile' = asked[r] /\ asked' = [asked EXCEPT ![r] = "none"]
  /\ UNCHANGED <<origin, fetched, head, image, status, latest, online, agent, jobsAsked, agentCrashes>>

cancelUpdateRequest ==
  /\ reqFile # "none" /\ reqFile' = "none"
  /\ UNCHANGED <<origin, fetched, head, image, status, latest, online, agent, asked, jobsAsked, agentCrashes>>

\* Time: the heartbeat ages while no loop writes it, status.json after 40 min
\* without a write, latest.json after checkEveryHours.
heartbeatAges ==
  /\ online /\ agent.at # "watch" /\ online' = FALSE
  /\ UNCHANGED <<origin, fetched, head, image, reqFile, status, latest, agent, asked, jobsAsked, agentCrashes>>
statusAges ==
  /\ status.fresh /\ agent.at \in {"watch", "down"} /\ status' = [status EXCEPT !.fresh = FALSE]
  /\ UNCHANGED <<origin, fetched, head, image, reqFile, latest, online, agent, asked, jobsAsked, agentCrashes>>
latestAges ==
  /\ latest.fresh /\ latest' = [latest EXCEPT !.fresh = FALSE]
  /\ UNCHANGED <<origin, fetched, head, image, reqFile, status, online, agent, asked, jobsAsked, agentCrashes>>

(* ------------------------------- the agent ------------------------------ *)

write_status(state) == status' = [state |-> state, fresh |-> TRUE]

agentHeartbeat ==
  /\ agent.at = "watch" /\ ~online /\ online' = TRUE
  /\ UNCHANGED <<origin, fetched, head, image, reqFile, status, latest, agent, asked, jobsAsked, agentCrashes>>

\* take_request: mv request.json request.active.json; the status follows later.
take_request ==
  /\ agent.at = "watch" /\ reqFile # "none" /\ reqFile' = "none"
  /\ agent' = [agent EXCEPT !.at = IF reqFile = "check" THEN "check" ELSE "update"]
  /\ UNCHANGED <<origin, fetched, head, image, status, latest, online, asked, jobsAsked, agentCrashes>>

\* handle_request of a check: status checking, do_check, status idle.
handle_request ==
  /\ agent.at = "check" /\ write_status("checking") /\ agent' = [agent EXCEPT !.at = "checking"]
  /\ UNCHANGED <<origin, fetched, head, image, reqFile, latest, online, asked, jobsAsked, agentCrashes>>
do_check ==
  /\ agent.at = "checking" /\ write_status("idle") /\ agent' = IdleAgent
  /\ fetched' \in {fetched, origin} /\ latest' = [behind |-> fetched' - head, fresh |-> TRUE]
  /\ UNCHANGED <<origin, head, image, reqFile, online, asked, jobsAsked, agentCrashes>>

\* do_update up to the build: docker or the network may be missing; otherwise the
\* tree is reset to the fetched branch.
preflight ==
  /\ agent.at = "update" /\ agent' = [at |-> "source", from |-> head] /\ write_status("running")
  /\ UNCHANGED <<origin, fetched, head, image, reqFile, latest, online, asked, jobsAsked, agentCrashes>>
source ==
  /\ agent.at = "source"
  /\ \/ /\ fetched' = origin /\ head' = origin /\ agent' = [agent EXCEPT !.at = "build"] /\ write_status("running")
     \/ agent' = IdleAgent /\ write_status("failed") /\ UNCHANGED <<fetched, head>>
  /\ UNCHANGED <<origin, image, reqFile, latest, online, asked, jobsAsked, agentCrashes>>

\* needs_build: some file of the image changed since the commit the job started from.
needs_build == \E c \in CodeCommits : agent.from < c /\ c <= head
build ==
  /\ agent.at = "build" /\ write_status("running")
  /\ \/ needs_build /\ image' = head /\ agent' = [agent EXCEPT !.at = "health"]
     \/ needs_build /\ image' = image /\ agent' = [agent EXCEPT !.at = "rollback"]
     \/ ~needs_build /\ image' = image /\ agent' = [agent EXCEPT !.at = "health"]
  /\ UNCHANGED <<origin, fetched, head, reqFile, latest, online, asked, jobsAsked, agentCrashes>>
\* Mutant of rollback: the source tree stays at the new commit.
rollbackImageOnly ==
  /\ agent.at = "rollback" /\ head' = head /\ image' \in {image, agent.from}
  /\ agent' = IdleAgent /\ write_status("failed")
  /\ UNCHANGED <<origin, fetched, reqFile, latest, online, asked, jobsAsked, agentCrashes>>

\* The failed build: back to the old commit, which is built again if it can be.
rollback ==
  /\ agent.at = "rollback" /\ head' = agent.from /\ image' \in {image, agent.from}
  /\ agent' = IdleAgent /\ write_status("failed")
  /\ UNCHANGED <<origin, fetched, reqFile, latest, online, asked, jobsAsked, agentCrashes>>
health ==
  /\ agent.at = "health" /\ agent' = IdleAgent /\ \E s \in {"success", "failed"} : write_status(s)
  /\ UNCHANGED <<origin, fetched, head, image, reqFile, latest, online, asked, jobsAsked, agentCrashes>>

\* The host reboots or the unit is killed; request.active.json is not read again.
agentCrash ==
  /\ agent.at # "down" /\ agentCrashes < MaxAgentCrashes /\ agentCrashes' = agentCrashes + 1
  /\ agent' = [IdleAgent EXCEPT !.at = "down"]
  /\ UNCHANGED <<origin, fetched, head, image, reqFile, status, latest, online, asked, jobsAsked>>
cmd_watch ==
  /\ agent.at = "down" /\ agent' = IdleAgent
  /\ UNCHANGED <<origin, fetched, head, image, reqFile, status, latest, online, asked, jobsAsked, agentCrashes>>

AgentStep == agentHeartbeat \/ take_request \/ handle_request \/ do_check \/ preflight \/ source \/ build \/ rollback \/ health
UpdatesNext ==
  \/ commitPushed \/ cancelUpdateRequest \/ heartbeatAges \/ statusAges \/ latestAges
  \/ \E r \in Requesters : autoUpdateTick(r) \/ writeRequest(r) \/ \E a \in {"check", "update"} : requestUpdateJob(r, a)
  \/ AgentStep \/ agentCrash \/ cmd_watch
UpdatesSpec == UpdatesInit /\ [][UpdatesNext]_updateVars

\* The agent loops for ever, systemd restarts it, and time passes.
UpdatesFairness == WF_updateVars(AgentStep) /\ WF_updateVars(cmd_watch) /\ WF_updateVars(statusAges)

(* ------------------------------ properties ------------------------------ *)

\* The files and the agent's position stay within their types.
UpdatesTypeOK ==
  /\ {origin, fetched, head, image} \subseteq 0..MaxCommit /\ reqFile \in {"none", "check", "update"}
  /\ status.state \in {"idle", "checking", "running", "success", "failed"}
  /\ agent.at \in {"watch", "check", "checking", "update", "source", "build", "rollback", "health", "down"}
  /\ latest.behind \in -1..MaxCommit

\* The containers run every image change of the source tree.
ImageCurrent == \A c \in CodeCommits : ~(image < c /\ c <= head) /\ ~(head < c /\ c <= image)

\* While the agent has never been killed, a job that reports success or failure
\* leaves containers that match the source tree: the update built them, or the
\* failed build was rolled back.
JobLeavesBuiltTree == agentCrashes = 0 /\ agent.at = "watch" => ImageCurrent

\* The panel does not stay busy: a running job ends, and one whose agent was killed
\* stops counting as busy, so that a new one can be asked for.
NotBusyForever == jobIsBusy ~> ~jobIsBusy

\* A waiting request does not wait for ever: the agent takes it or it is cancelled.
RequestTaken == reqFile # "none" ~> reqFile = "none"

\* What an update promises, with builds that fail and an agent that is killed.
UpdatesSound == [](UpdatesTypeOK /\ JobLeavesBuiltTree) /\ NotBusyForever /\ RequestTaken
=============================================================================
