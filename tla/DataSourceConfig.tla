---------------------------- MODULE DataSourceConfig ----------------------------
(***************************************************************************)
(* The data sources of `mapget serve` come from a file. The singleton      *)
(* DataSourceConfigService (config.cpp) loads it, once on the main thread  *)
(* and then on a thread that polls its modification time, and calls every  *)
(* subscriber: the tile service, which replaces its data sources           *)
(* (service.cpp), and each POST /config that is under way, which has       *)
(* written the file and waits for the result (http-service.cpp). Anyone    *)
(* may edit or remove the file meanwhile.                                  *)
(*                                                                         *)
(* A content stands for its bytes, its hash and its YAML at once.          *)
(***************************************************************************)
EXTENDS Naturals, FiniteSets

CONSTANTS
  Contents,    \* what editors and clients may write
  SourcesOf,   \* SourcesOf[c]: the sources that can be made from content c
  Broken,      \* the contents that are not YAML
  Sourceless,  \* the contents without a sources key
  Clashing,    \* the contents with two sources of one node id
  Posts,       \* the requests POST /config
  Body,        \* Body[p]: what p makes of the file, or Invalid
  FirstFile,   \* the file at the start, or Missing
  MaxEdits,    \* bound: the number of edits
  Missing, Empty, Invalid, Nobody

ASSUME ConfigAssumption ==
  /\ Broken \cup Sourceless \cup Clashing \subseteq Contents
  /\ Clashing \cap (Broken \cup Sourceless) = {}
  /\ Body \in [Posts -> (Contents \ (Broken \cup Sourceless \cup Clashing)) \cup {Invalid}]
  /\ FirstFile \in Contents \cup {Missing}
  /\ {Missing, Empty, Invalid, Nobody} \cap Contents = {}
  /\ Nobody \notin {"main", "watch"} \cup Posts /\ "service" \notin Posts
  /\ MaxEdits \in Nat

VARIABLES
  file,       \* the content of the file: Missing, Empty when it is truncated
  time,       \* its modification time, which every write advances
  edits, written,  \* the number of edits, and every content so far
  hash,       \* lastConfigSHA256_ as the content it is of, or Nobody
  current,    \* currentConfig_ as the content it is of, or Nobody
  subs,       \* the keys of subscriptions_
  mutex,      \* the thread that holds memberAccessMutex_, or Nobody
  load,       \* load[th]: where thread th is in loadConfig()
  watching,   \* watching_
  watch,      \* the watch thread: where it is, and lastModTime
  main,       \* where the main thread is
  sources,    \* dataSourcesFromConfig_, the sources of the tile service
  post,       \* where each POST is, its update_done and its status
  quiet       \* history: the POSTs during which nobody else wrote the file

fileVars   == <<file, time, edits, written>>
configVars == <<hash, current, subs, mutex>>
vars == <<fileVars, configVars, load, watching, watch, main, sources, post, quiet>>

Loaders    == {"main", "watch"}
Service    == "service"
NotLoading == [at |-> "none"]
NoTime     == 0
ModTime    == IF file = Missing THEN NoTime ELSE time

\* The file gets content c; a POST during which another one writes is not quiet.
Write(c, writer) ==
  /\ file' = c
  /\ time' = time + 1
  /\ quiet' = quiet \cap {writer}

----------------------------------------------------------------------------
(* Editors                                                                 *)

\* No content is written twice: FileIsApplied would not hold otherwise.
EditFile ==
  /\ edits < MaxEdits
  /\ \E c \in Contents \cup {Missing} :
       /\ c # file
       /\ c \notin written \cup {Body[p] : p \in Posts}
       /\ Write(c, Nobody)
       /\ written' = written \cup ({c} \ {Missing})
  /\ edits' = edits + 1
  /\ UNCHANGED <<configVars, load, watching, watch, main, sources, post>>

----------------------------------------------------------------------------
(* loadConfig()                                                            *)

\* The file is read once for the hash ...
ReadFile(th) ==
  /\ load[th].at = "read"
  /\ load' = [load EXCEPT ![th] =
       IF file = Missing THEN [at |-> "failed", seen |-> {}, to |-> Nobody]
       ELSE IF file = hash THEN NotLoading
       ELSE [at |-> "parse", hashed |-> file]]
  /\ UNCHANGED <<fileVars, configVars, watching, watch, main, sources, post, quiet>>

Unusable == Broken \cup Sourceless \cup {Missing, Empty}

\* ... and once more as YAML.
ParseFile(th) ==
  /\ load[th].at = "parse"
  /\ load' = [load EXCEPT ![th] =
       IF file \in Unusable THEN [at |-> "failed", seen |-> {}, to |-> Nobody]
       ELSE [at |-> "parsed", hashed |-> @.hashed, config |-> file]]
  /\ UNCHANGED <<fileVars, configVars, watching, watch, main, sources, post, quiet>>

ApplyConfig(th) ==
  /\ load[th].at = "parsed"
  /\ mutex = Nobody
  /\ mutex' = th
  /\ current' = load[th].config
  /\ hash' = load[th].hashed
  /\ load' = [load EXCEPT ![th] = [at |-> "notify", left |-> subs]]
  /\ UNCHANGED <<fileVars, subs, watching, watch, main, sources, post, quiet>>

\* Mutation of Replaced: the previous sources stay.
KeptAndAdded(c) == sources \cup SourcesOf[c]

\* The callback of the tile service: its sources are those of the new config.
Replaced(c) == SourcesOf[c]

\* The callbacks of a POST.
Tell(p, status) ==
  post' = [post EXCEPT ![p].done = TRUE, ![p].status = status]

\* The next subscriber is called under the mutex.
NotifyNext(th) ==
  /\ load[th].at = "notify"
  /\ \E s \in load[th].left :
       /\ load' = [load EXCEPT ![th].left = @ \ {s}]
       /\ IF s # Service THEN Tell(s, "ok") /\ UNCHANGED sources
          ELSE /\ current \notin Clashing
               /\ sources' = Replaced(current)
               /\ UNCHANGED post
  /\ UNCHANGED <<fileVars, configVars, watching, watch, main, quiet>>

\* addDataSource raises when a node id is there already. Nothing catches that on
\* the watch thread, and runFromCommandLine returns 1: the process ends.
Crash(th) ==
  /\ load[th].at = "notify" /\ Service \in load[th].left
  /\ current \in Clashing
  /\ main' = "crashed"
  /\ watch' = [watch EXCEPT !.at = "crashed"]
  /\ load' = [l \in Loaders |-> NotLoading]
  /\ post' = [p \in Posts |-> IF post[p].at = "answered" THEN post[p]
                             ELSE [post[p] EXCEPT !.at = "crashed"]]
  /\ UNCHANGED <<fileVars, configVars, watching, sources, quiet>>

FinishLoad(th) ==
  /\ load[th] = [at |-> "notify", left |-> {}]
  /\ mutex' = Nobody
  /\ load' = [load EXCEPT ![th] = NotLoading]
  /\ UNCHANGED <<fileVars, hash, current, subs, watching, watch, main, sources,
                 post, quiet>>

\* Error callbacks are called without the mutex, so the POST that is being
\* called may leave in between; the service has none.
CallNext(th) ==
  /\ load[th].at = "failed"
  /\ \E s \in subs \ load[th].seen :
       load' = [load EXCEPT ![th] =
         [at |-> IF s = Service THEN "failed" ELSE "telling",
          seen |-> @.seen \cup {s}, to |-> s]]
  /\ UNCHANGED <<fileVars, configVars, watching, watch, main, sources, post, quiet>>

NotifyError(th) ==
  /\ load[th].at = "telling"
  /\ load' = [load EXCEPT ![th].at = "failed"]
  /\ Tell(load[th].to, "error")
  /\ UNCHANGED <<fileVars, configVars, watching, watch, main, sources, quiet>>

FinishFailed(th) ==
  /\ load[th].at = "failed"
  /\ subs \subseteq load[th].seen
  /\ load' = [load EXCEPT ![th] = NotLoading]
  /\ UNCHANGED <<fileVars, configVars, watching, watch, main, sources, post, quiet>>

----------------------------------------------------------------------------
(* The main thread: serve() after it has created the service               *)

LoadFirst ==
  /\ main = "start"
  /\ main' = "loading"
  /\ load' = [load EXCEPT !["main"] = [at |-> "read"]]
  /\ UNCHANGED <<fileVars, configVars, watching, watch, sources, post, quiet>>

StartWatch ==
  /\ main = "loading" /\ load["main"] = NotLoading
  /\ main' = "serving"
  /\ watching' = TRUE
  /\ watch' = [at |-> "start", last |-> NoTime]
  /\ UNCHANGED <<fileVars, configVars, load, sources, post, quiet>>

\* A signal has come and the server has stopped: the service is destroyed,
\* beginning with its subscription.
DestroyService ==
  /\ main = "serving"
  /\ \A p \in Posts : post[p].at \in {"new", "answered"}
  /\ mutex = Nobody
  /\ main' = "ending"
  /\ subs' = subs \ {Service}
  /\ UNCHANGED <<fileVars, hash, current, mutex, load, watching, watch, sources,
                 post, quiet>>

\* end(), by the destructor of the singleton.
EndWatch ==
  /\ main = "ending"
  /\ main' = "joining"
  /\ watching' = FALSE
  /\ UNCHANGED <<fileVars, configVars, load, watch, sources, post, quiet>>

JoinWatch ==
  /\ main = "joining" /\ watch.at = "ended"
  /\ main' = "ended"
  /\ UNCHANGED <<fileVars, configVars, load, watching, watch, sources, post, quiet>>

----------------------------------------------------------------------------
(* The watch thread                                                        *)

WatchStart ==
  /\ watch.at = "start"
  /\ watch' = [at |-> "check", last |-> ModTime]
  /\ load' = [load EXCEPT !["watch"] =
       IF ModTime = NoTime THEN NotLoading ELSE [at |-> "read"]]
  /\ UNCHANGED <<fileVars, configVars, watching, main, sources, post, quiet>>

\* Mutation of GoesOn: the flag is ignored.
GoesOnAlways == TRUE

GoesOn == watching

\* Mutation of Remembered: the time of the file is taken after the load.
RememberedAfterLoad == ModTime

\* lastModTime is the time the poll found, before it loaded.
Remembered == watch.last

WatchCheck ==
  /\ watch.at = "check" /\ load["watch"] = NotLoading
  /\ watch' = [at |-> IF GoesOn THEN "sleeping" ELSE "ended", last |-> Remembered]
  /\ UNCHANGED <<fileVars, configVars, load, watching, main, sources, post, quiet>>

\* Mutation of Changed: a file that was removed and came back is not loaded.
ChangedInPlace == ModTime # NoTime /\ watch.last # NoTime /\ ModTime # watch.last

Changed == ModTime # NoTime /\ ModTime # watch.last

WatchPoll ==
  /\ watch.at = "sleeping"
  /\ watch' = [at |-> "check", last |-> ModTime]
  /\ load' = [load EXCEPT !["watch"] = IF Changed THEN [at |-> "read"] ELSE @]
  /\ UNCHANGED <<fileVars, configVars, watching, main, sources, post, quiet>>

----------------------------------------------------------------------------
(* POST /config                                                            *)

Goto(p, at) == post' = [post EXCEPT ![p].at = at]

\* The file has to be there.
PostConfig(p) ==
  /\ post[p].at = "new"
  /\ main = "serving"
  /\ IF file = Missing THEN post' = [post EXCEPT ![p].at = "answered",
                                                 ![p].status = "not found"]
     ELSE Goto(p, "opened")
  /\ UNCHANGED <<fileVars, configVars, load, watching, watch, main, sources,
                 quiet>>

\* subscribe calls back at once if there is a configuration.
SubscribePost(p) ==
  /\ post[p].at = "opened"
  /\ mutex = Nobody
  /\ subs' = subs \cup {p}
  /\ post' = [post EXCEPT ![p].at = "subscribed",
                          ![p].done = (current # Nobody),
                          ![p].status = IF current # Nobody THEN "ok" ELSE @]
  /\ UNCHANGED <<fileVars, hash, current, mutex, load, watching, watch, main,
                 sources, quiet>>

\* The body is no JSON or does not match the schema, or the file no YAML.
RejectPost(p) ==
  /\ post[p].at = "subscribed"
  /\ Body[p] = Invalid \/ file \in Broken
  /\ post' = [post EXCEPT ![p].at = "leaving", ![p].status = "rejected"]
  /\ UNCHANGED <<fileVars, configVars, load, watching, watch, main, sources,
                 quiet>>

\* Mutation of Undone: what was heard before the write counts as its answer.
StillDone(p) == post[p].done

Undone(p) == FALSE

\* The watch thread has seen the file as it is and waits.
Settled == watch.at = "sleeping" /\ watch.last = ModTime

ResetPost(p) ==
  /\ post[p].at = "subscribed"
  /\ Body[p] # Invalid /\ file \notin Broken
  /\ post' = [post EXCEPT ![p].at = "reset", ![p].done = Undone(p)]
  /\ quiet' = IF Settled THEN quiet \cup {p} ELSE quiet
  /\ UNCHANGED <<fileVars, configVars, load, watching, watch, main, sources>>

\* Opening the stream truncates the file ...
TruncateFile(p) ==
  /\ post[p].at = "reset"
  /\ Write(Empty, p)
  /\ Goto(p, "writing")
  /\ UNCHANGED <<edits, written, configVars, load, watching, watch, main, sources>>

\* ... and closing it leaves the new content.
WriteFile(p) ==
  /\ post[p].at = "writing"
  /\ Write(Body[p], p)
  /\ written' = written \cup {Body[p]}
  /\ Goto(p, "waiting")
  /\ UNCHANGED <<edits, configVars, load, watching, watch, main, sources>>

AnswerPost(p) ==
  /\ post[p].at = "waiting" /\ post[p].done
  /\ Goto(p, "leaving")
  /\ UNCHANGED <<fileVars, configVars, load, watching, watch, main, sources, quiet>>

TimeoutPost(p) ==
  /\ post[p].at = "waiting" /\ ~post[p].done
  /\ post' = [post EXCEPT ![p].at = "leaving", ![p].status = "timeout"]
  /\ UNCHANGED <<fileVars, configVars, load, watching, watch, main, sources, quiet>>

\* Mutation of MayUnsubscribe: unsubscribe takes no mutex.
MayAlwaysUnsubscribe == TRUE

MayUnsubscribe == mutex = Nobody

\* The destructor of the subscription, then the answer is sent.
UnsubscribePost(p) ==
  /\ post[p].at = "leaving"
  /\ MayUnsubscribe
  /\ subs' = subs \ {p}
  /\ Goto(p, "answered")
  /\ UNCHANGED <<fileVars, hash, current, mutex, load, watching, watch, main,
                 sources, quiet>>

----------------------------------------------------------------------------
Init ==
  /\ file = FirstFile /\ time = 1 /\ edits = 0 /\ written = {FirstFile} \ {Missing}
  /\ hash = Nobody /\ current = Nobody /\ subs = {Service} /\ mutex = Nobody
  /\ load = [th \in Loaders |-> NotLoading]
  /\ watching = FALSE
  /\ watch = [at |-> "none", last |-> NoTime]
  /\ main = "start"
  /\ sources = {}
  /\ post = [p \in Posts |-> [at |-> "new", done |-> FALSE, status |-> "none"]]
  /\ quiet = {}

LoadStep(th) ==
  \/ ReadFile(th) \/ ParseFile(th) \/ ApplyConfig(th)
  \/ NotifyNext(th) \/ Crash(th) \/ FinishLoad(th)
  \/ CallNext(th) \/ NotifyError(th) \/ FinishFailed(th)

WatchStep == WatchStart \/ WatchCheck \/ WatchPoll

\* What the main thread does of itself; DestroyService waits for a signal.
MainStep == LoadFirst \/ StartWatch \/ EndWatch \/ JoinWatch

PostStep(p) ==
  \/ SubscribePost(p) \/ RejectPost(p) \/ ResetPost(p)
  \/ TruncateFile(p) \/ WriteFile(p)
  \/ AnswerPost(p) \/ UnsubscribePost(p)

Next ==
  \/ EditFile
  \/ \E th \in Loaders : LoadStep(th)
  \/ WatchStep \/ MainStep \/ DestroyService
  \/ \E p \in Posts : PostConfig(p) \/ PostStep(p) \/ TimeoutPost(p)

Spec == Init /\ [][Next]_vars

\* Every thread goes on when it can, and gets the mutex when it asks again and
\* again; editors, clients and signals come as they like. A timeout is no help.
Fairness ==
  /\ \A th \in Loaders :
       WF_vars(LoadStep(th)) /\ SF_vars(ApplyConfig(th))
  /\ WF_vars(WatchStep)
  /\ WF_vars(MainStep)
  /\ \A p \in Posts :
       WF_vars(PostStep(p))
       /\ SF_vars(SubscribePost(p)) /\ SF_vars(UnsubscribePost(p))

FairSpec == Spec /\ Fairness
=============================================================================
