------------------------- MODULE DataSourceConfigProps -------------------------
(* What the loading of the data source configuration promises.             *)
EXTENDS DataSourceConfig

Crashed == main = "crashed"

\* Whenever nobody is calling subscribers, the sources of the service are those
\* of the current configuration, however many were loaded and by which thread.
ServiceRunsConfig ==
  ~Crashed /\ mutex = Nobody /\ Service \in subs =>
    sources = IF current = Nobody THEN {} ELSE SourcesOf[current]

\* "Configuration updated and applied successfully": a POST that is answered so
\* has its configuration applied, if nobody else was writing the file or loading
\* an earlier content of it.
PostTellsApplied ==
  \A p \in Posts :
    p \in quiet /\ post[p].at \in {"leaving", "answered"} /\ post[p].status = "ok" =>
      current = Body[p]

\* The callbacks of a POST refer to the stack of its handler: none that reports
\* a success runs after the handler has returned. One that reports an error may.
AnswersAreFinal ==
  [][\A p \in Posts : post[p].at = "answered" /\ post'[p] # post[p] =>
       post'[p].status = "error"]_vars

\* README.md: "changes from the sources section are going to be applied
\* immediately once the config file is saved": a good content that stays in the
\* file becomes the current configuration, unless the process ends.
FileIsApplied ==
  \A c \in Contents \ (Unusable \cup Clashing) :
    <>[](file = c) => <>[](current = c) \/ <>(Crashed \/ main = "ending")

\* A POST that brings something new does not need its timeout of 60 seconds,
\* as long as its content stays in the file.
NewBodyIsAnswered ==
  \A p \in Posts :
    post[p].at = "waiting" /\ file = Body[p] /\ hash # Body[p]
      ~> post[p].at = "answered" \/ file # Body[p] \/ Crashed

\* end() returns: the watch thread ends whatever happens to the file.
EndsAtLast == main = "ending" ~> main = "ended" \/ Crashed
=============================================================================
