------------------------- MODULE DataSourceConfigProofs -------------------------
(***************************************************************************)
(* TLAPS proofs about DataSourceConfig: the service runs the sources of    *)
(* the current configuration, a POST that is answered with success has its *)
(* configuration applied, and no success is reported to a POST that has    *)
(* returned, for any contents, any requests and any edits of the file.     *)
(***************************************************************************)
EXTENDS DataSourceConfigProps, TLAPS

Statuses  == {"none", "ok", "error", "not found", "rejected", "timeout"}
PostState == [at : {"new", "opened", "subscribed", "reset", "writing", "waiting",
                    "leaving", "answered", "crashed"},
              done : BOOLEAN, status : Statuses]
Subscribers == {Service} \cup Posts
Files       == Contents \cup {Missing, Empty}

FailedLoad == [at : {"failed"}, seen : SUBSET Subscribers, to : Subscribers \cup {Nobody}]
LoadState ==
  {NotLoading} \cup [at : {"read"}] \cup [at : {"parse"}, hashed : Files]
    \cup [at : {"parsed"}, hashed : Files, config : Contents]
    \cup [at : {"notify"}, left : SUBSET Subscribers]
    \cup FailedLoad
    \cup [at : {"telling"}, seen : SUBSET Subscribers, to : Posts]

WatchState == [at : {"none", "start", "check", "sleeping", "ended", "crashed"}, last : Nat]

ConfigTypeOK ==
  /\ file \in Files /\ time \in Nat
  /\ hash \in Files \cup {Nobody} /\ current \in Contents \cup {Nobody}
  /\ subs \subseteq Subscribers
  /\ mutex \in Loaders \cup {Nobody}
  /\ load \in [Loaders -> LoadState]
  /\ watch \in WatchState
  /\ post \in [Posts -> PostState]
  /\ quiet \subseteq Posts

\* Who calls subscribers of a success holds the mutex, so none of them can leave.
MutexFits ==
  /\ Crashed => /\ load = [th \in Loaders |-> NotLoading]
                /\ watch.at = "crashed"
  /\ ~Crashed => \A th \in Loaders : load[th].at = "notify" <=> mutex = th
  /\ \A th \in Loaders : load[th].at = "notify" =>
       load[th].left \subseteq subs /\ current \in Contents

\* The threads load when it is their turn to.
ThreadsFit ==
  /\ main # "loading" => load["main"] = NotLoading
  /\ main \in {"start", "loading"} => watch.at = "none"
  /\ watch.at # "check" => load["watch"] = NotLoading

\* The service has the sources of the current configuration, unless it is still
\* to be told of it.
SourcesFit ==
  ~Crashed /\ Service \in subs
    /\ (\A th \in Loaders : load[th].at = "notify" => Service \notin load[th].left) =>
    sources = IF current = Nobody THEN {} ELSE SourcesOf[current]

PostsFit ==
  \A p \in Posts :
    /\ post[p].at # "new" => main \notin {"start", "loading"}
    /\ post[p].at \in {"new", "opened", "answered"} => p \notin subs
    /\ post[p].at \in {"reset", "writing"} => Body[p] \in Contents

\* Nothing is loaded before a quiet POST truncates the file; nothing can be applied
\* while the file is empty; and then nothing but what the POST has written.
QuietFits(p) ==
  /\ post[p].at \in {"reset", "writing", "waiting", "leaving", "answered", "crashed"}
  /\ post[p].at = "reset" =>
       /\ ~post[p].done
       /\ watch.last = ModTime
       /\ watch.at # "start" /\ load["watch"] = NotLoading
  /\ post[p].at = "writing" =>
       /\ file = Empty
       /\ load["watch"].at \notin {"parsed", "notify"}
       /\ post[p].done => post[p].status = "error"
  /\ post[p].at \in {"waiting", "leaving", "answered"} =>
       /\ file = Body[p]
       /\ load["watch"].at = "parsed" => load["watch"].config = Body[p]
       /\ load["watch"].at = "notify" => current = Body[p]
       /\ post[p].done /\ post[p].status = "ok" => current = Body[p]
  /\ post[p].at \in {"leaving", "answered"} /\ post[p].status = "ok" => post[p].done

ConfigInv ==
  /\ ConfigTypeOK /\ MutexFits /\ ThreadsFit /\ SourcesFit /\ PostsFit
  /\ \A p \in quiet : QuietFits(p)

----------------------------------------------------------------------------
(* The states of a load                                                    *)

LEMMA LoadStates ==
  ASSUME ConfigTypeOK, NEW th \in Loaders
  PROVE  /\ load[th].at = "parse" => load[th].hashed \in Files
         /\ load[th].at = "parsed" => load[th].hashed \in Files /\ load[th].config \in Contents
         /\ load[th].at = "notify" => load[th] = [at |-> "notify", left |-> load[th].left]
                                      /\ load[th].left \subseteq Subscribers
         /\ load[th].at = "failed" => load[th] \in FailedLoad
         /\ load[th].at = "telling" => /\ load[th].seen \subseteq Subscribers
                                       /\ load[th].to \in Posts
                                       /\ load[th] = [at |-> "telling", seen |-> load[th].seen,
                                                      to |-> load[th].to]
<1>1. load[th] \in LoadState
  BY DEF ConfigTypeOK
<1> DEFINE l == load[th]
<1> HIDE DEF l
<1>2. l \in LoadState
  BY <1>1 DEF l
<1>3. CASE l = NotLoading
  BY <1>3 DEF NotLoading, l
<1>4. CASE l \in [at : {"read"}]
  BY <1>4 DEF l
<1>5. CASE l \in [at : {"parse"}, hashed : Files]
  BY <1>5 DEF l
<1>6. CASE l \in [at : {"parsed"}, hashed : Files, config : Contents]
  BY <1>6 DEF l
<1>7. CASE l \in [at : {"notify"}, left : SUBSET Subscribers]
  BY <1>7 DEF l
<1>8. CASE l \in FailedLoad
  BY <1>8 DEF l, FailedLoad
<1>9. CASE l \in [at : {"telling"}, seen : SUBSET Subscribers, to : Posts]
  BY <1>9 DEF l
<1> QED
  BY <1>2, <1>3, <1>4, <1>5, <1>6, <1>7, <1>8, <1>9 DEF LoadState

\* What can be loaded is one of the states that a load can be in.
LEMMA NewLoadStates ==
  /\ NotLoading \in LoadState
  /\ [at |-> "read"] \in LoadState
  /\ \A f \in Files : [at |-> "parse", hashed |-> f] \in LoadState
  /\ \A f \in Files, c \in Contents : [at |-> "parsed", hashed |-> f, config |-> c] \in LoadState
  /\ \A left \in SUBSET Subscribers : [at |-> "notify", left |-> left] \in LoadState
  /\ \A seen \in SUBSET Subscribers, to \in Subscribers \cup {Nobody} :
       [at |-> "failed", seen |-> seen, to |-> to] \in LoadState
  /\ \A seen \in SUBSET Subscribers, to \in Posts :
       [at |-> "telling", seen |-> seen, to |-> to] \in LoadState
<1>1. NotLoading \in LoadState
  BY DEF LoadState
<1>2. [at |-> "read"] \in LoadState
  BY DEF LoadState
<1>3. \A f \in Files : [at |-> "parse", hashed |-> f] \in LoadState
  BY DEF LoadState
<1>4. \A f \in Files, c \in Contents : [at |-> "parsed", hashed |-> f, config |-> c] \in LoadState
  BY DEF LoadState
<1>5. \A left \in SUBSET Subscribers : [at |-> "notify", left |-> left] \in LoadState
  BY DEF LoadState
<1>6. \A seen \in SUBSET Subscribers, to \in Subscribers \cup {Nobody} :
        [at |-> "failed", seen |-> seen, to |-> to] \in LoadState
  BY DEF LoadState, FailedLoad
<1>7. \A seen \in SUBSET Subscribers, to \in Posts :
        [at |-> "telling", seen |-> seen, to |-> to] \in LoadState
  BY DEF LoadState
<1> QED
  BY <1>1, <1>2, <1>3, <1>4, <1>5, <1>6, <1>7

\* A step of a load that does not call subscribers of a success.
LEMMA LoadSteps ==
  ASSUME ConfigInv, NEW th \in Loaders, NEW s \in LoadState,
         load' = [load EXCEPT ![th] = s],
         load[th].at \notin {"none", "notify"}, s.at # "notify",
         \A p \in quiet :
           th = "watch" /\ s.at = "parsed" =>
             /\ post[p].at # "writing"
             /\ post[p].at \in {"waiting", "leaving", "answered"} => s.config = Body[p],
         UNCHANGED <<fileVars, configVars, watching, watch, main, sources, post, quiet>>
  PROVE  ConfigInv'
<1> USE DEF ConfigInv, fileVars, configVars
<1>1. /\ load'[th] = s
      /\ \A l \in Loaders : l # th => load'[l] = load[l]
      /\ th \in {"main", "watch"}
  BY DEF ConfigTypeOK, Loaders
<1>2. load[th] # NotLoading /\ NotLoading.at = "none"
  BY DEF NotLoading
<1>3. ConfigTypeOK'
  <2>1. load' \in [Loaders -> LoadState]
    BY DEF ConfigTypeOK
  <2> QED
    BY <2>1 DEF ConfigTypeOK
<1>4. ~Crashed
  BY <1>2 DEF MutexFits
<1>5. MutexFits'
  BY <1>1, <1>4 DEF MutexFits, Crashed
<1>6. ThreadsFit'
  BY <1>1, <1>2 DEF ThreadsFit, Loaders
<1>7. SourcesFit'
  BY <1>1, <1>4 DEF SourcesFit, Crashed
<1>8. PostsFit'
  BY DEF PostsFit
<1>9. ASSUME NEW p \in quiet PROVE QuietFits(p)'
  <2>1. QuietFits(p)
    OBVIOUS
  <2>2. CASE th = "main"
    <3>1. load'["watch"] = load["watch"]
      BY <1>1, <2>2 DEF Loaders
    <3> QED
      BY <2>1, <3>1 DEF QuietFits, ModTime
  <2>3. CASE th = "watch"
    <3>1. load'["watch"] = s /\ post[p].at # "reset"
      BY <1>1, <1>2, <2>1, <2>3 DEF QuietFits
    <3> QED
      BY <2>1, <2>3, <3>1 DEF QuietFits, ModTime
  <2> QED
    BY <1>1, <2>2, <2>3
<1> QED
  BY <1>3, <1>5, <1>6, <1>7, <1>8, <1>9

LEMMA ReadFileFits ==
  ASSUME ConfigInv, NEW th \in Loaders, ReadFile(th)
  PROVE  ConfigInv'
<1> DEFINE s == IF file = Missing THEN [at |-> "failed", seen |-> {}, to |-> Nobody]
                ELSE IF file = hash THEN NotLoading
                ELSE [at |-> "parse", hashed |-> file]
<1>1. s \in LoadState
  BY NewLoadStates DEF ConfigInv, ConfigTypeOK
<1>2. s.at \notin {"notify", "parsed"}
  BY DEF NotLoading
<1>3. load' = [load EXCEPT ![th] = s] /\ load[th].at = "read"
      /\ UNCHANGED <<fileVars, configVars, watching, watch, main, sources, post, quiet>>
  BY DEF ReadFile
<1> HIDE DEF s
<1> QED
  BY <1>1, <1>2, <1>3, LoadSteps

\* While a quiet POST has the file empty, there is nothing to parse.
LEMMA ParseFileFits ==
  ASSUME ConfigInv, NEW th \in Loaders, ParseFile(th)
  PROVE  ConfigInv'
<1> DEFINE f == [at |-> "failed", seen |-> {}, to |-> Nobody]
           g == [at |-> "parsed", hashed |-> load[th].hashed, config |-> file]
<1>1. load[th].at = "parse"
      /\ UNCHANGED <<fileVars, configVars, watching, watch, main, sources, post, quiet>>
  BY DEF ParseFile
<1>2. CASE file \in Unusable
  <2>1. load' = [load EXCEPT ![th] = f]
    BY <1>2 DEF ParseFile
  <2>2. f \in LoadState
    BY NewLoadStates
  <2>3. f.at = "failed"
    OBVIOUS
  <2> HIDE DEF f
  <2> QED
    BY <1>1, <2>1, <2>2, <2>3, LoadSteps
<1>3. CASE file \notin Unusable
  <2>1. load' = [load EXCEPT ![th] = g]
    BY <1>3 DEF ParseFile
  <2>2. g \in LoadState
    BY <1>1, <1>3, NewLoadStates, LoadStates DEF ConfigInv, ConfigTypeOK, Files, Unusable
  <2>3. g.at = "parsed" /\ g.config = file
    OBVIOUS
  <2>4. ASSUME NEW p \in quiet
        PROVE  /\ post[p].at # "writing"
               /\ post[p].at \in {"waiting", "leaving", "answered"} => g.config = Body[p]
    BY <1>3, <2>3 DEF ConfigInv, QuietFits, Unusable
  <2> HIDE DEF g
  <2> QED
    BY <1>1, <2>1, <2>2, <2>3, <2>4, LoadSteps, ZenonT(30)
<1> QED
  BY <1>2, <1>3

LEMMA CallNextFits ==
  ASSUME ConfigInv, NEW th \in Loaders, CallNext(th)
  PROVE  ConfigInv'
<1>1. PICK x \in subs \ load[th].seen :
        load' = [load EXCEPT ![th] =
          [at |-> IF x = Service THEN "failed" ELSE "telling",
           seen |-> load[th].seen \cup {x}, to |-> x]]
  BY DEF CallNext
<1> DEFINE s == [at |-> IF x = Service THEN "failed" ELSE "telling",
                 seen |-> load[th].seen \cup {x}, to |-> x]
<1>2. load[th].at = "failed"
      /\ UNCHANGED <<fileVars, configVars, watching, watch, main, sources, post, quiet>>
  BY DEF CallNext
<1>3. s \in LoadState
  <2>1. x \in Subscribers /\ load[th].seen \subseteq Subscribers
    BY <1>2, LoadStates DEF ConfigInv, ConfigTypeOK, FailedLoad
  <2>2. CASE x = Service
    BY <2>1, <2>2, NewLoadStates
  <2>3. CASE x # Service
    <3>1. x \in Posts
      BY <2>1, <2>3 DEF Subscribers
    <3> QED
      BY <2>1, <2>3, <3>1, NewLoadStates
  <2> QED
    BY <2>2, <2>3
<1>4. s.at \in {"failed", "telling"}
  OBVIOUS
<1>5. load' = [load EXCEPT ![th] = s]
  BY <1>1
<1> HIDE DEF s
<1> QED
  BY <1>2, <1>3, <1>4, <1>5, LoadSteps

LEMMA FinishFailedFits ==
  ASSUME ConfigInv, NEW th \in Loaders, FinishFailed(th)
  PROVE  ConfigInv'
<1>1. /\ load' = [load EXCEPT ![th] = NotLoading] /\ load[th].at = "failed"
      /\ NotLoading \in LoadState /\ NotLoading.at = "none"
      /\ UNCHANGED <<fileVars, configVars, watching, watch, main, sources, post, quiet>>
  BY NewLoadStates DEF FinishFailed, NotLoading
<1> QED
  BY <1>1, LoadSteps
\* The thread takes the mutex and has every subscriber to call.
LEMMA ApplyConfigFits ==
  ASSUME ConfigInv, NEW th \in Loaders, ApplyConfig(th)
  PROVE  ConfigInv'
<1> DEFINE s == [at |-> "notify", left |-> subs]
<1> USE DEF ConfigInv
<1>1. /\ load[th].at = "parsed" /\ mutex = Nobody /\ mutex' = th
      /\ current' = load[th].config /\ hash' = load[th].hashed
      /\ load' = [load EXCEPT ![th] = s]
      /\ UNCHANGED <<file, time, subs, watching, watch, main, sources, post, quiet>>
  BY DEF ApplyConfig, fileVars
<1>2. load[th].config \in Contents /\ load[th].hashed \in Files
  BY <1>1, LoadStates
<1>3. /\ load'[th] = s /\ s.at = "notify" /\ s.left = subs
      /\ \A l \in Loaders : l # th => load'[l] = load[l]
  BY <1>1 DEF ConfigTypeOK
<1>4. s \in LoadState
  BY NewLoadStates DEF ConfigTypeOK
<1> HIDE DEF s
<1>5. NotLoading.at = "none" /\ load[th] # NotLoading
  BY <1>1 DEF NotLoading
<1>6. ~Crashed
  BY <1>5 DEF MutexFits
<1>7. Nobody \notin Loaders
  BY ConfigAssumption DEF Loaders
<1>8. ConfigTypeOK'
  BY <1>1, <1>2, <1>4 DEF ConfigTypeOK
<1>9. MutexFits'
  BY <1>1, <1>2, <1>3, <1>6, <1>7 DEF MutexFits, Crashed
<1>10. ThreadsFit'
  BY <1>1, <1>3, <1>5 DEF ThreadsFit, Loaders
<1>11. SourcesFit'
  BY <1>1, <1>3 DEF SourcesFit
<1>12. PostsFit'
  BY <1>1 DEF PostsFit
<1>13. ASSUME NEW p \in quiet PROVE QuietFits(p)'
  <2>1. QuietFits(p) /\ p \in Posts
    BY DEF ConfigTypeOK
  <2>2. post[p].at # "new"
    BY <2>1 DEF QuietFits
  <2>3. th = "watch"
    BY <2>1, <2>2, <1>5 DEF PostsFit, ThreadsFit, Loaders
  <2>4. load'["watch"] = s /\ load["watch"].at = "parsed"
    BY <1>1, <1>3, <2>3
  <2>5. post[p].at \notin {"reset", "writing"}
    BY <1>5, <2>1, <2>3, <2>4 DEF QuietFits
  <2>6. post[p].at \in {"waiting", "leaving", "answered"} => current' = Body[p] /\ file = Body[p]
    BY <1>1, <2>1, <2>3, <2>4 DEF QuietFits
  <2> QED
    BY <1>1, <1>3, <2>1, <2>4, <2>5, <2>6 DEF QuietFits
<1> QED
  BY <1>1, <1>8, <1>9, <1>10, <1>11, <1>12, <1>13

\* What a POST is told of.
LEMMA Told ==
  ASSUME ConfigTypeOK, NEW p \in Posts, NEW status \in {"ok", "error"}, Tell(p, status)
  PROVE  /\ post' \in [Posts -> PostState]
         /\ \A q \in Posts : post'[q].at = post[q].at
         /\ \A q \in Posts : q # p => post'[q] = post[q]
         /\ post'[p].done /\ post'[p].status = status
<1>1. post[p] \in PostState
  BY DEF ConfigTypeOK
<1>2. post' = [post EXCEPT ![p] = [post[p] EXCEPT !.done = TRUE, !.status = status]]
  BY DEF Tell
<1>3. status \in Statuses
  BY DEF Statuses
<1>4. [post[p] EXCEPT !.done = TRUE, !.status = status] \in PostState
  BY <1>1, <1>3 DEF PostState
<1>5. /\ [post[p] EXCEPT !.done = TRUE, !.status = status].at = post[p].at
      /\ [post[p] EXCEPT !.done = TRUE, !.status = status].done
      /\ [post[p] EXCEPT !.done = TRUE, !.status = status].status = status
  BY <1>1 DEF PostState
<1> QED
  BY <1>2, <1>4, <1>5 DEF ConfigTypeOK

\* One subscriber is told of the current configuration.
LEMMA NotifyNextFits ==
  ASSUME ConfigInv, NEW th \in Loaders, NotifyNext(th)
  PROVE  ConfigInv'
<1> USE DEF ConfigInv
<1>1. PICK x \in load[th].left :
        /\ load' = [load EXCEPT ![th].left = @ \ {x}]
        /\ IF x # Service THEN Tell(x, "ok") /\ UNCHANGED sources
           ELSE /\ sources' = Replaced(current)
                /\ UNCHANGED post
  BY DEF NotifyNext
<1> DEFINE s == [at |-> "notify", left |-> load[th].left \ {x}]
<1>2. /\ load[th].at = "notify"
      /\ UNCHANGED <<fileVars, configVars, watching, watch, main, quiet>>
  BY DEF NotifyNext
<1>3. load[th] = [at |-> "notify", left |-> load[th].left] /\ load[th].left \subseteq Subscribers
  BY <1>2, LoadStates
<1>4. load' = [load EXCEPT ![th] = s]
  <2>1. [load[th] EXCEPT !.left = @ \ {x}] = s
    BY <1>3
  <2> QED
    BY <1>1, <2>1
<1>5. s \in LoadState
  BY <1>3, NewLoadStates
<1>6. /\ load'[th] = s /\ s.at = "notify" /\ s.left = load[th].left \ {x}
      /\ \A l \in Loaders : l # th => load'[l] = load[l]
  BY <1>4 DEF ConfigTypeOK
<1> HIDE DEF s
<1>7. NotLoading.at = "none" /\ load[th] # NotLoading /\ s # NotLoading
  BY <1>2, <1>6 DEF NotLoading
<1>8. ~Crashed /\ mutex = th /\ current \in Contents /\ load[th].left \subseteq subs
  BY <1>2, <1>7 DEF MutexFits
<1>9. UNCHANGED <<file, time, hash, current, subs, mutex, watching, watch, main, quiet>>
  BY <1>2 DEF fileVars, configVars
<1>10. /\ post' \in [Posts -> PostState]
       /\ \A q \in Posts : post'[q].at = post[q].at
       /\ \A q \in Posts : post'[q] # post[q] =>
            /\ q = x
            /\ post'[q].done /\ post'[q].status = "ok"
  <2>1. CASE x = Service
    BY <1>1, <2>1 DEF ConfigTypeOK
  <2>2. CASE x # Service
    <3>1. x \in Posts
      BY <1>3, <2>2 DEF Subscribers
    <3>2. Tell(x, "ok")
      BY <1>1, <2>2
    <3> QED
      BY <3>1, <3>2, Told
  <2> QED
    BY <2>1, <2>2
<1>11. ConfigTypeOK'
  <2>1. load' \in [Loaders -> LoadState]
    BY <1>4, <1>5 DEF ConfigTypeOK
  <2> QED
    BY <1>9, <1>10, <2>1 DEF ConfigTypeOK
<1>12. MutexFits'
  BY <1>2, <1>6, <1>8, <1>9 DEF MutexFits, Crashed
<1>13. ThreadsFit'
  BY <1>6, <1>7, <1>9 DEF ThreadsFit, Loaders
<1>14. SourcesFit'
  <2>1. CASE x = Service
    <3>1. sources' = SourcesOf[current] /\ current # Nobody
      BY <1>1, <1>8, <2>1, ConfigAssumption DEF Replaced
    <3> QED
      BY <3>1, <1>9 DEF SourcesFit
  <2>2. CASE x # Service
    BY <1>1, <1>2, <1>6, <1>8, <1>9, <2>2 DEF SourcesFit, Crashed
  <2> QED
    BY <2>1, <2>2
<1>15. PostsFit'
  BY <1>9, <1>10 DEF PostsFit
<1>16. ASSUME NEW p \in quiet PROVE QuietFits(p)'
  <2>1. QuietFits(p) /\ p \in Posts
    BY DEF ConfigTypeOK
  <2>2. post[p].at # "new"
    BY <2>1 DEF QuietFits
  <2>3. th = "watch"
    BY <2>1, <2>2, <1>7 DEF PostsFit, ThreadsFit, Loaders
  <2>4. load'["watch"] = s /\ load["watch"].at = "notify"
    BY <1>2, <1>6, <2>3
  <2>5. post[p].at \notin {"reset", "writing"}
    BY <1>7, <2>1, <2>3, <2>4 DEF QuietFits
  <2>6. post[p].at \in {"waiting", "leaving", "answered"} => current = Body[p] /\ file = Body[p]
    BY <2>1, <2>4 DEF QuietFits
  <2>7. post'[p].at = post[p].at
    BY <1>10, <2>1
  <2>8. post'[p].at \in {"leaving", "answered"} /\ post'[p].status = "ok" => post'[p].done
    BY <1>10, <2>1 DEF QuietFits
  <2> QED
    BY <1>6, <1>9, <2>1, <2>4, <2>5, <2>6, <2>7, <2>8 DEF QuietFits
<1> QED
  BY <1>9, <1>11, <1>12, <1>13, <1>14, <1>15, <1>16

\* A POST may be told of an error at any time.
LEMMA NotifyErrorFits ==
  ASSUME ConfigInv, NEW th \in Loaders, NotifyError(th)
  PROVE  ConfigInv'
<1> USE DEF ConfigInv
<1> DEFINE s == [at |-> "failed", seen |-> load[th].seen, to |-> load[th].to]
<1>1. /\ load[th].at = "telling"
      /\ load' = [load EXCEPT ![th].at = "failed"]
      /\ Tell(load[th].to, "error")
      /\ UNCHANGED <<file, time, hash, current, subs, mutex, watching, watch, main, sources, quiet>>
  BY DEF NotifyError, fileVars, configVars
<1>2. /\ load[th].seen \subseteq Subscribers /\ load[th].to \in Posts
      /\ load[th] = [at |-> "telling", seen |-> load[th].seen, to |-> load[th].to]
  BY <1>1, LoadStates
<1>3. load' = [load EXCEPT ![th] = s]
  <2>1. [load[th] EXCEPT !.at = "failed"] = s
    BY <1>2
  <2> QED
    BY <1>1, <2>1
<1>4. s \in LoadState
  BY <1>2, NewLoadStates DEF Subscribers
<1>5. /\ load'[th] = s /\ s.at = "failed"
      /\ \A l \in Loaders : l # th => load'[l] = load[l]
  BY <1>3 DEF ConfigTypeOK
<1> HIDE DEF s
<1>6. NotLoading.at = "none" /\ load[th] # NotLoading
  BY <1>1 DEF NotLoading
<1>7. ~Crashed
  BY <1>6 DEF MutexFits
<1>8. /\ post' \in [Posts -> PostState]
      /\ \A q \in Posts : post'[q].at = post[q].at
      /\ \A q \in Posts : post'[q] # post[q] => post'[q].status = "error"
  BY <1>1, <1>2, Told
<1>9. ConfigTypeOK'
  <2>1. load' \in [Loaders -> LoadState]
    BY <1>3, <1>4 DEF ConfigTypeOK
  <2> QED
    BY <1>1, <1>8, <2>1 DEF ConfigTypeOK
<1>10. MutexFits'
  BY <1>1, <1>5, <1>7 DEF MutexFits, Crashed
<1>11. ThreadsFit'
  BY <1>1, <1>5, <1>6 DEF ThreadsFit, Loaders
<1>12. SourcesFit'
  BY <1>1, <1>5 DEF SourcesFit, Crashed
<1>13. PostsFit'
  BY <1>1, <1>8 DEF PostsFit
<1>14. ASSUME NEW p \in quiet PROVE QuietFits(p)'
  <2>1. QuietFits(p) /\ p \in Posts
    BY DEF ConfigTypeOK
  <2>2. post[p].at # "new"
    BY <2>1 DEF QuietFits
  <2>3. th = "watch"
    BY <2>1, <2>2, <1>6 DEF PostsFit, ThreadsFit, Loaders
  <2>4. load'["watch"] = s
    BY <1>5, <2>3
  <2>5. post[p].at # "reset"
    BY <1>6, <2>1, <2>3 DEF QuietFits
  <2>6. post'[p].at = post[p].at /\ (post'[p] # post[p] => post'[p].status = "error")
    BY <1>8, <2>1
  <2> QED
    BY <1>1, <1>5, <2>1, <2>4, <2>5, <2>6 DEF QuietFits
<1> QED
  BY <1>1, <1>9, <1>10, <1>11, <1>12, <1>13, <1>14

LEMMA FinishLoadFits ==
  ASSUME ConfigInv, NEW th \in Loaders, FinishLoad(th)
  PROVE  ConfigInv'
<1> USE DEF ConfigInv
<1>1. /\ load[th].at = "notify" /\ load[th].left = {}
      /\ mutex' = Nobody /\ load' = [load EXCEPT ![th] = NotLoading]
      /\ UNCHANGED <<file, time, hash, current, subs, watching, watch, main, sources, post, quiet>>
  BY DEF FinishLoad, fileVars
<1>2. NotLoading.at = "none" /\ load[th] # NotLoading /\ NotLoading \in LoadState
  BY <1>1, NewLoadStates DEF NotLoading
<1>3. /\ load'[th] = NotLoading
      /\ \A l \in Loaders : l # th => load'[l] = load[l]
  BY <1>1 DEF ConfigTypeOK
<1>4. ~Crashed /\ mutex = th /\ Nobody \notin Loaders
  BY <1>1, <1>2, ConfigAssumption DEF MutexFits, Loaders
<1>5. ConfigTypeOK'
  <2>1. load' \in [Loaders -> LoadState]
    BY <1>1, <1>2 DEF ConfigTypeOK
  <2> QED
    BY <1>1, <2>1 DEF ConfigTypeOK
<1>6. MutexFits'
  BY <1>1, <1>2, <1>3, <1>4 DEF MutexFits, Crashed
<1>7. ThreadsFit'
  BY <1>1, <1>3 DEF ThreadsFit, Loaders
<1>8. SourcesFit'
  BY <1>1, <1>3, <1>4 DEF SourcesFit, Crashed
<1>9. PostsFit'
  BY <1>1 DEF PostsFit
<1>10. ASSUME NEW p \in quiet PROVE QuietFits(p)'
  <2>1. QuietFits(p)
    OBVIOUS
  <2>2. load'["watch"] = load["watch"] \/ load'["watch"] = NotLoading
    BY <1>3 DEF Loaders
  <2> QED
    BY <1>1, <1>2, <2>1, <2>2 DEF QuietFits, ModTime
<1> QED
  BY <1>1, <1>5, <1>6, <1>7, <1>8, <1>9, <1>10

\* Answered requests are all that is left after a crash.
LEMMA CrashFits ==
  ASSUME ConfigInv, NEW th \in Loaders, Crash(th)
  PROVE  ConfigInv'
<1> USE DEF ConfigInv
<1>1. /\ main' = "crashed"
      /\ watch' = [watch EXCEPT !.at = "crashed"]
      /\ load' = [l \in Loaders |-> NotLoading]
      /\ post' = [p \in Posts |-> IF post[p].at = "answered" THEN post[p]
                                 ELSE [post[p] EXCEPT !.at = "crashed"]]
      /\ UNCHANGED <<file, time, hash, current, subs, mutex, watching, sources, quiet>>
  BY DEF Crash, fileVars, configVars
<1>2. NotLoading.at = "none" /\ NotLoading \in LoadState
  BY NewLoadStates DEF NotLoading
<1>3. watch' \in WatchState /\ watch'.at = "crashed"
  BY <1>1 DEF ConfigTypeOK, WatchState
<1>4. \A p \in Posts : /\ post'[p] \in PostState
                       /\ post'[p].at \in {"answered", "crashed"}
                       /\ post'[p].at = "answered" => post'[p] = post[p]
  <2> TAKE p \in Posts
  <2>1. post[p] \in PostState
    BY DEF ConfigTypeOK
  <2>2. CASE post[p].at = "answered"
    BY <1>1, <2>1, <2>2
  <2>3. CASE post[p].at # "answered"
    <3>1. post'[p] = [post[p] EXCEPT !.at = "crashed"]
      BY <1>1, <2>3
    <3> QED
      BY <2>1, <3>1 DEF PostState
  <2> QED
    BY <2>2, <2>3
<1>5. ConfigTypeOK'
  <2>1. post' \in [Posts -> PostState]
    BY <1>1, <1>4
  <2>2. load' \in [Loaders -> LoadState]
    BY <1>1, <1>2
  <2> QED
    BY <1>1, <1>3, <2>1, <2>2 DEF ConfigTypeOK
<1>6. MutexFits'
  BY <1>1, <1>2, <1>3 DEF MutexFits, Crashed
<1>7. ThreadsFit'
  BY <1>1 DEF ThreadsFit, Loaders
<1>8. SourcesFit'
  BY <1>1 DEF SourcesFit, Crashed
<1>9. PostsFit'
  BY <1>1, <1>4 DEF PostsFit
<1>10. ASSUME NEW p \in quiet PROVE QuietFits(p)'
  <2>1. QuietFits(p) /\ p \in Posts
    BY DEF ConfigTypeOK
  <2>2. load'["watch"] = NotLoading
    BY <1>1 DEF Loaders
  <2> QED
    BY <1>1, <1>2, <1>4, <2>1, <2>2 DEF QuietFits
<1> QED
  BY <1>1, <1>5, <1>6, <1>7, <1>8, <1>9, <1>10
----------------------------------------------------------------------------
(* The watch thread                                                        *)

\* A step of the watch thread, which may begin to load if no quiet POST is about
\* to write.
LEMMA WatchSteps ==
  ASSUME ConfigInv, ~Crashed, watch' \in WatchState,
         load["watch"] = NotLoading,
         \/ load' = load
         \/ load' = [load EXCEPT !["watch"] = [at |-> "read"]] /\ watch'.at = "check",
         main \notin {"start", "loading"},
         \A p \in quiet : post[p].at = "reset" =>
           load' = load /\ watch'.last = ModTime /\ watch'.at # "start",
         UNCHANGED <<fileVars, configVars, watching, main, sources, post, quiet>>
  PROVE  ConfigInv'
<1> USE DEF ConfigInv
<1> DEFINE r == [at |-> "read"]
<1>1. r \in LoadState /\ r.at = "read" /\ NotLoading.at = "none"
  BY NewLoadStates DEF NotLoading
<1> HIDE DEF r
<1>2. UNCHANGED <<file, time, hash, current, subs, mutex, watching, main, sources, post, quiet>>
  BY DEF fileVars, configVars
<1>3. /\ load'["main"] = load["main"]
      /\ load'["watch"] = load["watch"] \/ (load'["watch"] = r /\ watch'.at = "check")
      /\ load' \in [Loaders -> LoadState]
  BY <1>1 DEF ConfigTypeOK, Loaders, r
<1>4. ConfigTypeOK'
  BY <1>2, <1>3 DEF ConfigTypeOK
<1>5. MutexFits'
  BY <1>1, <1>2, <1>3 DEF MutexFits, Crashed, Loaders
<1>6. ThreadsFit'
  BY <1>2, <1>3 DEF ThreadsFit
<1>7. SourcesFit'
  BY <1>1, <1>2, <1>3 DEF SourcesFit, Crashed, Loaders
<1>8. PostsFit'
  BY <1>2 DEF PostsFit
<1>9. ASSUME NEW p \in quiet PROVE QuietFits(p)'
  <2>1. QuietFits(p)
    OBVIOUS
  <2>2. post[p].at = "reset" => load'["watch"] = NotLoading
    OBVIOUS
  <2> QED
    BY <1>1, <1>2, <1>3, <2>1, <2>2 DEF QuietFits, ModTime
<1> QED
  BY <1>2, <1>4, <1>5, <1>6, <1>7, <1>8, <1>9

LEMMA ModTimeType == ConfigTypeOK => ModTime \in Nat
BY DEF ConfigTypeOK, ModTime, NoTime

LEMMA WatchStepFits ==
  ASSUME ConfigInv, WatchStep
  PROVE  ConfigInv'
<1> USE DEF ConfigInv
<1>1. UNCHANGED <<fileVars, configVars, watching, main, sources, post, quiet>>
  BY DEF WatchStep, WatchStart, WatchCheck, WatchPoll
<1>2. ~Crashed /\ main \notin {"start", "loading"}
  BY DEF WatchStep, WatchStart, WatchCheck, WatchPoll, MutexFits, ThreadsFit
<1>3. \A p \in quiet : post[p].at = "reset" => watch.last = ModTime /\ watch.at # "start"
  BY DEF QuietFits
<1>4. watch.last \in Nat /\ ModTime \in Nat
  BY ModTimeType DEF ConfigTypeOK, WatchState
<1>5. CASE WatchStart
  <2>1. /\ watch.at = "start"
        /\ watch' = [at |-> "check", last |-> ModTime]
        /\ load' = [load EXCEPT !["watch"] =
                      IF ModTime = NoTime THEN NotLoading ELSE [at |-> "read"]]
    BY <1>5 DEF WatchStart
  <2>2. load["watch"] = NotLoading
    BY <2>1 DEF ThreadsFit
  <2>3. load' = load \/ load' = [load EXCEPT !["watch"] = [at |-> "read"]]
    BY <2>1, <2>2 DEF ConfigTypeOK
  <2>4. watch' \in WatchState /\ watch'.at = "check"
    BY <1>4, <2>1 DEF WatchState
  <2> QED
    BY <1>1, <1>2, <1>3, <2>1, <2>2, <2>3, <2>4, WatchSteps
<1>6. CASE WatchCheck
  <2>1. /\ load["watch"] = NotLoading /\ load' = load
        /\ watch' = [at |-> IF GoesOn THEN "sleeping" ELSE "ended", last |-> watch.last]
    BY <1>6 DEF WatchCheck, Remembered
  <2>2. /\ watch' \in WatchState /\ watch'.at \in {"sleeping", "ended"}
        /\ watch'.last = watch.last
    BY <1>4, <2>1 DEF WatchState
  <2> QED
    BY <1>1, <1>2, <1>3, <2>1, <2>2, WatchSteps
<1>7. CASE WatchPoll
  <2>1. /\ watch.at = "sleeping"
        /\ watch' = [at |-> "check", last |-> ModTime]
        /\ load' = [load EXCEPT !["watch"] = IF Changed THEN [at |-> "read"] ELSE @]
    BY <1>7 DEF WatchPoll
  <2>2. load["watch"] = NotLoading
    BY <2>1 DEF ThreadsFit
  <2>3. /\ load' = load \/ load' = [load EXCEPT !["watch"] = [at |-> "read"]]
        /\ ~Changed => load' = load
    BY <2>1 DEF ConfigTypeOK
  <2>4. watch' \in WatchState /\ watch'.at = "check" /\ watch'.last = ModTime
    BY <1>4, <2>1 DEF WatchState
  <2>5. \A p \in quiet : post[p].at = "reset" => load' = load
    BY <1>3, <2>3 DEF Changed
  <2> QED
    BY <1>1, <1>2, <1>3, <2>2, <2>3, <2>4, <2>5, WatchSteps
<1> QED
  BY <1>5, <1>6, <1>7 DEF WatchStep

----------------------------------------------------------------------------
(* The main thread                                                         *)

LEMMA LoadFirstFits ==
  ASSUME ConfigInv, LoadFirst
  PROVE  ConfigInv'
<1> USE DEF ConfigInv
<1> DEFINE r == [at |-> "read"]
<1>1. /\ main = "start" /\ main' = "loading"
      /\ load' = [load EXCEPT !["main"] = r]
      /\ UNCHANGED <<file, time, hash, current, subs, mutex, watching, watch, sources, post, quiet>>
  BY DEF LoadFirst, fileVars, configVars
<1>2. r \in LoadState /\ r.at = "read" /\ NotLoading.at = "none"
  BY NewLoadStates DEF NotLoading
<1> HIDE DEF r
<1>3. /\ load'["main"] = r /\ load'["watch"] = load["watch"] /\ load["main"] = NotLoading
      /\ load' \in [Loaders -> LoadState]
  BY <1>1, <1>2 DEF ConfigTypeOK, Loaders, ThreadsFit
<1>4. ConfigTypeOK'
  BY <1>1, <1>3 DEF ConfigTypeOK
<1>5. MutexFits'
  BY <1>1, <1>2, <1>3 DEF MutexFits, Crashed, Loaders
<1>6. ThreadsFit'
  BY <1>1, <1>3 DEF ThreadsFit
<1>7. SourcesFit'
  BY <1>1, <1>2, <1>3 DEF SourcesFit, Crashed, Loaders
<1>8. PostsFit'
  BY <1>1 DEF PostsFit
<1>9. \A p \in quiet : QuietFits(p)'
  BY <1>1, <1>3 DEF QuietFits, ModTime
<1> QED
  BY <1>1, <1>4, <1>5, <1>6, <1>7, <1>8, <1>9

\* The steps of the main thread that begin and end the watch.
LEMMA OtherMainStepFits ==
  ASSUME ConfigInv, StartWatch \/ EndWatch \/ JoinWatch \/ DestroyService
  PROVE  ConfigInv'
<1> USE DEF ConfigInv
<1>1. /\ main \in {"loading", "serving", "ending", "joining"}
      /\ main' \in {"serving", "ending", "joining", "ended"}
      /\ \/ watch' = watch
         \/ main = "loading" /\ load["main"] = NotLoading /\ watch' = [at |-> "start", last |-> NoTime]
      /\ main = "loading" => load["main"] = NotLoading
      /\ UNCHANGED <<file, time, hash, current, mutex, load, sources, post, quiet>>
  BY DEF StartWatch, EndWatch, JoinWatch, DestroyService, fileVars, configVars
<1>2. subs' = subs \/ (mutex = Nobody /\ subs' = subs \ {Service})
  BY DEF StartWatch, EndWatch, JoinWatch, DestroyService, configVars
<1>3. watch' \in WatchState
  BY <1>1 DEF ConfigTypeOK, WatchState, NoTime
<1>4. [at |-> "start", last |-> NoTime].at = "start"
  OBVIOUS
<1>5. ~Crashed /\ ~Crashed'
  BY <1>1 DEF Crashed
<1>6. Nobody \notin Loaders /\ Service \notin Posts
  BY ConfigAssumption DEF Loaders, Service
<1>7. ConfigTypeOK'
  BY <1>1, <1>2, <1>3 DEF ConfigTypeOK
<1>8. MutexFits'
  BY <1>1, <1>2, <1>5, <1>6 DEF MutexFits
<1>9. ThreadsFit'
  BY <1>1, <1>4 DEF ThreadsFit
<1>10. SourcesFit'
  BY <1>1, <1>2, <1>5, <1>6 DEF SourcesFit
<1>11. PostsFit'
  BY <1>1, <1>2 DEF PostsFit
<1>12. ASSUME NEW p \in quiet PROVE QuietFits(p)'
  <2>1. QuietFits(p) /\ p \in Posts
    BY DEF ConfigTypeOK
  <2>2. watch' = watch
    BY <1>1, <2>1 DEF QuietFits, PostsFit
  <2> QED
    BY <1>1, <2>1, <2>2 DEF QuietFits, ModTime
<1> QED
  BY <1>1, <1>7, <1>8, <1>9, <1>10, <1>11, <1>12
----------------------------------------------------------------------------
(* Requests and editors                                                    *)

\* A step of a POST that disturbs no other one, and none that is still quiet.
LEMMA PostSteps ==
  ASSUME ConfigInv, NEW p \in Posts, NEW s \in PostState,
         post' = [post EXCEPT ![p] = s],
         main \notin {"start", "loading"},
         s.at \in {"reset", "writing"} => Body[p] \in Contents,
         \/ subs' = subs
         \/ mutex = Nobody /\ subs' \in {subs \cup {p}, subs \ {p}},
         s.at \in {"new", "opened", "answered"} => p \notin subs',
         file' \in Files, time' \in Nat,
         quiet' \subseteq quiet \cup {p},
         \A q \in quiet' : q # p => file' = file /\ time' = time,
         p \in quiet' => QuietFits(p)',
         UNCHANGED <<hash, current, mutex, load, watching, watch, main, sources>>
  PROVE  ConfigInv'
<1> USE DEF ConfigInv
<1>1. /\ post'[p] = s
      /\ \A q \in Posts : q # p => post'[q] = post[q]
      /\ post' \in [Posts -> PostState]
  BY DEF ConfigTypeOK
<1>2. Nobody \notin Loaders /\ Service \notin Posts
  BY ConfigAssumption DEF Loaders, Service
<1>3. /\ subs' \subseteq Subscribers
      /\ Service \in subs' <=> Service \in subs
      /\ \A q \in Posts : q # p => (q \in subs' <=> q \in subs)
      /\ subs' # subs => mutex = Nobody
  BY <1>2 DEF ConfigTypeOK, Subscribers
<1>4. ConfigTypeOK'
  BY <1>1, <1>3 DEF ConfigTypeOK
<1>5. MutexFits'
  <2>1. MutexFits /\ UNCHANGED <<load, mutex, watch, main, current>>
    OBVIOUS
  <2>2. ASSUME NEW th \in Loaders, load[th].at = "notify" PROVE load[th].left \subseteq subs'
    <3>1. load[th] # NotLoading
      BY <2>2 DEF NotLoading
    <3>2. mutex = th
      BY <2>1, <2>2, <3>1 DEF MutexFits
    <3>3. subs' = subs
      BY <3>2, <1>2, <1>3
    <3> QED
      BY <2>1, <2>2, <3>3 DEF MutexFits
  <2> QED
    BY <2>1, <2>2 DEF MutexFits, Crashed
<1>6. ThreadsFit'
  BY DEF ThreadsFit
<1>7. SourcesFit'
  BY <1>3 DEF SourcesFit, Crashed
<1>8. ASSUME NEW q \in Posts
      PROVE  /\ post'[q].at # "new" => main' \notin {"start", "loading"}
             /\ post'[q].at \in {"new", "opened", "answered"} => q \notin subs'
             /\ post'[q].at \in {"reset", "writing"} => Body[q] \in Contents
  <2>1. CASE q = p
    BY <2>1, <1>1
  <2>2. CASE q # p
    BY <2>2, <1>1, <1>3 DEF PostsFit
  <2> QED
    BY <2>1, <2>2
<1>9. PostsFit'
  BY <1>8 DEF PostsFit
<1>10. ASSUME NEW q \in quiet' PROVE QuietFits(q)'
  <2>1. CASE q = p
    BY <2>1
  <2>2. CASE q # p
    <3>1. q \in quiet /\ q \in Posts /\ post'[q] = post[q] /\ file' = file /\ time' = time
      BY <2>2, <1>1 DEF ConfigTypeOK
    <3>2. QuietFits(q)
      BY <3>1
    <3> QED
      BY <3>1, <3>2 DEF QuietFits, ModTime
  <2> QED
    BY <2>1, <2>2
<1> QED
  BY <1>4, <1>5, <1>6, <1>7, <1>9, <1>10

\* Before it is quiet, and after it has heard.
LEMMA PlainPostFits ==
  ASSUME ConfigInv, NEW p \in Posts,
         PostConfig(p) \/ RejectPost(p) \/ AnswerPost(p) \/ TimeoutPost(p)
  PROVE  ConfigInv'
<1> USE DEF ConfigInv
<1>1. post[p] \in PostState
  BY DEF ConfigTypeOK
<1>2. PICK s \in PostState :
        /\ post' = [post EXCEPT ![p] = s]
        /\ s.done = post[p].done
        /\ \/ /\ post[p].at = "new" /\ main = "serving"
              /\ s.at \in {"opened", "answered"}
           \/ /\ post[p].at = "subscribed"
              /\ s.at = "leaving"
           \/ /\ post[p].at = "waiting"
              /\ s.at = "leaving"
              /\ s.status \in {post[p].status, "timeout"}
              /\ s.status = "ok" => s.done
  <2>1. CASE PostConfig(p)
    <3>1. CASE file = Missing
      <4> DEFINE s == [post[p] EXCEPT !.at = "answered", !.status = "not found"]
      <4>1. post' = [post EXCEPT ![p] = s]
        BY <2>1, <3>1 DEF PostConfig
      <4>2. s \in PostState /\ s.at = "answered" /\ s.done = post[p].done
        BY <1>1 DEF PostState, Statuses
      <4> HIDE DEF s
      <4> QED
        BY <2>1, <4>1, <4>2 DEF PostConfig
    <3>2. CASE file # Missing
      <4> DEFINE s == [post[p] EXCEPT !.at = "opened"]
      <4>1. post' = [post EXCEPT ![p] = s]
        BY <2>1, <3>2 DEF PostConfig, Goto
      <4>2. s \in PostState /\ s.at = "opened" /\ s.done = post[p].done
        BY <1>1 DEF PostState
      <4> HIDE DEF s
      <4> QED
        BY <2>1, <4>1, <4>2 DEF PostConfig
    <3> QED
      BY <3>1, <3>2
  <2>2. CASE RejectPost(p)
    <3> DEFINE s == [post[p] EXCEPT !.at = "leaving", !.status = "rejected"]
    <3>1. post' = [post EXCEPT ![p] = s]
      BY <2>2 DEF RejectPost
    <3>2. s \in PostState /\ s.at = "leaving" /\ s.done = post[p].done
      BY <1>1 DEF PostState, Statuses
    <3> HIDE DEF s
    <3> QED
      BY <2>2, <3>1, <3>2 DEF RejectPost
  <2>3. CASE AnswerPost(p)
    <3> DEFINE s == [post[p] EXCEPT !.at = "leaving"]
    <3>1. post' = [post EXCEPT ![p] = s]
      BY <2>3 DEF AnswerPost, Goto
    <3>2. /\ s \in PostState /\ s.at = "leaving" /\ s.done = post[p].done
          /\ s.status = post[p].status
      BY <1>1 DEF PostState
    <3> HIDE DEF s
    <3> QED
      BY <2>3, <3>1, <3>2 DEF AnswerPost
  <2>4. CASE TimeoutPost(p)
    <3> DEFINE s == [post[p] EXCEPT !.at = "leaving", !.status = "timeout"]
    <3>1. post' = [post EXCEPT ![p] = s]
      BY <2>4 DEF TimeoutPost
    <3>2. /\ s \in PostState /\ s.at = "leaving" /\ s.done = post[p].done
          /\ s.status = "timeout"
      BY <1>1 DEF PostState, Statuses
    <3> HIDE DEF s
    <3> QED
      BY <2>4, <3>1, <3>2 DEF TimeoutPost
  <2> QED
    BY <2>1, <2>2, <2>3, <2>4
<1>3. UNCHANGED <<file, time, hash, current, subs, mutex, load, watching, watch, main, sources,
                  quiet>>
  BY DEF PostConfig, RejectPost, AnswerPost, TimeoutPost, fileVars, configVars
<1>4. post'[p] = s
  BY <1>2 DEF ConfigTypeOK
<1>5. main \notin {"start", "loading"}
  BY <1>2 DEF PostsFit
<1>6. s.at \in {"new", "opened", "answered"} => p \notin subs'
  BY <1>2, <1>3 DEF PostsFit
<1>7. p \in quiet' => QuietFits(p)'
  <2> SUFFICES ASSUME p \in quiet PROVE QuietFits(p)'
    BY <1>3
  <2>1. QuietFits(p)
    OBVIOUS
  <2>2. post[p].at = "waiting"
    BY <2>1, <1>2 DEF QuietFits
  <2> QED
    BY <2>1, <2>2, <1>2, <1>3, <1>4 DEF QuietFits, ModTime
<1>8. file' \in Files /\ time' \in Nat
  BY <1>3 DEF ConfigTypeOK
<1> QED
  BY <1>2, <1>3, <1>5, <1>6, <1>7, <1>8, PostSteps

LEMMA SubscribePostFits ==
  ASSUME ConfigInv, NEW p \in Posts, SubscribePost(p)
  PROVE  ConfigInv'
<1> USE DEF ConfigInv
<1> DEFINE s == [post[p] EXCEPT !.at = "subscribed", !.done = (current # Nobody),
                                !.status = IF current # Nobody THEN "ok" ELSE post[p].status]
<1>1. /\ post[p].at = "opened" /\ mutex = Nobody /\ subs' = subs \cup {p}
      /\ post' = [post EXCEPT ![p] = s]
      /\ UNCHANGED <<file, time, hash, current, mutex, load, watching, watch, main, sources,
                     quiet>>
  BY DEF SubscribePost, fileVars
<1>2. s \in PostState /\ s.at = "subscribed"
  <2>1. post[p] \in PostState
    BY DEF ConfigTypeOK
  <2>2. CASE current # Nobody
    <3>1. s = [post[p] EXCEPT !.at = "subscribed", !.done = TRUE, !.status = "ok"]
      BY <2>2
    <3> QED
      BY <2>1, <3>1 DEF PostState, Statuses
  <2>3. CASE current = Nobody
    <3>1. s = [post[p] EXCEPT !.at = "subscribed", !.done = FALSE, !.status = @]
      BY <2>3
    <3> QED
      BY <2>1, <3>1 DEF PostState, Statuses
  <2> QED
    BY <2>2, <2>3
<1> HIDE DEF s
<1>3. main \notin {"start", "loading"} /\ p \notin quiet
  BY <1>1 DEF PostsFit, QuietFits
<1>4. file' \in Files /\ time' \in Nat
  BY <1>1 DEF ConfigTypeOK
<1> QED
  BY <1>1, <1>2, <1>3, <1>4, PostSteps

\* What has been heard does not change when the subscription ends.
LEMMA UnsubscribePostFits ==
  ASSUME ConfigInv, NEW p \in Posts, UnsubscribePost(p)
  PROVE  ConfigInv'
<1> USE DEF ConfigInv
<1> DEFINE s == [post[p] EXCEPT !.at = "answered"]
<1>1. /\ post[p].at = "leaving" /\ mutex = Nobody /\ subs' = subs \ {p}
      /\ post' = [post EXCEPT ![p] = s]
      /\ UNCHANGED <<file, time, hash, current, mutex, load, watching, watch, main, sources,
                     quiet>>
  BY DEF UnsubscribePost, MayUnsubscribe, Goto, fileVars
<1>2. s \in PostState /\ s.at = "answered" /\ s.done = post[p].done /\ s.status = post[p].status
  <2>1. post[p] \in PostState
    BY DEF ConfigTypeOK
  <2> QED
    BY <2>1 DEF PostState
<1>3. post'[p] = s
  BY <1>1 DEF ConfigTypeOK
<1> HIDE DEF s
<1>4. main \notin {"start", "loading"}
  BY <1>1 DEF PostsFit
<1>5. p \in quiet' => QuietFits(p)'
  <2> SUFFICES ASSUME p \in quiet PROVE QuietFits(p)'
    BY <1>1
  <2>1. QuietFits(p)
    OBVIOUS
  <2> QED
    BY <2>1, <1>1, <1>2, <1>3 DEF QuietFits, ModTime
<1>6. file' \in Files /\ time' \in Nat
  BY <1>1 DEF ConfigTypeOK
<1> QED
  BY <1>1, <1>2, <1>4, <1>5, <1>6, PostSteps

\* A POST is quiet if the watch thread has settled.
LEMMA ResetPostFits ==
  ASSUME ConfigInv, NEW p \in Posts, ResetPost(p)
  PROVE  ConfigInv'
<1> USE DEF ConfigInv
<1> DEFINE s == [post[p] EXCEPT !.at = "reset", !.done = FALSE]
<1>1. /\ post[p].at = "subscribed" /\ Body[p] # Invalid
      /\ post' = [post EXCEPT ![p] = s]
      /\ quiet' = IF Settled THEN quiet \cup {p} ELSE quiet
      /\ UNCHANGED <<file, time, hash, current, subs, mutex, load, watching, watch, main, sources>>
  BY DEF ResetPost, Undone, fileVars, configVars
<1>2. s \in PostState /\ s.at = "reset" /\ ~s.done
  <2>1. post[p] \in PostState
    BY DEF ConfigTypeOK
  <2> QED
    BY <2>1 DEF PostState
<1>3. post'[p] = s
  BY <1>1 DEF ConfigTypeOK
<1> HIDE DEF s
<1>4. main \notin {"start", "loading"} /\ p \notin quiet
  BY <1>1 DEF PostsFit, QuietFits
<1>5. Body[p] \in Contents
  BY <1>1, ConfigAssumption
<1>6. p \in quiet' => QuietFits(p)'
  <2> SUFFICES ASSUME Settled PROVE QuietFits(p)'
    BY <1>1, <1>4
  <2>1. watch.last = ModTime /\ watch.at = "sleeping" /\ load["watch"] = NotLoading
    BY DEF Settled, ThreadsFit
  <2> QED
    BY <2>1, <1>1, <1>2, <1>3 DEF QuietFits, ModTime
<1>7. file' \in Files /\ time' \in Nat
  BY <1>1 DEF ConfigTypeOK
<1> QED
  BY <1>1, <1>2, <1>4, <1>5, <1>6, <1>7, PostSteps

LEMMA TruncateFileFits ==
  ASSUME ConfigInv, NEW p \in Posts, TruncateFile(p)
  PROVE  ConfigInv'
<1> USE DEF ConfigInv
<1> DEFINE s == [post[p] EXCEPT !.at = "writing"]
<1>1. /\ post[p].at = "reset" /\ post' = [post EXCEPT ![p] = s]
      /\ file' = Empty /\ time' = time + 1 /\ quiet' = quiet \cap {p}
      /\ UNCHANGED <<hash, current, subs, mutex, load, watching, watch, main, sources>>
  BY DEF TruncateFile, Write, Goto, configVars
<1>2. s \in PostState /\ s.at = "writing" /\ s.done = post[p].done
  <2>1. post[p] \in PostState
    BY DEF ConfigTypeOK
  <2> QED
    BY <2>1 DEF PostState
<1>3. post'[p] = s
  BY <1>1 DEF ConfigTypeOK
<1> HIDE DEF s
<1>4. main \notin {"start", "loading"} /\ Body[p] \in Contents
  BY <1>1 DEF PostsFit
<1>5. p \in quiet' => QuietFits(p)'
  <2> SUFFICES ASSUME p \in quiet PROVE QuietFits(p)'
    BY <1>1
  <2>1. QuietFits(p)
    OBVIOUS
  <2> QED
    BY <2>1, <1>1, <1>2, <1>3 DEF QuietFits, NotLoading
<1>6. file' \in Files /\ time' \in Nat
  BY <1>1 DEF ConfigTypeOK, Files
<1> QED
  BY <1>1, <1>2, <1>4, <1>5, <1>6, PostSteps

LEMMA WriteFileFits ==
  ASSUME ConfigInv, NEW p \in Posts, WriteFile(p)
  PROVE  ConfigInv'
<1> USE DEF ConfigInv
<1> DEFINE s == [post[p] EXCEPT !.at = "waiting"]
<1>1. /\ post[p].at = "writing" /\ post' = [post EXCEPT ![p] = s]
      /\ file' = Body[p] /\ time' = time + 1 /\ quiet' = quiet \cap {p}
      /\ UNCHANGED <<hash, current, subs, mutex, load, watching, watch, main, sources>>
  BY DEF WriteFile, Write, Goto, configVars
<1>2. s \in PostState /\ s.at = "waiting" /\ s.done = post[p].done /\ s.status = post[p].status
  <2>1. post[p] \in PostState
    BY DEF ConfigTypeOK
  <2> QED
    BY <2>1 DEF PostState
<1>3. post'[p] = s
  BY <1>1 DEF ConfigTypeOK
<1> HIDE DEF s
<1>4. main \notin {"start", "loading"} /\ Body[p] \in Contents
  BY <1>1 DEF PostsFit
<1>5. p \in quiet' => QuietFits(p)'
  <2> SUFFICES ASSUME p \in quiet PROVE QuietFits(p)'
    BY <1>1
  <2>1. QuietFits(p)
    OBVIOUS
  <2> QED
    BY <2>1, <1>1, <1>2, <1>3 DEF QuietFits
<1>6. file' \in Files /\ time' \in Nat
  BY <1>1, <1>4 DEF ConfigTypeOK, Files
<1> QED
  BY <1>1, <1>2, <1>4, <1>5, <1>6, PostSteps

\* No POST stays quiet.
LEMMA EditFileFits ==
  ASSUME ConfigInv, EditFile
  PROVE  ConfigInv'
<1> USE DEF ConfigInv
<1>1. /\ file' \in Contents \cup {Missing} /\ time' = time + 1 /\ quiet' = quiet \cap {Nobody}
      /\ UNCHANGED <<hash, current, subs, mutex, load, watching, watch, main, sources, post>>
  BY DEF EditFile, Write, configVars
<1>2. quiet' = {}
  BY <1>1, ConfigAssumption DEF ConfigTypeOK
<1>3. ConfigTypeOK'
  BY <1>1, <1>2 DEF ConfigTypeOK, Files
<1>4. MutexFits'
  BY <1>1 DEF MutexFits, Crashed
<1>5. ThreadsFit'
  BY <1>1 DEF ThreadsFit
<1>6. SourcesFit'
  BY <1>1 DEF SourcesFit, Crashed
<1>7. PostsFit'
  BY <1>1 DEF PostsFit
<1> QED
  BY <1>2, <1>3, <1>4, <1>5, <1>6, <1>7

----------------------------------------------------------------------------
(* The invariant                                                           *)

LEMMA InitFits == Init => ConfigInv
<1> SUFFICES ASSUME Init PROVE ConfigInv
  OBVIOUS
<1> USE DEF Init
<1>1. ConfigTypeOK
  <2>1. [at |-> "new", done |-> FALSE, status |-> "none"] \in PostState
    BY DEF PostState, Statuses
  <2>2. post \in [Posts -> PostState]
    BY <2>1
  <2>3. load \in [Loaders -> LoadState]
    BY NewLoadStates
  <2>4. watch \in WatchState
    BY DEF WatchState, NoTime
  <2>5. file \in Files
    BY ConfigAssumption DEF Files
  <2> QED
    BY <2>2, <2>3, <2>4, <2>5 DEF ConfigTypeOK, Subscribers
<1>2. \A th \in Loaders : load[th] = NotLoading /\ NotLoading.at = "none"
  BY DEF NotLoading
<1>3. Nobody \notin Loaders /\ Service \notin Posts
  BY ConfigAssumption DEF Loaders, Service
<1>4. MutexFits
  BY <1>2, <1>3 DEF MutexFits, Crashed
<1>5. ThreadsFit
  BY <1>2 DEF ThreadsFit, Loaders
<1>6. SourcesFit
  BY DEF SourcesFit
<1>7. PostsFit
  <2>1. \A p \in Posts : post[p].at = "new"
    OBVIOUS
  <2> QED
    BY <2>1, <1>3 DEF PostsFit
<1> QED
  BY <1>1, <1>4, <1>5, <1>6, <1>7 DEF ConfigInv

LEMMA StepFits == ConfigInv /\ [Next]_vars => ConfigInv'
<1> SUFFICES ASSUME ConfigInv, [Next]_vars
             PROVE  ConfigInv'
  OBVIOUS
<1>1. ASSUME NEW th \in Loaders, LoadStep(th) PROVE ConfigInv'
  BY <1>1, ReadFileFits, ParseFileFits, ApplyConfigFits, NotifyNextFits, CrashFits,
     FinishLoadFits, CallNextFits, NotifyErrorFits, FinishFailedFits DEF LoadStep
<1>2. ASSUME WatchStep PROVE ConfigInv'
  BY <1>2, WatchStepFits
<1>3. ASSUME MainStep \/ DestroyService PROVE ConfigInv'
  BY <1>3, LoadFirstFits, OtherMainStepFits DEF MainStep
<1>4. ASSUME NEW p \in Posts, PostConfig(p) \/ PostStep(p) \/ TimeoutPost(p) PROVE ConfigInv'
  BY <1>4, PlainPostFits, SubscribePostFits, UnsubscribePostFits, ResetPostFits,
     TruncateFileFits, WriteFileFits DEF PostStep
<1>5. ASSUME EditFile PROVE ConfigInv'
  BY <1>5, EditFileFits
<1>6. CASE UNCHANGED vars
  BY <1>6 DEF vars, fileVars, configVars, ConfigInv, ConfigTypeOK, MutexFits, ThreadsFit, SourcesFit,
              PostsFit, QuietFits, ModTime, Crashed
<1> QED
  BY <1>1, <1>2, <1>3, <1>4, <1>5, <1>6 DEF Next

----------------------------------------------------------------------------
(* Theorems                                                                *)

\* Whoever calls the subscribers holds the mutex; the service has the sources of
\* the current configuration once it has been told of it; and what is loaded since
\* a quiet POST wrote the file is what it wrote (config.cpp, http-service.cpp).
THEOREM ConfigInvariant == Spec => []ConfigInv
<1>1. Init => ConfigInv
  BY InitFits
<1>2. ConfigInv /\ [Next]_vars => ConfigInv'
  BY StepFits
<1> QED
  BY <1>1, <1>2, PTL DEF Spec

\* The sources of the service are those of the current configuration whenever nobody
\* is calling subscribers (Service's callback, DataSourceConfigService::loadConfig).
THEOREM SourcesFollowTheConfig == Spec => []ServiceRunsConfig
<1>1. ConfigInv => ServiceRunsConfig
  <2> SUFFICES ASSUME ConfigInv, ~Crashed, mutex = Nobody, Service \in subs
               PROVE  sources = IF current = Nobody THEN {} ELSE SourcesOf[current]
    BY DEF ServiceRunsConfig
  <2>1. \A th \in Loaders : load[th].at # "notify"
    BY ConfigAssumption DEF ConfigInv, MutexFits, Loaders
  <2> QED
    BY <2>1 DEF ConfigInv, SourcesFit
<1> QED
  BY <1>1, ConfigInvariant, PTL

\* A POST /config that nobody else interferes with and that reports a success has
\* its configuration applied (postConfig).
THEOREM SuccessMeansApplied == Spec => []PostTellsApplied
<1>1. ConfigInv => PostTellsApplied
  BY DEF ConfigInv, QuietFits, PostTellsApplied
<1> QED
  BY <1>1, ConfigInvariant, PTL

\* No callback that reports a success to a POST runs after the handler returned
\* (unsubscribe takes the mutex under which they are called).
THEOREM NoSuccessAfterAnswer == Spec => AnswersAreFinal
<1> DEFINE Step(p) == post[p].at = "answered" /\ post'[p] # post[p] => post'[p].status = "error"
<1>1. ASSUME ConfigInv, [Next]_vars, NEW p \in Posts PROVE Step(p)
  <2>1. ASSUME NEW th \in Loaders, NotifyNext(th) PROVE Step(p)
    <3> SUFFICES ASSUME post[p].at = "answered" PROVE post'[p] = post[p]
      OBVIOUS
    <3>1. PICK x \in load[th].left : IF x # Service THEN Tell(x, "ok") ELSE UNCHANGED post
      BY <2>1 DEF NotifyNext
    <3>2. load[th].left \subseteq subs /\ p \notin subs /\ subs \subseteq Subscribers
      BY <1>1, <2>1 DEF ConfigInv, MutexFits, PostsFit, NotifyNext, ConfigTypeOK
    <3>3. CASE x = Service
      BY <3>1, <3>3
    <3>4. CASE x # Service
      <4>1. x \in Posts /\ x # p /\ Tell(x, "ok")
        BY <3>1, <3>2, <3>4 DEF Subscribers
      <4> QED
        BY <4>1, <1>1, Told DEF ConfigInv
    <3> QED
      BY <3>3, <3>4
  <2>2. ASSUME NEW th \in Loaders, NotifyError(th) PROVE Step(p)
    <3>1. load[th].to \in Posts /\ Tell(load[th].to, "error")
      BY <2>2, <1>1, LoadStates DEF NotifyError, ConfigInv
    <3> QED
      BY <3>1, <1>1, Told DEF ConfigInv
  <2>3. ASSUME NEW th \in Loaders, Crash(th) PROVE Step(p)
    BY <2>3, <1>1 DEF Crash
  <2>4. ASSUME NEW q \in Posts, PostConfig(q) \/ PostStep(q) \/ TimeoutPost(q) PROVE Step(p)
    <3>1. post[q].at # "answered" /\ \E s : post' = [post EXCEPT ![q] = s]
      BY <2>4 DEF PostConfig, PostStep, TimeoutPost, SubscribePost, RejectPost, ResetPost,
                  TruncateFile, WriteFile, AnswerPost, UnsubscribePost, Goto
    <3> QED
      BY <3>1, <1>1 DEF ConfigInv, ConfigTypeOK
  <2>5. ASSUME UNCHANGED post PROVE Step(p)
    BY <2>5
  <2>6. ASSUME NEW th \in Loaders,
               \/ ReadFile(th) \/ ParseFile(th) \/ ApplyConfig(th) \/ FinishLoad(th)
               \/ CallNext(th) \/ FinishFailed(th)
        PROVE  UNCHANGED post
    BY <2>6 DEF ReadFile, ParseFile, ApplyConfig, FinishLoad, CallNext, FinishFailed
  <2>7. ASSUME EditFile \/ WatchStep \/ MainStep \/ DestroyService PROVE UNCHANGED post
    BY <2>7 DEF EditFile, WatchStep, MainStep, WatchStart, WatchCheck, WatchPoll, LoadFirst,
                StartWatch, EndWatch, JoinWatch, DestroyService
  <2>8. ASSUME UNCHANGED vars PROVE UNCHANGED post
    BY <2>8 DEF vars
  <2> HIDE DEF Step
  <2> QED
    BY <1>1, <2>1, <2>2, <2>3, <2>4, <2>5, <2>6, <2>7, <2>8 DEF Next, LoadStep
<1>2. ConfigInv /\ [Next]_vars => [\A p \in Posts : Step(p)]_vars
  BY <1>1
<1> QED
  BY <1>2, ConfigInvariant, PTL DEF Spec, AnswersAreFinal
===============================================================================
