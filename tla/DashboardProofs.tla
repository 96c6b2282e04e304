-------------------------- MODULE DashboardProofs --------------------------
(***************************************************************************)
(* Theorems about the dashboard, for any endpoints, links and number of    *)
(* things the user does.                                                   *)
(***************************************************************************)
EXTENDS Dashboard, TLAPS

-----------------------------------------------------------------------------
(* The inductive invariant *)

\* A load that is awaited belongs to one attempt, which waits for nothing
\* else while the load is under way.
LoadsAreAwaited ==
    \A i \in DOMAIN loads :
        loads[i].awaited =>
            /\ attempts[loads[i].via].phase # "handshake"
            /\ loads[i].phase = "loading" => attempts[loads[i].via].phase = "loading"
            /\ \A j \in DOMAIN loads :
                  loads[j].awaited /\ loads[j].via = loads[i].via => i = j

\* The latest attempt has the connection once its handshake succeeded, and
\* nobody else has it once the attempt is over.
LatestIsConnected ==
    /\ connected => connection > 0
    /\ connected /\ ~ connecting => connection = Current
    /\ Current > 0 /\ attempts[Current].phase = "loading"
          => connected /\ connection = Current

\* Unless the effect that says otherwise is due, the field and the timer name
\* the target, and so does the latest attempt when no timer is pending.
TargetIsWanted ==
    "auto" \notin due =>
        /\ rpcUrl = Target
        /\ timer \in {Target, None}
        /\ timer = None /\ Current > 0 => attempts[Current].url = Target

\* Unless the metadata effect is due, no titles are shown or on their way
\* while the endpoint field names another cluster.
TitlesBelong ==
    "metadata" \notin due /\ detectCluster(rpcUrl) # "devnet" =>
        metadata = "empty" /\ fetching = "none"

Fresh == [client |-> connection, of |-> shown]

\* The index belongs to the validators tab.  Unless its effect is due, the job
\* and the index, if there are any, are for what is on screen.
IndexIsFresh ==
    /\ tab # "validators" =>
          job = NoJob /\ index = NoJob /\ "index" \notin due
    /\ "index" \notin due =>
          /\ job # NoJob => job = Fresh
          /\ job = NoJob /\ index # NoJob => index = Fresh

DashInv ==
    /\ DashTypeOK
    /\ LoadsAreAwaited
    /\ ConnectingTracksLatest
    /\ LatestIsConnected
    /\ TargetIsWanted
    /\ TitlesBelong
    /\ IndexIsFresh

-----------------------------------------------------------------------------
(* Types *)

LEMMA TargetType ==
    ASSUME DashTypeOK
    PROVE  Target \in Urls
BY DashboardAssumption DEF Target, DashTypeOK

LEMMA DashTypeInit == DashInit => DashTypeOK
<1> SUFFICES ASSUME DashInit PROVE DashTypeOK
  OBVIOUS
<1>1. rpcFromUrl \in Links /\ rpcUrl \in Urls
  BY DashboardAssumption DEF DashInit, Target
<1>2. attempts \in Seq(AttemptRecord) /\ loads \in Seq(LoadRecord)
  BY DEF DashInit
<1>3. connection \in 0 .. Len(attempts) /\ shown \in 0 .. Len(loads)
  BY DEF DashInit
<1>4. job \in Job \cup {NoJob} /\ index \in Job \cup {NoJob}
  BY DEF DashInit
<1>5. connected \in BOOLEAN /\ connecting \in BOOLEAN /\ loading \in BOOLEAN
  BY DEF DashInit
<1>6. events \in 0 .. MaxEvents
  BY DashboardAssumption DEF DashInit
<1>7. /\ typed \in Urls \cup {None} /\ timer \in Urls \cup {None}
      /\ due \subseteq {"auto", "metadata", "index"}
      /\ metadata \in {"titles", "empty"} /\ fetching \in {"none", "api", "static"}
      /\ tab \in {"campaigns", "validators"}
  BY DEF DashInit
<1> QED BY <1>1, <1>2, <1>3, <1>4, <1>5, <1>6, <1>7 DEF DashTypeOK

LEMMA ConnectTypes ==
    ASSUME DashTypeOK, NEW url \in Urls, ConnectAndLoad(url)
    PROVE  /\ attempts' \in Seq(AttemptRecord)
           /\ Len(attempts') = Len(attempts) + 1
           /\ connecting' \in BOOLEAN
           /\ attempts'[Current + 1] = [url |-> url, phase |-> "handshake"]
           /\ \A j \in DOMAIN attempts : attempts'[j] = attempts[j]
BY DEF ConnectAndLoad, DashTypeOK, AttemptRecord, Current

LEMMA AttemptAtTypes ==
    ASSUME DashTypeOK, NEW i \in DOMAIN attempts,
           NEW phase \in {"handshake", "loading", "over"}
    PROVE  /\ AttemptAt(i, phase) \in Seq(AttemptRecord)
           /\ Len(AttemptAt(i, phase)) = Len(attempts)
           /\ AttemptAt(i, phase)[i] = [url |-> attempts[i].url,
                                       phase |-> phase]
           /\ \A j \in DOMAIN attempts \ {i} :
                  AttemptAt(i, phase)[j] = attempts[j]
<1>1. attempts \in Seq(AttemptRecord) /\ attempts[i] \in AttemptRecord
  BY DEF DashTypeOK
<1>2. [attempts[i] EXCEPT !.phase = phase] = [url |-> attempts[i].url,
                                              phase |-> phase]
  BY <1>1 DEF AttemptRecord
<1>3. AttemptAt(i, phase) = [attempts EXCEPT ![i] = [url |-> attempts[i].url,
                                                     phase |-> phase]]
  BY <1>2 DEF AttemptAt
<1>4. [url |-> attempts[i].url, phase |-> phase] \in AttemptRecord
  BY <1>1 DEF AttemptRecord
<1> QED BY <1>1, <1>3, <1>4

LEMMA LoadTypes ==
    ASSUME DashTypeOK, NEW i \in 1 .. Len(attempts), NEW awaited \in BOOLEAN,
           LoadCampaigns(i, awaited)
    PROVE  /\ loads' \in Seq(LoadRecord)
           /\ Len(loads') = Len(loads) + 1
           /\ loading' \in BOOLEAN
           /\ loads'[Len(loads) + 1] = [via |-> i, awaited |-> awaited,
                                        phase |-> "loading"]
           /\ \A j \in DOMAIN loads : loads'[j] = loads[j]
<1>1. [via |-> i, awaited |-> awaited, phase |-> "loading"] \in LoadRecord
  BY DEF LoadRecord
<1>2. loads \in Seq(LoadRecord)
  BY DEF DashTypeOK
<1> QED BY <1>1, <1>2 DEF LoadCampaigns

LEMMA DueTypes ==
    ASSUME DashTypeOK, NEW effects \in SUBSET {"auto", "metadata", "index"},
           Due(effects)
    PROVE  due' \subseteq {"auto", "metadata", "index"}
BY DEF Due, DashTypeOK

\* What a longer list of attempts or loads leaves typed.
LEMMA GrownTypes ==
    ASSUME DashTypeOK, Len(attempts') >= Len(attempts), Len(attempts') \in Nat,
           Len(loads') >= Len(loads), Len(loads') \in Nat
    PROVE  /\ connection \in 0 .. Len(attempts')
           /\ loads \in Seq(LoadRecord')
           /\ shown \in 0 .. Len(loads')
           /\ job \in Job' \cup {NoJob} /\ index \in Job' \cup {NoJob}
<1>1. /\ attempts \in Seq(AttemptRecord) /\ loads \in Seq(LoadRecord)
      /\ connection \in 0 .. Len(attempts) /\ shown \in 0 .. Len(loads)
      /\ job \in Job \cup {NoJob} /\ index \in Job \cup {NoJob}
  BY DEF DashTypeOK
<1>2. Len(attempts) \in Nat /\ Len(loads) \in Nat
  BY <1>1
<1>3. 1 .. Len(attempts) \subseteq 1 .. Len(attempts')
  BY <1>2
<1>4. 1 .. Len(loads) \subseteq 1 .. Len(loads')
  BY <1>2
<1>5. LoadRecord \subseteq LoadRecord'
  BY <1>3 DEF LoadRecord
<1>6. Job \subseteq Job'
  BY <1>3, <1>4 DEF Job
<1>7. loads \in Seq(LoadRecord')
  BY <1>1, <1>5
<1> QED BY <1>1, <1>2, <1>6, <1>7

UserTypes ==
    /\ rpcFromUrl \in Links /\ rpcUrl \in Urls
    /\ typed \in Urls \cup {None} /\ timer \in Urls \cup {None}
    /\ due \subseteq {"auto", "metadata", "index"}
    /\ tab \in {"campaigns", "validators"}
    /\ events \in 0 .. MaxEvents

LinkTypes ==
    /\ attempts \in Seq(AttemptRecord)
    /\ connection \in 0 .. Len(attempts)
    /\ connected \in BOOLEAN /\ connecting \in BOOLEAN

ListTypes ==
    /\ loads \in Seq(LoadRecord) /\ loading \in BOOLEAN
    /\ shown \in 0 .. Len(loads)

PanelTypes ==
    /\ metadata \in {"titles", "empty"}
    /\ fetching \in {"none", "api", "static"}
    /\ job \in Job \cup {NoJob} /\ index \in Job \cup {NoJob}

LEMMA TypeParts ==
    DashTypeOK <=> UserTypes /\ LinkTypes /\ ListTypes /\ PanelTypes
BY DEF DashTypeOK, UserTypes, LinkTypes, ListTypes, PanelTypes

LEMMA Lengths ==
    ASSUME DashTypeOK
    PROVE  Len(attempts) \in Nat /\ Len(loads) \in Nat
BY DEF DashTypeOK

LEMMA UserMayTypes ==
    ASSUME DashTypeOK, UserMay
    PROVE  events' \in 0 .. MaxEvents
BY DashboardAssumption DEF UserMay, DashTypeOK

LEMMA TypeUser == ASSUME DashTypeOK, User PROVE DashTypeOK'
<1> USE DEF UserTypes, LinkTypes, ListTypes, PanelTypes
<1>0. UserTypes /\ LinkTypes /\ ListTypes /\ PanelTypes
  BY TypeParts
<1>1. ASSUME NEW param \in Links, Navigate(param) PROVE DashTypeOK'
  <2>1. due' \subseteq {"auto", "metadata", "index"}
    BY <1>1, DueTypes DEF Navigate
  <2>2. UserTypes'
    BY <1>0, <1>1, <2>1, UserMayTypes DEF Navigate, effectVars
  <2>3. /\ LinkTypes' /\ ListTypes' /\ PanelTypes'
    BY <1>0, <1>1
       DEF Navigate, effectVars, linkVars, loadVars, indexVars, LoadRecord, Job
  <2> QED BY <2>2, <2>3 DEF DashTypeOK
<1>2. ASSUME NEW url \in Urls, Type(url) PROVE DashTypeOK'
  <2>1. due' \subseteq {"auto", "metadata", "index"}
    BY <1>2, DueTypes DEF Type
  <2>2. UserTypes'
    BY <1>0, <1>2, <2>1, UserMayTypes DEF Type
  <2>3. /\ LinkTypes' /\ ListTypes' /\ PanelTypes'
    BY <1>0, <1>2 DEF Type, linkVars, loadVars, indexVars, LoadRecord, Job
  <2> QED BY <2>2, <2>3 DEF DashTypeOK
<1>3. ASSUME Click PROVE DashTypeOK'
  <2>1. /\ attempts' \in Seq(AttemptRecord) /\ connecting' \in BOOLEAN
        /\ Len(attempts') = Len(attempts) + 1
    BY <1>0, <1>3, ConnectTypes DEF Click
  <2>2. UserTypes'
    BY <1>0, <1>3, UserMayTypes DEF Click, effectVars
  <2>3. loads' = loads /\ shown' = shown /\ loading' = loading
        /\ job' = job /\ index' = index /\ connection' = connection
        /\ connected' = connected /\ metadata' = metadata /\ fetching' = fetching
    BY <1>3 DEF Click, ConnectAndLoad, loadVars, indexVars, effectVars
  <2>4. LinkTypes' /\ ListTypes' /\ PanelTypes'
    BY <1>0, <2>1, <2>3, GrownTypes, Lengths DEF AttemptRecord
  <2> QED BY <2>2, <2>4 DEF DashTypeOK
<1>4. ASSUME Refresh PROVE DashTypeOK'
  <2>1. connection \in 1 .. Len(attempts)
    BY <1>0, <1>4 DEF Refresh
  <2>2. /\ loads' \in Seq(LoadRecord) /\ loading' \in BOOLEAN
        /\ Len(loads') = Len(loads) + 1
    BY <1>4, <2>1, LoadTypes DEF Refresh
  <2>3. UserTypes'
    BY <1>0, <1>4, UserMayTypes DEF Refresh, effectVars
  <2>4. /\ attempts' = attempts /\ connection' = connection
        /\ connected' = connected /\ connecting' = connecting
        /\ shown' = shown /\ job' = job /\ index' = index
        /\ metadata' = metadata /\ fetching' = fetching
    BY <1>4 DEF Refresh, linkVars, indexVars, effectVars
  <2>5. LinkTypes' /\ ListTypes' /\ PanelTypes'
    BY <1>0, <2>2, <2>4, GrownTypes, Lengths DEF LoadRecord, AttemptRecord
  <2> QED BY <2>3, <2>5 DEF DashTypeOK
<1>5. ASSUME NEW to \in {"campaigns", "validators"}, OpenTab(to)
      PROVE  DashTypeOK'
  <2>1. events' \in 0 .. MaxEvents
    BY <1>0, <1>5, UserMayTypes DEF OpenTab
  <2>2. UserTypes'
    BY <1>0, <1>5, <2>1 DEF OpenTab, effectVars
  <2>3. LinkTypes' /\ ListTypes' /\ PanelTypes'
    BY <1>0, <1>5 DEF OpenTab, effectVars, linkVars, loadVars, LoadRecord, NoJob
  <2> QED BY <2>2, <2>3 DEF DashTypeOK
<1> QED BY <1>1, <1>2, <1>3, <1>4, <1>5 DEF User

LEMMA TypeEffects == ASSUME DashTypeOK, RunEffects PROVE DashTypeOK'
<1> USE DEF UserTypes, LinkTypes, ListTypes, PanelTypes
<1>0. UserTypes /\ LinkTypes /\ ListTypes /\ PanelTypes
  BY TypeParts
<1>1. rpcUrl' \in Urls /\ timer' \in Urls \cup {None}
      /\ due' \subseteq {"auto", "metadata", "index"}
  BY <1>0, TargetType DEF RunEffects, AutoConnect
<1>2. metadata' \in {"titles", "empty"} /\ fetching' \in {"none", "api", "static"}
  BY <1>0 DEF RunEffects, FetchMetadata
<1>3. UserTypes'
  BY <1>0, <1>1 DEF RunEffects, userVars
<1>4. LinkTypes' /\ ListTypes'
  BY <1>0 DEF RunEffects, linkVars, loadVars, LoadRecord
<1>5. connection # 0 /\ shown # 0
        => [client |-> connection, of |-> shown] \in Job
  BY <1>0 DEF Job
<1>6. job' \in Job \cup {NoJob} /\ index' \in Job \cup {NoJob}
  BY <1>0, <1>5 DEF RunEffects, BuildIndex, indexVars
<1>7. Job' = Job
  BY DEF RunEffects, linkVars, loadVars, Job
<1>8. PanelTypes'
  BY <1>2, <1>6, <1>7
<1> QED BY <1>3, <1>4, <1>8 DEF DashTypeOK

LEMMA TypeTimer == ASSUME DashTypeOK, TimerFires PROVE DashTypeOK'
<1> USE DEF UserTypes, LinkTypes, ListTypes, PanelTypes
<1>0. UserTypes /\ LinkTypes /\ ListTypes /\ PanelTypes
  BY TypeParts
<1>1. timer \in Urls
  BY <1>0 DEF TimerFires
<1>2. /\ attempts' \in Seq(AttemptRecord) /\ connecting' \in BOOLEAN
      /\ Len(attempts') = Len(attempts) + 1
  BY <1>1, ConnectTypes DEF TimerFires
<1>3. UserTypes'
  BY <1>0 DEF TimerFires, userVars
<1>4. loads' = loads /\ shown' = shown /\ loading' = loading
      /\ job' = job /\ index' = index /\ connection' = connection
      /\ connected' = connected /\ metadata' = metadata /\ fetching' = fetching
  BY DEF TimerFires, ConnectAndLoad, loadVars, indexVars
<1>5. LinkTypes' /\ ListTypes' /\ PanelTypes'
  BY <1>0, <1>2, <1>4, GrownTypes, Lengths DEF AttemptRecord
<1> QED BY <1>3, <1>5 DEF DashTypeOK

LEMMA TypeHandshake ==
    ASSUME DashTypeOK, NEW i \in DOMAIN attempts, Handshake(i)
    PROVE  DashTypeOK'
<1> USE DEF UserTypes, LinkTypes, ListTypes, PanelTypes
<1>0. UserTypes /\ LinkTypes /\ ListTypes /\ PanelTypes
  BY TypeParts
<1>1. i \in 1 .. Len(attempts)
  BY <1>0
<1>2. CASE HandshakeOk(i)
  <2>1. attempts' \in Seq(AttemptRecord) /\ Len(attempts') = Len(attempts)
    BY <1>2, AttemptAtTypes DEF HandshakeOk
  <2>2. /\ loads' \in Seq(LoadRecord) /\ loading' \in BOOLEAN
        /\ Len(loads') = Len(loads) + 1
    BY <1>1, <1>2, LoadTypes DEF HandshakeOk
  <2>3. due' \subseteq {"auto", "metadata", "index"}
    BY <1>2, DueTypes DEF HandshakeOk
  <2>4. UserTypes'
    BY <1>0, <1>2, <2>3 DEF HandshakeOk, effectVars, userVars
  <2>5. /\ connection' = i /\ connecting' = connecting /\ shown' = shown
        /\ job' = job /\ index' = index
        /\ metadata' = metadata /\ fetching' = fetching
    BY <1>2 DEF HandshakeOk, indexVars, effectVars
  <2>6. connected' \in BOOLEAN /\ connecting' \in BOOLEAN
    BY <1>0, <1>2, <2>5 DEF HandshakeOk
  <2>7. LinkTypes'
    BY <1>1, <2>1, <2>5, <2>6 DEF AttemptRecord
  <2>8. LoadRecord' = LoadRecord
    BY <2>1 DEF LoadRecord
  <2>9. ListTypes' /\ PanelTypes'
    BY <1>0, <2>1, <2>2, <2>5, <2>8, GrownTypes, Lengths
  <2> QED BY <2>4, <2>7, <2>9 DEF DashTypeOK
<1>3. CASE HandshakeFails(i)
  <2>1. attempts' \in Seq(AttemptRecord) /\ Len(attempts') = Len(attempts)
    BY <1>3, AttemptAtTypes DEF HandshakeFails
  <2>2. due' \subseteq {"auto", "metadata", "index"}
    BY <1>3, DueTypes DEF HandshakeFails
  <2>3. UserTypes'
    BY <1>0, <1>3, <2>2 DEF HandshakeFails, effectVars, userVars
  <2>4. /\ connection' = connection /\ loads' = loads /\ loading' = loading
        /\ shown' = shown /\ job' = job /\ index' = index
        /\ metadata' = metadata /\ fetching' = fetching
    BY <1>3 DEF HandshakeFails, loadVars, indexVars, effectVars
  <2>5. connected' \in BOOLEAN /\ connecting' \in BOOLEAN
    BY <1>3 DEF HandshakeFails
  <2>6. LinkTypes'
    BY <1>0, <2>1, <2>4, <2>5 DEF AttemptRecord
  <2>7. LoadRecord' = LoadRecord /\ Job' = Job
    BY <2>1, <2>4 DEF LoadRecord, Job
  <2>8. ListTypes' /\ PanelTypes'
    BY <1>0, <2>4, <2>7
  <2> QED BY <2>3, <2>6, <2>8 DEF DashTypeOK
<1> QED BY <1>2, <1>3 DEF Handshake

\* The end of a load leaves both lists as long as they were.
LEMMA LoadOverTypes ==
    ASSUME DashTypeOK, NEW i \in DOMAIN loads, LoadOver(i)
    PROVE  /\ attempts' \in Seq(AttemptRecord)
           /\ Len(attempts') = Len(attempts)
           /\ loads' \in Seq(LoadRecord) /\ Len(loads') = Len(loads)
           /\ loads'[i] = [via |-> loads[i].via, awaited |-> loads[i].awaited,
                           phase |-> "over"]
           /\ \A j \in DOMAIN loads \ {i} : loads'[j] = loads[j]
           /\ loads[i].via \in DOMAIN attempts
<1>1. loads \in Seq(LoadRecord) /\ loads[i] \in LoadRecord
      /\ attempts \in Seq(AttemptRecord)
  BY DEF DashTypeOK
<1>2. loads[i].via \in DOMAIN attempts
  BY <1>1 DEF LoadRecord
<1>3. [loads[i] EXCEPT !.phase = "over"]
        = [via |-> loads[i].via, awaited |-> loads[i].awaited, phase |-> "over"]
  <2>1. PICK v \in 1 .. Len(attempts), aw \in BOOLEAN, ph \in {"loading", "over"} :
           loads[i] = [via |-> v, awaited |-> aw, phase |-> ph]
    BY <1>1 DEF LoadRecord
  <2>2. [loads[i] EXCEPT !.phase = "over"] = [via |-> v, awaited |-> aw, phase |-> "over"]
    BY <2>1
  <2> QED BY <2>1, <2>2
<1>4. loads' = [loads EXCEPT ![i] = [via |-> loads[i].via,
                                     awaited |-> loads[i].awaited,
                                     phase |-> "over"]]
  BY <1>3 DEF LoadOver
<1>5. [via |-> loads[i].via, awaited |-> loads[i].awaited, phase |-> "over"]
        \in LoadRecord
  BY <1>1 DEF LoadRecord
<1>6. attempts' = attempts \/ attempts' = AttemptAt(loads[i].via, "over")
  BY DEF LoadOver
<1>7. attempts' \in Seq(AttemptRecord) /\ Len(attempts') = Len(attempts)
  <2>1. /\ AttemptAt(loads[i].via, "over") \in Seq(AttemptRecord)
        /\ Len(AttemptAt(loads[i].via, "over")) = Len(attempts)
    BY <1>2, AttemptAtTypes
  <2> QED BY <1>1, <1>6, <2>1
<1> QED BY <1>1, <1>2, <1>4, <1>5, <1>7

LEMMA TypeLoads ==
    ASSUME DashTypeOK, NEW i \in DOMAIN loads, LoadOk(i) \/ LoadFails(i)
    PROVE  DashTypeOK'
<1> USE DEF UserTypes, LinkTypes, ListTypes, PanelTypes
<1>0. UserTypes /\ LinkTypes /\ ListTypes /\ PanelTypes
  BY TypeParts
<1>1. LoadOver(i)
  BY DEF LoadOk, LoadFails
<1>2. /\ attempts' \in Seq(AttemptRecord) /\ Len(attempts') = Len(attempts)
      /\ loads' \in Seq(LoadRecord) /\ Len(loads') = Len(loads)
  BY <1>1, LoadOverTypes
<1>3. due' \subseteq {"auto", "metadata", "index"}
  BY <1>0, DueTypes DEF LoadOk, LoadFails
<1>4. UserTypes'
  BY <1>0, <1>1, <1>3 DEF LoadOver, effectVars, userVars
<1>5. /\ connection' = connection /\ connected' = connected
      /\ job' = job /\ index' = index
      /\ metadata' = metadata /\ fetching' = fetching
  BY <1>1 DEF LoadOver, indexVars, effectVars
<1>6. connected' \in BOOLEAN /\ connecting' \in BOOLEAN /\ loading' \in BOOLEAN
  BY <1>0, <1>1 DEF LoadOver
<1>7. shown' \in 0 .. Len(loads)
  BY <1>0 DEF LoadOk, LoadFails
<1>8. LoadRecord' = LoadRecord /\ Job' = Job
  BY <1>2 DEF LoadRecord, Job
<1>9. LinkTypes'
  BY <1>0, <1>2, <1>5, <1>6 DEF AttemptRecord
<1>10. ListTypes'
  BY <1>2, <1>6, <1>7, <1>8
<1>11. PanelTypes'
  BY <1>0, <1>5, <1>8
<1> QED BY <1>4, <1>9, <1>10, <1>11 DEF DashTypeOK

LEMMA TypePanels ==
    ASSUME DashTypeOK, MetadataOk \/ MetadataFails \/ IndexBuilt
    PROVE  DashTypeOK'
<1> USE DEF UserTypes, LinkTypes, ListTypes, PanelTypes
<1>0. UserTypes /\ LinkTypes /\ ListTypes /\ PanelTypes
  BY TypeParts
<1>1. due' \subseteq {"auto", "metadata", "index"}
  BY <1>0, DueTypes DEF MetadataOk, MetadataFails, IndexBuilt
<1>2. UserTypes'
  BY <1>0, <1>1 DEF MetadataOk, MetadataFails, IndexBuilt, effectVars, userVars
<1>3. LinkTypes' /\ ListTypes'
  BY <1>0
     DEF MetadataOk, MetadataFails, IndexBuilt, linkVars, loadVars, LoadRecord,
         AttemptRecord
<1>4. metadata' \in {"titles", "empty"} /\ fetching' \in {"none", "api", "static"}
  BY <1>0 DEF MetadataOk, MetadataFails, IndexBuilt, effectVars
<1>5. job' \in Job \cup {NoJob} /\ index' \in Job \cup {NoJob}
  BY <1>0 DEF MetadataOk, MetadataFails, IndexBuilt, indexVars
<1>6. Job' = Job
  BY DEF MetadataOk, MetadataFails, IndexBuilt, linkVars, loadVars, Job
<1> QED BY <1>2, <1>3, <1>4, <1>5, <1>6 DEF DashTypeOK

LEMMA DashTypeStep ==
    ASSUME DashTypeOK, [DashNext]_dashVars
    PROVE  DashTypeOK'
<1>1. CASE UNCHANGED dashVars
  BY <1>1
     DEF dashVars, effectVars, linkVars, loadVars, indexVars, userVars,
         DashTypeOK, AttemptRecord, LoadRecord, Job
<1> QED
  BY <1>1, TypeUser, TypeEffects, TypeTimer, TypeHandshake, TypeLoads,
     TypePanels
     DEF DashNext

\* The dashboard's variables always have their types: the lists of attempts
\* and loads only grow, and what refers to their members stays inside them.
THEOREM DashTypeCorrect == DashSpec => []DashTypeOK
<1>1. DashInit => DashTypeOK
  BY DashTypeInit
<1>2. DashTypeOK /\ [DashNext]_dashVars => DashTypeOK'
  BY DashTypeStep
<1> QED BY <1>1, <1>2, PTL DEF DashSpec

-----------------------------------------------------------------------------
(* The field, the timer and the target *)

\* Only the end of the list of attempts matters to the endpoint in use, and
\* what happens to an attempt does not change its endpoint.
LEMMA LatestUrl ==
    ASSUME DashTypeOK, NEW i \in DOMAIN attempts,
           NEW phase \in {"handshake", "loading", "over"},
           attempts' = AttemptAt(i, phase) \/ attempts' = attempts
    PROVE  /\ Len(attempts') = Len(attempts)
           /\ Len(attempts) > 0
                 => attempts'[Len(attempts)].url = attempts[Len(attempts)].url
<1>1. Len(attempts) \in Nat /\ DOMAIN attempts = 1 .. Len(attempts)
  BY DEF DashTypeOK
<1>2. CASE attempts' = attempts
  BY <1>2
<1>3. CASE attempts' = AttemptAt(i, phase)
  <2>1. /\ Len(attempts') = Len(attempts)
        /\ attempts'[i] = [url |-> attempts[i].url, phase |-> phase]
        /\ \A j \in DOMAIN attempts \ {i} : attempts'[j] = attempts[j]
    BY <1>3, AttemptAtTypes
  <2>2. attempts'[i].url = attempts[i].url
    BY <2>1
  <2>3. CASE i = Len(attempts)
    BY <2>1, <2>2, <2>3
  <2>4. CASE i # Len(attempts)
    BY <1>1, <2>1, <2>4
  <2> QED BY <2>3, <2>4
<1> QED BY <1>2, <1>3

LEMMA TargetStep ==
    ASSUME DashTypeOK, TargetIsWanted, [DashNext]_dashVars
    PROVE  TargetIsWanted'
<1> USE DEF TargetIsWanted, Target, Current
<1>1. CASE UNCHANGED dashVars
  BY <1>1 DEF dashVars, effectVars, linkVars, userVars
<1>2. ASSUME NEW param \in Links, Navigate(param) PROVE TargetIsWanted'
  BY <1>2 DEF Navigate, Due
<1>3. ASSUME NEW url \in Urls, Type(url) PROVE TargetIsWanted'
  BY <1>3 DEF Type, Due
<1>4. CASE Click
  <2>1. rpcUrl \in Urls
    BY DEF DashTypeOK
  <2>2. /\ attempts'[Len(attempts) + 1] = [url |-> rpcUrl, phase |-> "handshake"]
        /\ Len(attempts') = Len(attempts) + 1
    BY <1>4, <2>1, ConnectTypes DEF Click
  <2>3. attempts'[Len(attempts')].url = rpcUrl
    BY <2>2
  <2> QED BY <1>4, <2>3 DEF Click, effectVars, UserMay
<1>5. CASE Refresh \/ IndexBuilt \/ \E to \in {"campaigns", "validators"} : OpenTab(to)
  BY <1>5 DEF Refresh, IndexBuilt, OpenTab, UserMay, effectVars, linkVars, userVars
<1>6. CASE RunEffects
  <2>1. Target # None
    BY TargetType, DashboardAssumption
  <2>2. CASE "auto" \in due
    BY <1>6, <2>1, <2>2 DEF RunEffects, AutoConnect, userVars
  <2>3. CASE "auto" \notin due
    BY <1>6, <2>3 DEF RunEffects, AutoConnect, linkVars, userVars
  <2> QED BY <2>2, <2>3
<1>7. CASE TimerFires
  <2>1. timer \in Urls
    BY <1>7 DEF DashTypeOK, TimerFires
  <2>2. /\ attempts'[Len(attempts) + 1] = [url |-> timer, phase |-> "handshake"]
        /\ Len(attempts') = Len(attempts) + 1
    BY <1>7, <2>1, ConnectTypes DEF TimerFires
  <2>3. attempts'[Len(attempts')].url = timer
    BY <2>2
  <2> QED BY <1>7, <2>3 DEF TimerFires, userVars
<1>8. ASSUME NEW i \in DOMAIN attempts, Handshake(i) PROVE TargetIsWanted'
  <2>1. /\ Len(attempts') = Len(attempts)
        /\ Len(attempts) > 0
              => attempts'[Len(attempts)].url = attempts[Len(attempts)].url
    BY <1>8, LatestUrl DEF Handshake, HandshakeOk, HandshakeFails
  <2> QED BY <1>8, <2>1
          DEF Handshake, HandshakeOk, HandshakeFails, Due, effectVars, userVars
<1>9. ASSUME NEW i \in DOMAIN loads, LoadOk(i) \/ LoadFails(i)
      PROVE  TargetIsWanted'
  <2>1. LoadOver(i)
    BY <1>9 DEF LoadOk, LoadFails
  <2>2. loads[i].via \in DOMAIN attempts
    BY <2>1, LoadOverTypes
  <2>3. /\ Len(attempts') = Len(attempts)
        /\ Len(attempts) > 0
              => attempts'[Len(attempts)].url = attempts[Len(attempts)].url
    BY <2>1, <2>2, LatestUrl DEF LoadOver
  <2> QED BY <1>9, <2>1, <2>3 DEF LoadOver, LoadOk, LoadFails, Due, effectVars, userVars
<1>10. CASE MetadataOk \/ MetadataFails
  BY <1>10 DEF MetadataOk, MetadataFails, Due, linkVars, userVars
<1> QED
  BY <1>1, <1>2, <1>3, <1>4, <1>5, <1>6, <1>7, <1>8, <1>9, <1>10
     DEF DashNext, User

-----------------------------------------------------------------------------
(* The titles and the cluster *)

LEMMA TitlesStep ==
    ASSUME DashTypeOK, TitlesBelong, [DashNext]_dashVars
    PROVE  TitlesBelong'
<1> USE DEF TitlesBelong
<1>1. CASE UNCHANGED dashVars
  BY <1>1 DEF dashVars, effectVars, detectCluster
<1>2. ASSUME NEW param \in Links, Navigate(param) PROVE TitlesBelong'
  BY <1>2 DEF Navigate, UserMay, Due, effectVars, detectCluster
<1>3. ASSUME NEW url \in Urls, Type(url) PROVE TitlesBelong'
  BY <1>3 DEF Type, UserMay, Due, detectCluster
<1>4. CASE Click \/ Refresh \/ \E to \in {"campaigns", "validators"} : OpenTab(to)
  BY <1>4 DEF Click, Refresh, OpenTab, UserMay, effectVars, detectCluster
<1>5. CASE RunEffects
  <2>1. CASE detectCluster(rpcUrl) = detectCluster(rpcUrl)'
    BY <1>5, <2>1 DEF RunEffects, AutoConnect, FetchMetadata
  <2>2. CASE detectCluster(rpcUrl) # detectCluster(rpcUrl)'
    BY <1>5, <2>2 DEF RunEffects, AutoConnect, FetchMetadata, detectCluster
  <2> QED BY <2>1, <2>2
<1>6. CASE TimerFires \/ IndexBuilt \/ \E i \in DOMAIN attempts : Handshake(i)
  BY <1>6 DEF TimerFires, IndexBuilt, Handshake, HandshakeOk, HandshakeFails,
     Due, effectVars, detectCluster
<1>7. CASE \E i \in DOMAIN loads : LoadOk(i) \/ LoadFails(i)
  BY <1>7 DEF LoadOk, LoadFails, LoadOver, Due, effectVars, detectCluster
<1>8. CASE MetadataOk \/ MetadataFails
  BY <1>8 DEF MetadataOk, MetadataFails, Due, detectCluster
<1> QED
  BY <1>1, <1>2, <1>3, <1>4, <1>5, <1>6, <1>7, <1>8 DEF DashNext, User

-----------------------------------------------------------------------------
(* The validator index and what is on screen *)

LEMMA IndexStep ==
    ASSUME DashTypeOK, IndexIsFresh, [DashNext]_dashVars
    PROVE  IndexIsFresh'
<1> USE DEF IndexIsFresh, Fresh
<1>1. CASE UNCHANGED dashVars
  BY <1>1 DEF dashVars, linkVars, loadVars, indexVars, userVars
<1>2. CASE \/ \E param \in Links : Navigate(param)
           \/ \E url \in Urls : Type(url)
  BY <1>2 DEF Navigate, Type, UserMay, Due, linkVars, loadVars, indexVars
<1>3. CASE Click \/ Refresh \/ TimerFires
  BY <1>3 DEF Click, Refresh, TimerFires, ConnectAndLoad, UserMay, loadVars,
     linkVars, indexVars, userVars
<1>4. CASE \E to \in {"campaigns", "validators"} : OpenTab(to)
  BY <1>4 DEF OpenTab, linkVars, loadVars
<1>5. CASE RunEffects
  <2>1. connection' = connection /\ shown' = shown /\ tab' = tab
    BY <1>5 DEF RunEffects, linkVars, loadVars, userVars
  <2>2. CASE "index" \in due
    BY <1>5, <2>1, <2>2 DEF RunEffects, BuildIndex, AutoConnect, NoJob
  <2>3. CASE "index" \notin due
    BY <1>5, <2>1, <2>3 DEF RunEffects, BuildIndex, AutoConnect, indexVars
  <2> QED BY <2>2, <2>3
<1>6. CASE \E i \in DOMAIN attempts : Handshake(i)
  BY <1>6 DEF Handshake, HandshakeOk, HandshakeFails, Due, indexVars, loadVars,
     userVars
<1>7. CASE \E i \in DOMAIN loads : LoadOk(i) \/ LoadFails(i)
  BY <1>7 DEF LoadOk, LoadFails, LoadOver, Due, indexVars, userVars
<1>8. CASE MetadataOk \/ MetadataFails
  BY <1>8 DEF MetadataOk, MetadataFails, Due, linkVars, loadVars, indexVars, userVars
<1>9. CASE IndexBuilt
  BY <1>9 DEF IndexBuilt, linkVars, loadVars, userVars
<1> QED
  BY <1>1, <1>2, <1>3, <1>4, <1>5, <1>6, <1>7, <1>8, <1>9 DEF DashNext, User

-----------------------------------------------------------------------------
(* The attempts, the loads and the connection *)

LinkInv == LoadsAreAwaited /\ ConnectingTracksLatest /\ LatestIsConnected

LEMMA Spans ==
    ASSUME DashTypeOK
    PROVE  /\ Len(attempts) \in Nat /\ DOMAIN attempts = 1 .. Len(attempts)
           /\ Len(loads) \in Nat /\ DOMAIN loads = 1 .. Len(loads)
           /\ connection \in 0 .. Len(attempts)
           /\ \A i \in DOMAIN loads : loads[i].via \in DOMAIN attempts
<1>1. attempts \in Seq(AttemptRecord) /\ loads \in Seq(LoadRecord)
  BY DEF DashTypeOK
<1>2. connection \in 0 .. Len(attempts)
  BY DEF DashTypeOK
<1>3. ASSUME NEW i \in DOMAIN loads PROVE loads[i].via \in DOMAIN attempts
  <2>1. loads[i] \in LoadRecord
    BY <1>1
  <2> QED BY <1>1, <2>1 DEF LoadRecord
<1> QED BY <1>1, <1>2, <1>3

\* What an attempt that is being added changes: it is the latest, no load
\* belongs to it, and the loads of the others are as they were.
LEMMA LinkConnect ==
    ASSUME DashTypeOK, LinkInv, NEW url \in Urls, ConnectAndLoad(url),
           loads' = loads
    PROVE  LinkInv'
<1>1. /\ Len(attempts) \in Nat /\ DOMAIN attempts = 1 .. Len(attempts)
      /\ connection \in 0 .. Len(attempts)
  BY Spans
<1>2. \A i \in DOMAIN loads : loads[i].via \in DOMAIN attempts
  BY Spans
<1>3. /\ Len(attempts') = Len(attempts) + 1
      /\ attempts'[Len(attempts) + 1] = [url |-> url, phase |-> "handshake"]
      /\ \A j \in DOMAIN attempts : attempts'[j] = attempts[j]
  BY ConnectTypes DEF Current
<1>4. attempts'[Len(attempts')].phase = "handshake"
  BY <1>3
<1>5. connecting' = TRUE /\ connection' = connection /\ connected' = connected
  BY DEF ConnectAndLoad
<1>6. LoadsAreAwaited'
  BY <1>2, <1>3 DEF LinkInv, LoadsAreAwaited
<1>7. ConnectingTracksLatest'
  BY <1>1, <1>3, <1>4, <1>5 DEF ConnectingTracksLatest, Current
<1>8. LatestIsConnected'
  BY <1>1, <1>3, <1>4, <1>5 DEF LinkInv, LatestIsConnected, Current
<1> QED BY <1>6, <1>7, <1>8 DEF LinkInv

LEMMA LinkStep ==
    ASSUME DashTypeOK, LinkInv, [DashNext]_dashVars
    PROVE  LinkInv'
<1>0. /\ Len(attempts) \in Nat /\ DOMAIN attempts = 1 .. Len(attempts)
      /\ Len(loads) \in Nat /\ DOMAIN loads = 1 .. Len(loads)
      /\ \A i \in DOMAIN loads : loads[i].via \in DOMAIN attempts
  BY Spans
<1>1. CASE UNCHANGED <<linkVars, loads>>
  BY <1>1
     DEF linkVars, LinkInv, LoadsAreAwaited, ConnectingTracksLatest,
         LatestIsConnected, Current
<1>2. CASE Click \/ TimerFires
  <2>1. timer # None => timer \in Urls
    BY DEF DashTypeOK
  <2>2. PICK url \in Urls : ConnectAndLoad(url)
    BY <1>2, <2>1 DEF Click, TimerFires, DashTypeOK
  <2>3. loads' = loads
    BY <1>2 DEF Click, TimerFires, loadVars
  <2> QED BY <2>2, <2>3, LinkConnect
<1>3. CASE Refresh
  <2>0. connection # 0
    BY <1>3 DEF Refresh
  <2>1. connection \in 1 .. Len(attempts) /\ LoadCampaigns(connection, FALSE)
        /\ UNCHANGED linkVars
    <3>1. connection \in 1 .. Len(attempts)
      BY <2>0, Spans
    <3> QED BY <1>3, <3>1 DEF Refresh
  <2>2. /\ Len(loads') = Len(loads) + 1 /\ loads' \in Seq(LoadRecord)
        /\ loads'[Len(loads) + 1] = [via |-> connection, awaited |-> FALSE,
                                     phase |-> "loading"]
        /\ \A j \in DOMAIN loads : loads'[j] = loads[j]
    BY <2>1, LoadTypes
  <2>3. DOMAIN loads' = 1 .. Len(loads) + 1 /\ ~ loads'[Len(loads) + 1].awaited
    BY <1>0, <2>2
  <2>4. LoadsAreAwaited'
    BY <1>0, <2>1, <2>2, <2>3 DEF LinkInv, LoadsAreAwaited, linkVars
  <2>5. ConnectingTracksLatest' /\ LatestIsConnected'
    BY <2>1
       DEF linkVars, LinkInv, ConnectingTracksLatest, LatestIsConnected, Current
  <2> QED BY <2>4, <2>5 DEF LinkInv
<1>4. ASSUME NEW i \in DOMAIN attempts, HandshakeOk(i) PROVE LinkInv'
  <2>1. /\ i = Len(attempts) /\ attempts[i].phase = "handshake"
        /\ attempts' = AttemptAt(i, "loading")
        /\ connection' = i /\ connected' = TRUE /\ connecting' = connecting
        /\ LoadCampaigns(i, TRUE)
    BY <1>4 DEF HandshakeOk, Current
  <2>2. /\ Len(attempts') = Len(attempts)
        /\ attempts'[i] = [url |-> attempts[i].url, phase |-> "loading"]
        /\ \A j \in DOMAIN attempts \ {i} : attempts'[j] = attempts[j]
    BY <2>1, AttemptAtTypes
  <2>3. /\ Len(loads') = Len(loads) + 1 /\ loads' \in Seq(LoadRecord)
        /\ loads'[Len(loads) + 1] = [via |-> i, awaited |-> TRUE,
                                     phase |-> "loading"]
        /\ \A j \in DOMAIN loads : loads'[j] = loads[j]
    BY <1>0, <2>1, LoadTypes
  <2>4. DOMAIN loads' = 1 .. Len(loads) + 1 /\ attempts'[i].phase = "loading"
        /\ loads'[Len(loads) + 1].via = i
    BY <1>0, <2>2, <2>3
  <2>5. \A j \in DOMAIN loads : loads[j].awaited => loads[j].via # i
    BY <2>1 DEF LinkInv, LoadsAreAwaited
  <2>6. LoadsAreAwaited'
    BY <1>0, <2>2, <2>3, <2>4, <2>5 DEF LinkInv, LoadsAreAwaited
  <2>7. connecting
    BY <1>0, <2>1 DEF LinkInv, ConnectingTracksLatest, Current
  <2>8. ConnectingTracksLatest' /\ LatestIsConnected'
    BY <1>0, <2>1, <2>2, <2>4, <2>7
       DEF ConnectingTracksLatest, LatestIsConnected, Current
  <2> QED BY <2>6, <2>8 DEF LinkInv
<1>5. ASSUME NEW i \in DOMAIN attempts, HandshakeFails(i) PROVE LinkInv'
  <2>1. /\ i = Len(attempts) /\ attempts[i].phase = "handshake"
        /\ attempts' = AttemptAt(i, "over")
        /\ connected' = FALSE /\ connecting' = FALSE /\ loads' = loads
    BY <1>5 DEF HandshakeFails, Current, loadVars
  <2>2. /\ Len(attempts') = Len(attempts)
        /\ attempts'[i] = [url |-> attempts[i].url, phase |-> "over"]
        /\ \A j \in DOMAIN attempts \ {i} : attempts'[j] = attempts[j]
    BY <2>1, AttemptAtTypes
  <2>3. attempts'[i].phase = "over"
    BY <2>2
  <2>4. \A j \in DOMAIN loads : loads[j].awaited => loads[j].via # i
    BY <2>1 DEF LinkInv, LoadsAreAwaited
  <2>5. LoadsAreAwaited'
    BY <1>0, <2>1, <2>2, <2>4 DEF LinkInv, LoadsAreAwaited
  <2>6. ConnectingTracksLatest' /\ LatestIsConnected'
    BY <1>0, <2>1, <2>2, <2>3
       DEF ConnectingTracksLatest, LatestIsConnected, Current
  <2> QED BY <2>5, <2>6 DEF LinkInv
<1>6. ASSUME NEW i \in DOMAIN loads, LoadOver(i) PROVE LinkInv'
  <2>1. /\ loads[i].phase = "loading" /\ loads[i].via \in DOMAIN attempts
        /\ loads'[i] = [via |-> loads[i].via, awaited |-> loads[i].awaited,
                        phase |-> "over"]
        /\ \A j \in DOMAIN loads \ {i} : loads'[j] = loads[j]
        /\ Len(loads') = Len(loads) /\ loads' \in Seq(LoadRecord)
        /\ Len(attempts') = Len(attempts)
        /\ connection' = connection /\ connected' = connected
    BY <1>6, LoadOverTypes DEF LoadOver
  <2>2. /\ DOMAIN loads' = DOMAIN loads /\ loads'[i].via = loads[i].via
        /\ loads'[i].awaited = loads[i].awaited /\ loads'[i].phase = "over"
    BY <1>0, <2>1
  <2>3. CASE ~ loads[i].awaited
    <3>1. attempts' = attempts /\ connecting' = connecting
      BY <1>6, <2>3 DEF LoadOver
    <3>2. LoadsAreAwaited'
      BY <2>1, <2>2, <2>3, <3>1 DEF LinkInv, LoadsAreAwaited
    <3>3. ConnectingTracksLatest' /\ LatestIsConnected'
      BY <2>1, <3>1
         DEF LinkInv, ConnectingTracksLatest, LatestIsConnected, Current
    <3> QED BY <3>2, <3>3 DEF LinkInv
  <2>4. CASE loads[i].awaited
    <3> DEFINE via == loads[i].via
    <3>1. attempts' = AttemptAt(via, "over")
      BY <1>6, <2>4 DEF LoadOver
    <3>2. connecting' <=> connecting /\ via # Len(attempts)
      BY <1>6, <2>4 DEF LoadOver, Current
    <3>3. /\ attempts'[via] = [url |-> attempts[via].url, phase |-> "over"]
          /\ \A j \in DOMAIN attempts \ {via} : attempts'[j] = attempts[j]
      BY <2>1, <3>1, AttemptAtTypes
    <3>4. attempts'[via].phase = "over"
      BY <3>3
    <3>5. \A j \in DOMAIN loads \ {i} : loads[j].awaited => loads[j].via # via
      BY <2>4 DEF LinkInv, LoadsAreAwaited
    <3>6. attempts[via].phase = "loading"
      BY <2>1, <2>4 DEF LinkInv, LoadsAreAwaited
    <3>7. LoadsAreAwaited'
      BY <1>0, <2>1, <2>2, <3>3, <3>4, <3>5 DEF LinkInv, LoadsAreAwaited
    <3>8. connecting' <=> Len(attempts) > 0
                             /\ attempts'[Len(attempts)].phase # "over"
      BY <1>0, <2>1, <3>2, <3>3, <3>4
         DEF LinkInv, ConnectingTracksLatest, Current
    <3>9. ConnectingTracksLatest'
      BY <2>1, <3>8 DEF ConnectingTracksLatest, Current
    <3>10. LatestIsConnected'
      <4>1. CASE via = Len(attempts)
        <5>1. connection = Len(attempts) /\ Len(attempts) > 0
          BY <1>0, <2>1, <3>6, <4>1 DEF LinkInv, LatestIsConnected, Current
        <5> QED BY <1>0, <2>1, <3>4, <4>1, <5>1 DEF LatestIsConnected, Current
      <4>2. CASE via # Len(attempts)
        <5>1. connecting' <=> connecting
          BY <3>2, <4>2
        <5>2. Len(attempts) > 0
                 => attempts'[Len(attempts)] = attempts[Len(attempts)]
          BY <1>0, <3>3, <4>2
        <5> QED BY <1>0, <2>1, <5>1, <5>2 DEF LinkInv, LatestIsConnected, Current
      <4> QED BY <4>1, <4>2
    <3> QED BY <3>7, <3>9, <3>10 DEF LinkInv
  <2> QED BY <2>3, <2>4
<1>7. CASE UNCHANGED dashVars \/ RunEffects \/ IndexBuilt \/ MetadataOk
           \/ MetadataFails
  BY <1>1, <1>7
     DEF dashVars, loadVars, RunEffects, IndexBuilt, MetadataOk, MetadataFails
<1>8. CASE \/ \E param \in Links : Navigate(param)
           \/ \E url \in Urls : Type(url)
           \/ \E to \in {"campaigns", "validators"} : OpenTab(to)
  BY <1>1, <1>8 DEF Navigate, Type, OpenTab, loadVars
<1> QED
  BY <1>2, <1>3, <1>4, <1>5, <1>6, <1>7, <1>8
     DEF DashNext, User, Handshake, LoadOk, LoadFails

-----------------------------------------------------------------------------
(* The theorems *)

LEMMA DashInvInit == DashInit => DashInv
<1> SUFFICES ASSUME DashInit PROVE DashInv
  OBVIOUS
<1>1. DashTypeOK
  BY DashTypeInit
<1>2. LoadsAreAwaited /\ IndexIsFresh
  BY DEF DashInit, LoadsAreAwaited, IndexIsFresh
<1>3. ConnectingTracksLatest /\ LatestIsConnected
  BY DEF DashInit, ConnectingTracksLatest, LatestIsConnected, Current
<1>4. TargetIsWanted /\ TitlesBelong
  BY DEF DashInit, TargetIsWanted, TitlesBelong
<1> QED BY <1>1, <1>2, <1>3, <1>4 DEF DashInv

LEMMA DashInvStep == DashInv /\ [DashNext]_dashVars => DashInv'
BY DashTypeStep, LinkStep, TargetStep, TitlesStep, IndexStep DEF DashInv, LinkInv

LEMMA DashInvHolds == DashSpec => []DashInv
BY DashInvInit, DashInvStep, PTL DEF DashSpec

\* "Connecting..." is shown exactly while the latest attempt is under way:
\* attempts that were superseded end without switching it off.
THEOREM ConnectingCorrect == DashSpec => []ConnectingTracksLatest
<1>1. DashInv => ConnectingTracksLatest
  BY DEF DashInv
<1> QED BY <1>1, DashInvHolds, PTL

\* At rest, a connected dashboard uses the endpoint of the address bar through
\* the client of its latest attempt, whatever the user, the timers and the
\* handshakes did before.
THEOREM SettlesCorrect == DashSpec => []SettlesOnTarget
<1>1. DashInv => SettlesOnTarget
  BY DEF DashInv, DashTypeOK, LatestIsConnected, TargetIsWanted, SettlesOnTarget,
         Current
<1> QED BY <1>1, DashInvHolds, PTL

\* Titles follow the endpoint field through any late answers, and at rest the
\* campaigns under them that the client in use has loaded are devnet's.
\* Campaigns that an earlier client left on screen are not spoken of.
THEOREM TitlesCorrect == DashSpec => []TitlesFollowEndpoint
<1>1. ASSUME DashInv
      PROVE  due = {} /\ detectCluster(rpcUrl) # "devnet" => metadata = "empty"
  BY <1>1 DEF DashInv, TitlesBelong
<1>2. ASSUME DashInv, due = {}, timer = None, connected, ~ connecting,
             metadata = "titles", shown # 0, loads[shown].via = connection
      PROVE  detectCluster(attempts[loads[shown].via].url) = "devnet"
  <2>1. attempts[connection].url = Target
    BY <1>2 DEF DashInv, DashTypeOK, LatestIsConnected, TargetIsWanted, Current
  <2>2. rpcUrl = Target
    BY <1>2 DEF DashInv, TargetIsWanted
  <2> QED
    BY <1>1, <1>2, <2>1, <2>2
<1>3. DashInv => TitlesFollowEndpoint
  BY <1>1, <1>2 DEF TitlesFollowEndpoint
<1> QED BY <1>3, DashInvHolds, PTL

\* An index on screen that is not being rebuilt was built with the client in
\* use, from the campaigns on screen.
THEOREM IndexCorrect == DashSpec => []IndexMatchesScreen
<1>1. DashInv => IndexMatchesScreen
  BY DEF DashInv, IndexIsFresh, Fresh, IndexMatchesScreen
<1> QED BY <1>1, DashInvHolds, PTL

=============================================================================
