--------------------------- MODULE ExecutorProofs ---------------------------
(***************************************************************************)
(* Proofs about MCExecutor: the handles of perspectives are kept, the      *)
(* agent's profile is kept and published, and the threads of models are as *)
(* the rows say, for any number of calls, perspectives, models and tasks   *)
(* and however often the process restarts.                                 *)
(*                                                                         *)
(* The parts share no state, so each is proved of its own steps, and       *)
(* ExecutorSpec takes steps of one of them at a time.                      *)
(***************************************************************************)
EXTENDS MCExecutor, TLAPS

(***************************************************************************)
(* Registry.                                                               *)
(***************************************************************************)

(* The map and the table differ by the calls that are between the two.     *)
Tabled ==
    /\ running = perspectives
    /\ \A u \in perspectives \ DOMAIN handles :
          \E c \in Requests : step[c] = "removed" /\ uuid[c] = u
    /\ \A u \in DOMAIN handles \ perspectives :
          \E c \in Requests : step[c] = "added" /\ uuid[c] = u
    /\ \A c \in Requests : step[c] = "added" => uuid[c] \in DOMAIN handles \ perspectives
    /\ \A c \in Requests : step[c] = "removed" => uuid[c] \notin DOMAIN handles
    /\ \A c, d \in Requests :
          step[c] = "added" /\ step[d] = "added" /\ uuid[c] = uuid[d] => c = d

(* What a call is about, by how far it is.                                 *)
AboutThem ==
    \A c \in Requests :
        /\ step[c] \in {"publish", "read", "stored", "added", "removed"} => uuid[c] \in 1 .. used
        /\ step[c] = "read" => asked[c] \in {"rename", "publish", "sync"}
        /\ step[c] = "publish" => asked[c] = "publish"

(* Without stores that crossed, a row differs from its instance only while *)
(* a call is between the two, and a copy that was read differs from the    *)
(* instance in the fields that its call changes.                           *)
InStep ==
    ~crossed =>
        /\ \A u \in 1 .. used : persisted[u] = meant[u]
        /\ \A c \in Requests : step[c] = "stored" => copy[c] = persisted[uuid[c]]
        /\ \A u \in DOMAIN handles :
              persisted[u] = handles[u] \/ \E c \in Requests : step[c] = "stored" /\ uuid[c] = u
        /\ \A c \in Requests : step[c] = "read" =>
              \A f \in {"name", "url", "state"} \ R!Fields[asked[c]] :
                  copy[c][f] = persisted[uuid[c]][f]

(* The URL of a publication is not known before it is stored.              *)
KnownUrls == neighbourhoods \cup {NoUrl}

UrlsKnown ==
    /\ \A u \in 1 .. used : persisted[u].url \in KnownUrls
    /\ \A u \in DOMAIN handles : handles[u].url \in KnownUrls
    /\ \A c \in Requests :
          /\ url[c] \in KnownUrls
          /\ step[c] = "idle" => url[c] = NoUrl
          /\ step[c] = "join" => url[c] # NoUrl
          /\ step[c] = "read" =>
                IF asked[c] = "publish" THEN copy[c].url = c ELSE copy[c].url \in KnownUrls
          /\ step[c] = "stored" => copy[c].url \in KnownUrls
          /\ c \in neighbourhoods => step[c] \in {"stored", "done"}

(* Perspectives that are in the map or will be.                            *)
Live == perspectives \cup DOMAIN handles

OneEach ==
    ~crossed /\ ~joinedTwice =>
        /\ \A u, v \in Live :
              persisted[u].url = persisted[v].url /\ persisted[u].url # NoUrl => u = v
        /\ \A c \in Requests : step[c] = "join" => \A u \in Live : persisted[u].url # url[c]
        /\ \A c \in Requests : step[c] = "added" => persisted[uuid[c]].url = url[c]
        /\ \A c, d \in Requests :
              /\ step[c] \in {"join", "added"} /\ step[d] \in {"join", "added"}
              /\ url[c] = url[d] /\ url[c] # NoUrl
              => c = d

RegistryInv == R!TypeOK /\ Tabled /\ AboutThem /\ InStep /\ UrlsKnown /\ OneEach

(* A handle with some fields changed is one, and a perspective that is     *)
(* added has a new uuid.                                                   *)

LEMMA HandleChanged ==
    ASSUME NEW h \in R!Handle, NEW n \in Requests, NEW l \in R!Urls, NEW s \in R!States
    PROVE  /\ [h EXCEPT !.name = n] \in R!Handle
           /\ [h EXCEPT !.state = s] \in R!Handle
           /\ [h EXCEPT !.url = l, !.state = s] \in R!Handle
           /\ [h EXCEPT !.url = l, !.state = s].name = h.name
           /\ [h EXCEPT !.url = l, !.state = s].url = l
BY DEF R!Handle

LEMMA Inserted ==
    ASSUME R!TypeOK, NEW c \in Requests, NEW h, R!Insert(c, h)
    PROVE  /\ used' \notin 1 .. used
           /\ DOMAIN handles' = DOMAIN handles \cup {used'}
           /\ perspectives' = perspectives /\ running' = running
           /\ uuid'[c] = used' /\ \A d \in Requests \ {c} : uuid'[d] = uuid[d]
BY DEF R!TypeOK, R!Insert, R!With

LEMMA AddPerspectiveKeeps ==
    ASSUME RegistryInv, NEW c \in Requests, R!AddPerspective(c)
    PROVE  RegistryInv'
<1>1. R!TypeOK'
  BY BoundsOfPerspectives
     DEF RegistryInv, R!AddPerspective, R!Insert, R!Begin, R!At, R!With, R!TypeOK, R!Handle,
         R!Uuids, R!States
<1>2. Tabled'
  <2>1. R!TypeOK /\ Tabled /\ AboutThem
    BY DEF RegistryInv
  <2>2. PICK h : R!Insert(c, h)
    BY DEF R!AddPerspective
  <2>3. step[c] = "idle" /\ step' = [step EXCEPT ![c] = "added"]
    BY DEF R!AddPerspective, R!Begin, R!At
  <2>4. /\ step'[c] = "added" /\ \A d \in Requests \ {c} : step'[d] = step[d]
        /\ \A d \in Requests : step[d] \in {"added", "removed"} => d # c /\ uuid[d] # used'
    BY <2>1, <2>2, <2>3, Inserted DEF AboutThem, R!TypeOK
  <2>5. /\ DOMAIN handles' = DOMAIN handles \cup {used'} /\ used' \notin perspectives
        /\ used' \notin DOMAIN handles
        /\ perspectives' = perspectives /\ running' = running
        /\ uuid'[c] = used' /\ \A d \in Requests \ {c} : uuid'[d] = uuid[d]
    BY <2>1, <2>2, Inserted DEF R!TypeOK
  <2>6. \A v \in perspectives' \ DOMAIN handles' :
           \E d \in Requests : step'[d] = "removed" /\ uuid'[d] = v
    BY <2>1, <2>4, <2>5 DEF Tabled
  <2>7. \A v \in DOMAIN handles' \ perspectives' :
           \E d \in Requests : step'[d] = "added" /\ uuid'[d] = v
    BY <2>1, <2>4, <2>5 DEF Tabled
  <2> QED
    BY <2>1, <2>4, <2>5, <2>6, <2>7 DEF Tabled
<1>3. AboutThem'
  BY DEF RegistryInv, R!AddPerspective, R!Insert, R!Begin, R!At, AboutThem, R!TypeOK
<1>4. InStep'
  BY DEF RegistryInv, R!AddPerspective, R!Insert, R!Begin, R!At, R!With, InStep, R!TypeOK,
         AboutThem
<1>5. UrlsKnown'
  BY DEF RegistryInv, R!AddPerspective, R!Insert, R!Begin, R!At, R!With, UrlsKnown, R!TypeOK,
         KnownUrls
<1>6. OneEach'
  BY UrlsDiffer, BoundsOfPerspectives
     DEF RegistryInv, R!AddPerspective, R!Insert, R!Begin, R!At, R!With, OneEach, R!TypeOK,
         Tabled, AboutThem, InStep, UrlsKnown, KnownUrls, Live, R!Handle
<1> QED
  BY <1>1, <1>2, <1>3, <1>4, <1>5, <1>6 DEF RegistryInv

LEMMA KnownKeeps ==
    ASSUME RegistryInv, NEW c \in Requests, R!Known(c)
    PROVE  RegistryInv'
<1>1. R!TypeOK'
  BY DEF RegistryInv, R!Known, R!At, R!TypeOK, AboutThem
<1>2. Tabled'
  BY DEF RegistryInv, R!Known, R!At, Tabled, R!TypeOK
<1>3. AboutThem'
  BY DEF RegistryInv, R!Known, R!At, AboutThem
<1>4. InStep'
  BY DEF RegistryInv, R!Known, R!At, InStep
<1>5. UrlsKnown'
  BY DEF RegistryInv, R!Known, R!At, UrlsKnown, KnownUrls
<1>6. OneEach'
  BY DEF RegistryInv, R!Known, R!At, OneEach, Tabled, AboutThem, Live
<1> QED
  BY <1>1, <1>2, <1>3, <1>4, <1>5, <1>6 DEF RegistryInv

LEMMA JoinKeeps ==
    ASSUME RegistryInv, NEW c \in Requests, NEW there \in neighbourhoods, R!Join(c, there)
    PROVE  RegistryInv'
<1>1. R!TypeOK'
  BY DEF RegistryInv, R!Join, R!Begin, R!At, R!memory, R!TypeOK
<1>2. Tabled'
  BY DEF RegistryInv, R!Join, R!Begin, R!At, R!memory, Tabled
<1>3. AboutThem'
  BY DEF RegistryInv, R!Join, R!Begin, R!At, AboutThem
<1>4. InStep'
  BY DEF RegistryInv, R!Join, R!Begin, R!At, R!memory, InStep
<1>5. UrlsKnown'
  BY UrlsDiffer
     DEF RegistryInv, R!Join, R!Begin, R!At, R!memory, UrlsKnown, R!TypeOK, KnownUrls, R!Urls
<1>6. OneEach'
  <2>1. /\ step[c] = "idle" /\ step' = [step EXCEPT ![c] = "join"]
        /\ \A u \in perspectives : persisted[u].url # there
        /\ url' = [url EXCEPT ![c] = there]
        /\ joinedTwice' = (joinedTwice \/ \E d \in Requests :
                               step[d] \in {"join", "added"} /\ url[d] = there)
        /\ UNCHANGED <<perspectives, persisted, handles, uuid, crossed>>
    BY DEF R!Join, R!Begin, R!At, R!memory
  <2>2. /\ step'[c] = "join" /\ \A d \in Requests \ {c} : step'[d] = step[d]
        /\ url'[c] = there /\ \A d \in Requests \ {c} : url'[d] = url[d]
        /\ Live' = Live
    BY <2>1 DEF RegistryInv, R!TypeOK, Live
  <2>3. ASSUME ~crossed', ~joinedTwice', NEW u \in Live
        PROVE  persisted[u].url # there
    <3>1. CASE u \in perspectives
      BY <2>1, <3>1
    <3>2. CASE u \notin perspectives
      <4>1. PICK d \in Requests : step[d] = "added" /\ uuid[d] = u
        BY <3>2 DEF Live, RegistryInv, Tabled
      <4> QED
        BY <2>1, <2>3, <4>1 DEF RegistryInv, OneEach
    <3> QED
      BY <3>1, <3>2
  <2>4. ASSUME ~crossed', ~joinedTwice'
        PROVE  /\ ~crossed /\ ~joinedTwice /\ UNCHANGED <<persisted, uuid>>
               /\ \A d \in Requests : step[d] \in {"join", "added"} => url[d] # there
    BY <2>1, <2>4
  <2>5. ASSUME ~crossed', ~joinedTwice', NEW d \in Requests, step'[d] = "join", NEW u \in Live'
        PROVE  persisted'[u].url # url'[d]
    <3>1. CASE d = c
      BY <2>2, <2>3, <2>4, <2>5, <3>1
    <3>2. CASE d # c
      BY <2>2, <2>4, <2>5, <3>2 DEF RegistryInv, OneEach
    <3> QED
      BY <3>1, <3>2
  <2>6. ASSUME ~crossed', ~joinedTwice', NEW d \in Requests, NEW e \in Requests,
               step'[d] \in {"join", "added"}, step'[e] \in {"join", "added"},
               url'[d] = url'[e], url'[d] # NoUrl
        PROVE  d = e
    <3>1. CASE d = c \/ e = c
      BY <2>2, <2>4, <2>6, <3>1
    <3>2. CASE d # c /\ e # c
      BY <2>2, <2>4, <2>6, <3>2 DEF RegistryInv, OneEach
    <3> QED
      BY <3>1, <3>2
  <2>7. ASSUME ~crossed', ~joinedTwice', NEW d \in Requests, step'[d] = "added"
        PROVE  persisted'[uuid'[d]].url = url'[d]
    BY <2>2, <2>4, <2>7 DEF RegistryInv, OneEach
  <2>8. ASSUME ~crossed', ~joinedTwice', NEW v \in Live', NEW w \in Live',
               persisted'[v].url = persisted'[w].url, persisted'[v].url # NoUrl
        PROVE  v = w
    BY <2>2, <2>4, <2>8 DEF RegistryInv, OneEach
  <2> QED
    BY <2>5, <2>6, <2>7, <2>8 DEF OneEach
<1> QED
  BY <1>1, <1>2, <1>3, <1>4, <1>5, <1>6 DEF RegistryInv

LEMMA JoinedKeeps ==
    ASSUME RegistryInv, NEW c \in Requests, R!Joined(c)
    PROVE  RegistryInv'
<1>1. R!TypeOK'
  BY BoundsOfPerspectives
     DEF RegistryInv, R!Joined, R!Insert, R!At, R!With, R!TypeOK, R!Handle, R!Uuids, R!States
<1>2. Tabled'
  <2>1. R!TypeOK /\ Tabled /\ AboutThem
    BY DEF RegistryInv
  <2>2. PICK h : R!Insert(c, h)
    BY DEF R!Joined
  <2>3. step[c] = "join" /\ step' = [step EXCEPT ![c] = "added"]
    BY DEF R!Joined, R!At
  <2>4. /\ step'[c] = "added" /\ \A d \in Requests \ {c} : step'[d] = step[d]
        /\ \A d \in Requests : step[d] \in {"added", "removed"} => d # c /\ uuid[d] # used'
    BY <2>1, <2>2, <2>3, Inserted DEF AboutThem, R!TypeOK
  <2>5. /\ DOMAIN handles' = DOMAIN handles \cup {used'} /\ used' \notin perspectives
        /\ used' \notin DOMAIN handles
        /\ perspectives' = perspectives /\ running' = running
        /\ uuid'[c] = used' /\ \A d \in Requests \ {c} : uuid'[d] = uuid[d]
    BY <2>1, <2>2, Inserted DEF R!TypeOK
  <2>6. \A v \in perspectives' \ DOMAIN handles' :
           \E d \in Requests : step'[d] = "removed" /\ uuid'[d] = v
    BY <2>1, <2>4, <2>5 DEF Tabled
  <2>7. \A v \in DOMAIN handles' \ perspectives' :
           \E d \in Requests : step'[d] = "added" /\ uuid'[d] = v
    BY <2>1, <2>4, <2>5 DEF Tabled
  <2> QED
    BY <2>1, <2>4, <2>5, <2>6, <2>7 DEF Tabled
<1>3. AboutThem'
  BY DEF RegistryInv, R!Joined, R!Insert, R!At, AboutThem, R!TypeOK
<1>4. InStep'
  BY DEF RegistryInv, R!Joined, R!Insert, R!At, R!With, InStep, R!TypeOK, AboutThem
<1>5. UrlsKnown'
  BY DEF RegistryInv, R!Joined, R!Insert, R!At, R!With, UrlsKnown, R!TypeOK, KnownUrls
<1>6. OneEach'
  BY DEF RegistryInv, R!Joined, R!Insert, R!At, R!With, OneEach, R!TypeOK, Tabled, AboutThem,
         UrlsKnown, Live
<1> QED
  BY <1>1, <1>2, <1>3, <1>4, <1>5, <1>6 DEF RegistryInv

LEMMA RenameKeeps ==
    ASSUME RegistryInv, NEW c \in Requests, NEW u \in perspectives, R!Rename(c, u)
    PROVE  RegistryInv'
<1>1. R!TypeOK'
  <2>1. /\ copy'[c] \in R!Handle /\ copy' \in [Requests -> R!Handle \cup {NoUrl}]
        /\ \A d \in Requests \ {c} : copy'[d] = copy[d]
    <3>1. persisted[u] \in R!Handle
      BY DEF RegistryInv, R!TypeOK, AboutThem
    <3>2. copy' = [copy EXCEPT ![c] = [persisted[u] EXCEPT !.name = c]]
      BY DEF R!Rename, R!Holds
    <3>3. [persisted[u] EXCEPT !.name = c] \in R!Handle
      BY <3>1, HandleChanged DEF R!States, R!Urls
    <3> QED
      BY <3>2, <3>3 DEF RegistryInv, R!TypeOK
  <2>2. /\ step' = [step EXCEPT ![c] = "read"] /\ asked' = [asked EXCEPT ![c] = "rename"]
        /\ uuid' = [uuid EXCEPT ![c] = u]
        /\ UNCHANGED <<used, perspectives, persisted, running, handles, neighbourhoods, url,
                       meant, crossed, joinedTwice, reboots>>
    BY DEF R!Rename, R!At, R!Begin, R!About, R!ReadsOnly, R!memory
  <2>3. u \in R!Uuids
    BY BoundsOfPerspectives DEF RegistryInv, R!TypeOK, R!Uuids
  <2> QED
    BY <2>1, <2>2, <2>3 DEF RegistryInv, R!TypeOK
<1>2. Tabled'
  BY DEF RegistryInv, R!Rename, R!Begin, R!At, R!About, R!ReadsOnly, R!memory, Tabled
<1>3. AboutThem'
  BY DEF RegistryInv, R!Rename, R!Begin, R!At, R!About, R!ReadsOnly, AboutThem, R!TypeOK
<1>4. InStep'
  BY DEF RegistryInv, R!Rename, R!Begin, R!At, R!About, R!Holds, R!ReadsOnly, R!memory,
         R!Fields, InStep, R!TypeOK, R!Handle
<1>5. UrlsKnown'
  BY DEF RegistryInv, R!Rename, R!Begin, R!At, R!Holds, R!ReadsOnly, R!memory, UrlsKnown,
         R!TypeOK, KnownUrls
<1>6. OneEach'
  BY DEF RegistryInv, R!Rename, R!Begin, R!At, R!About, R!ReadsOnly, R!memory, OneEach, Live
<1> QED
  BY <1>1, <1>2, <1>3, <1>4, <1>5, <1>6 DEF RegistryInv

LEMMA SetStateKeeps ==
    ASSUME RegistryInv, NEW c \in Requests, NEW u \in perspectives, NEW state \in {"NotSynced",
           "Synced"}, R!SetState(c, u, state)
    PROVE  RegistryInv'
<1>1. R!TypeOK'
  <2>1. /\ copy'[c] \in R!Handle /\ copy' \in [Requests -> R!Handle \cup {NoUrl}]
        /\ \A d \in Requests \ {c} : copy'[d] = copy[d]
    <3>1. persisted[u] \in R!Handle
      BY DEF RegistryInv, R!TypeOK, AboutThem
    <3>2. copy' = [copy EXCEPT ![c] = [persisted[u] EXCEPT !.state = state]]
      BY DEF R!SetState, R!Holds
    <3>3. [persisted[u] EXCEPT !.state = state] \in R!Handle
      BY <3>1, HandleChanged DEF R!States, R!Urls
    <3> QED
      BY <3>2, <3>3 DEF RegistryInv, R!TypeOK
  <2>2. /\ step' = [step EXCEPT ![c] = "read"] /\ asked' = [asked EXCEPT ![c] = "sync"]
        /\ uuid' = [uuid EXCEPT ![c] = u]
        /\ UNCHANGED <<used, perspectives, persisted, running, handles, neighbourhoods, url,
                       meant, crossed, joinedTwice, reboots>>
    BY DEF R!SetState, R!At, R!Begin, R!About, R!ReadsOnly, R!memory
  <2>3. u \in R!Uuids
    BY BoundsOfPerspectives DEF RegistryInv, R!TypeOK, R!Uuids
  <2> QED
    BY <2>1, <2>2, <2>3 DEF RegistryInv, R!TypeOK
<1>2. Tabled'
  BY DEF RegistryInv, R!SetState, R!Begin, R!At, R!About, R!ReadsOnly, R!memory, Tabled
<1>3. AboutThem'
  BY DEF RegistryInv, R!SetState, R!Begin, R!At, R!About, R!ReadsOnly, AboutThem, R!TypeOK
<1>4. InStep'
  BY DEF RegistryInv, R!SetState, R!Begin, R!At, R!About, R!Holds, R!ReadsOnly, R!memory,
         R!Fields, InStep, R!TypeOK, R!Handle
<1>5. UrlsKnown'
  BY DEF RegistryInv, R!SetState, R!Begin, R!At, R!Holds, R!ReadsOnly, R!memory, UrlsKnown,
         R!TypeOK, KnownUrls
<1>6. OneEach'
  BY DEF RegistryInv, R!SetState, R!Begin, R!At, R!About, R!ReadsOnly, R!memory, OneEach, Live
<1> QED
  BY <1>1, <1>2, <1>3, <1>4, <1>5, <1>6 DEF RegistryInv

LEMMA PublishKeeps ==
    ASSUME RegistryInv, NEW c \in Requests, NEW u \in perspectives, R!Publish(c, u)
    PROVE  RegistryInv'
<1>1. R!TypeOK'
  BY BoundsOfPerspectives
     DEF RegistryInv, R!Publish, R!Begin, R!At, R!About, R!ReadsOnly, R!memory, R!TypeOK,
         R!Uuids
<1>2. Tabled'
  BY DEF RegistryInv, R!Publish, R!Begin, R!At, R!About, R!ReadsOnly, R!memory, Tabled
<1>3. AboutThem'
  BY DEF RegistryInv, R!Publish, R!Begin, R!At, R!About, R!ReadsOnly, AboutThem, R!TypeOK
<1>4. InStep'
  BY DEF RegistryInv, R!Publish, R!Begin, R!At, R!About, R!ReadsOnly, R!memory, InStep
<1>5. UrlsKnown'
  BY DEF RegistryInv, R!Publish, R!Begin, R!At, R!ReadsOnly, R!memory, UrlsKnown, KnownUrls
<1>6. OneEach'
  BY DEF RegistryInv, R!Publish, R!Begin, R!At, R!About, R!ReadsOnly, R!memory, OneEach, Live
<1> QED
  BY <1>1, <1>2, <1>3, <1>4, <1>5, <1>6 DEF RegistryInv

LEMMA PublicationCreatedKeeps ==
    ASSUME RegistryInv, NEW c \in Requests, R!Created(c)
    PROVE  RegistryInv'
<1>1. R!TypeOK'
  <2>1. /\ copy'[c] \in R!Handle /\ copy' \in [Requests -> R!Handle \cup {NoUrl}]
        /\ \A d \in Requests \ {c} : copy'[d] = copy[d]
    <3>1. persisted[uuid[c]] \in R!Handle
      BY DEF RegistryInv, R!TypeOK, AboutThem, R!Created, R!At
    <3>2. copy' = [copy EXCEPT ![c] = [persisted[uuid[c]] EXCEPT !.url = c, !.state = "Synced"]]
      BY DEF R!Created, R!Holds
    <3>3. [persisted[uuid[c]] EXCEPT !.url = c, !.state = "Synced"] \in R!Handle
      BY <3>1, HandleChanged DEF R!States, R!Urls
    <3> QED
      BY <3>2, <3>3 DEF RegistryInv, R!TypeOK
  <2>2. /\ step' = [step EXCEPT ![c] = "read"]
        /\ UNCHANGED <<used, perspectives, persisted, running, handles, neighbourhoods, asked,
                       uuid, url, meant, crossed, joinedTwice, reboots>>
    BY DEF R!Created, R!At, R!ReadsOnly, R!memory
  <2> QED
    BY <2>1, <2>2 DEF RegistryInv, R!TypeOK
<1>2. Tabled'
  BY DEF RegistryInv, R!Created, R!At, R!ReadsOnly, R!memory, Tabled
<1>3. AboutThem'
  BY DEF RegistryInv, R!Created, R!At, R!ReadsOnly, AboutThem
<1>4. InStep'
  <2>1. /\ step[c] = "publish" /\ step' = [step EXCEPT ![c] = "read"]
        /\ copy' = [copy EXCEPT ![c] = [persisted[uuid[c]] EXCEPT !.url = c, !.state = "Synced"]]
        /\ UNCHANGED <<used, persisted, handles, asked, uuid, crossed, meant>>
    BY DEF R!Created, R!At, R!Holds, R!ReadsOnly, R!memory
  <2>2. asked[c] = "publish" /\ persisted[uuid[c]] \in R!Handle
    BY <2>1 DEF RegistryInv, AboutThem, R!TypeOK
  <2>3. /\ copy'[c] = [persisted[uuid[c]] EXCEPT !.url = c, !.state = "Synced"]
        /\ \A d \in Requests \ {c} : copy'[d] = copy[d] /\ step'[d] = step[d]
    BY <2>1 DEF RegistryInv, R!TypeOK
  <2>4. copy'[c].name = persisted[uuid[c]].name
    <3>1. [persisted[uuid[c]] EXCEPT !.url = c, !.state = "Synced"].name = persisted[uuid[c]].name
      BY <2>2 DEF R!Handle
    <3> QED
      BY <2>3, <3>1
  <2>5. ASSUME ~crossed', NEW d \in Requests, step'[d] = "read",
               NEW f \in {"name", "url", "state"} \ R!Fields[asked'[d]]
        PROVE  copy'[d][f] = persisted'[uuid'[d]][f]
    <3>1. CASE d = c
      <4>1. f = "name"
        BY <2>1, <2>2, <2>5, <3>1 DEF R!Fields
      <4> QED
        BY <2>1, <2>4, <3>1, <4>1
    <3>2. CASE d # c
      BY <2>1, <2>3, <2>5, <3>2 DEF RegistryInv, InStep
    <3> QED
      BY <3>1, <3>2
  <2> QED
    BY <2>1, <2>3, <2>5 DEF RegistryInv, InStep
<1>5. UrlsKnown'
  BY DEF RegistryInv, R!Created, R!At, R!Holds, R!ReadsOnly, R!memory, UrlsKnown, R!TypeOK,
         AboutThem, KnownUrls
<1>6. OneEach'
  BY DEF RegistryInv, R!Created, R!At, R!ReadsOnly, R!memory, OneEach, Live
<1> QED
  BY <1>1, <1>2, <1>3, <1>4, <1>5, <1>6 DEF RegistryInv

LEMMA NeighbourhoodFailsKeeps ==
    ASSUME RegistryInv, NEW c \in Requests, R!LanguagesFail(c)
    PROVE  RegistryInv'
<1>1. R!TypeOK'
  BY DEF RegistryInv, R!LanguagesFail, R!ReadsOnly, R!memory, R!TypeOK
<1>2. Tabled'
  BY DEF RegistryInv, R!LanguagesFail, R!ReadsOnly, R!memory, Tabled
<1>3. AboutThem'
  BY DEF RegistryInv, R!LanguagesFail, R!ReadsOnly, AboutThem
<1>4. InStep'
  BY DEF RegistryInv, R!LanguagesFail, R!ReadsOnly, R!memory, InStep
<1>5. UrlsKnown'
  BY DEF RegistryInv, R!LanguagesFail, R!ReadsOnly, R!memory, UrlsKnown, KnownUrls
<1>6. OneEach'
  BY DEF RegistryInv, R!LanguagesFail, R!ReadsOnly, R!memory, OneEach, Live
<1> QED
  BY <1>1, <1>2, <1>3, <1>4, <1>5, <1>6 DEF RegistryInv

LEMMA StoreInMemoryKeeps ==
    ASSUME RegistryInv, NEW c \in Requests, R!StoreInMemory(c)
    PROVE  RegistryInv'
<1>1. R!TypeOK'
  <2> USE DEF RegistryInv
  <2>1. CASE uuid[c] \notin perspectives
    BY <2>1, UrlsDiffer DEF R!StoreInMemory, R!At, R!TypeOK
  <2>2. CASE uuid[c] \in perspectives
    <3> DEFINE u == uuid[c]
    <3>1. /\ step[c] = "read" /\ step' = [step EXCEPT ![c] = "stored"]
          /\ persisted' = [persisted EXCEPT ![u] = copy[c]]
          /\ meant' = [meant EXCEPT ![u] = R!Merged(c, @)]
          /\ crossed' = (crossed \/ \E d \in Requests \ {c} :
                               step[d] \in {"read", "stored"} /\ uuid[d] = u)
          /\ neighbourhoods' = neighbourhoods \cup ({copy[c].url} \ {NoUrl})
          /\ UNCHANGED <<used, perspectives, running, handles, asked, uuid, url, copy,
                         joinedTwice, reboots>>
      BY <2>2 DEF R!StoreInMemory, R!At
    <3>2. u \in 1 .. used /\ copy[c] \in R!Handle
      BY <3>1 DEF AboutThem, R!TypeOK
    <3>3. R!Merged(c, meant[u]) \in R!Handle
      <4>1. meant[u] \in R!Handle
        BY <3>2 DEF R!TypeOK
      <4> QED
        BY <3>2, <4>1 DEF R!Merged, R!Handle
    <3>4. copy[c].url \in R!Urls \cup {NoUrl}
      BY <3>2 DEF R!Handle
    <3> QED
      BY <3>1, <3>2, <3>3, <3>4 DEF R!TypeOK
  <2> QED
    BY <2>1, <2>2
<1>2. Tabled'
  BY DEF RegistryInv, R!StoreInMemory, R!At, Tabled
<1>3. AboutThem'
  BY DEF RegistryInv, R!StoreInMemory, R!At, AboutThem
<1>4. InStep'
  <2> USE DEF RegistryInv
  <2>1. CASE uuid[c] \notin perspectives
    BY <2>1 DEF R!StoreInMemory, R!At, InStep
  <2>2. CASE uuid[c] \in perspectives
    <3> DEFINE u == uuid[c]
    <3>1. /\ step[c] = "read" /\ step' = [step EXCEPT ![c] = "stored"]
          /\ persisted' = [persisted EXCEPT ![u] = copy[c]]
          /\ meant' = [meant EXCEPT ![u] = R!Merged(c, @)]
          /\ crossed' = (crossed \/ \E d \in Requests \ {c} :
                               step[d] \in {"read", "stored"} /\ uuid[d] = u)
          /\ neighbourhoods' = neighbourhoods \cup ({copy[c].url} \ {NoUrl})
          /\ UNCHANGED <<used, perspectives, running, handles, asked, uuid, url, copy,
                         joinedTwice, reboots>>
      BY <2>2 DEF R!StoreInMemory, R!At
    <3>2. u \in 1 .. used /\ copy[c] \in R!Handle
      BY <3>1 DEF AboutThem, R!TypeOK
    <3>3. ASSUME ~crossed
          PROVE  R!Merged(c, meant[u]) = copy[c]
      BY <3>1, <3>2, <3>3 DEF R!Merged, R!TypeOK, R!Handle, InStep
    <3>4. /\ persisted'[u] = copy[c] /\ \A v \in 1 .. used \ {u} : persisted'[v] = persisted[v]
          /\ meant'[u] = R!Merged(c, meant[u]) /\ \A v \in 1 .. used \ {u} : meant'[v] = meant[v]
          /\ step'[c] = "stored" /\ \A d \in Requests \ {c} : step'[d] = step[d]
      BY <3>1, <3>2 DEF R!TypeOK
    <3>5. ASSUME ~crossed'
          PROVE  /\ ~crossed
                 /\ \A d \in Requests \ {c} : step[d] \in {"read", "stored"} => uuid[d] # u
      BY <3>1, <3>5
    <3>6. \A d \in Requests : step[d] \in {"read", "stored"} => uuid[d] \in 1 .. used
      BY DEF AboutThem
    <3>7. ASSUME ~crossed', NEW v \in DOMAIN handles'
          PROVE  persisted'[v] = handles'[v] \/ \E d \in Requests : step'[d] = "stored" /\ uuid'[d] = v
      <4>1. v \in 1 .. used
        BY <3>1 DEF R!TypeOK
      <4>2. CASE v = u
        BY <3>1, <3>4, <4>2
      <4>3. CASE v # u
        BY <3>1, <3>4, <3>5, <3>7, <4>1, <4>3 DEF InStep
      <4> QED
        BY <4>2, <4>3
    <3>8. ASSUME ~crossed', NEW d \in Requests, step'[d] = "read",
                 NEW f \in {"name", "url", "state"} \ R!Fields[asked'[d]]
          PROVE  copy'[d][f] = persisted'[uuid'[d]][f]
      BY <3>1, <3>4, <3>5, <3>6, <3>8 DEF InStep
    <3>9. ~crossed' => \A v \in 1 .. used' : persisted'[v] = meant'[v]
      BY <3>1, <3>3, <3>4, <3>5 DEF InStep
    <3>10. ~crossed' => \A d \in Requests : step'[d] = "stored" => copy'[d] = persisted'[uuid'[d]]
      BY <3>1, <3>4, <3>5, <3>6 DEF InStep
    <3> QED
      BY <3>7, <3>8, <3>9, <3>10 DEF InStep
  <2> QED
    BY <2>1, <2>2
<1>5. UrlsKnown'
  <2> USE DEF RegistryInv
  <2>1. CASE uuid[c] \notin perspectives
    BY <2>1 DEF R!StoreInMemory, R!At, UrlsKnown, KnownUrls
  <2>2. CASE uuid[c] \in perspectives
    <3> DEFINE u == uuid[c]
    <3>1. /\ step[c] = "read" /\ step' = [step EXCEPT ![c] = "stored"]
          /\ persisted' = [persisted EXCEPT ![u] = copy[c]]
          /\ meant' = [meant EXCEPT ![u] = R!Merged(c, @)]
          /\ crossed' = (crossed \/ \E d \in Requests \ {c} :
                               step[d] \in {"read", "stored"} /\ uuid[d] = u)
          /\ neighbourhoods' = neighbourhoods \cup ({copy[c].url} \ {NoUrl})
          /\ UNCHANGED <<used, perspectives, running, handles, asked, uuid, url, copy,
                         joinedTwice, reboots>>
      BY <2>2 DEF R!StoreInMemory, R!At
    <3>2. u \in 1 .. used /\ copy[c] \in R!Handle
      BY <3>1 DEF AboutThem, R!TypeOK
    <3> QED
      BY <3>1, <3>2 DEF UrlsKnown, KnownUrls, R!TypeOK
  <2> QED
    BY <2>1, <2>2
<1>6. OneEach'
  <2> USE DEF RegistryInv
  <2>1. CASE uuid[c] \notin perspectives
    BY <2>1 DEF R!StoreInMemory, R!At, OneEach, Live
  <2>2. CASE uuid[c] \in perspectives
    <3> DEFINE u == uuid[c]
    <3>1. /\ step[c] = "read" /\ step' = [step EXCEPT ![c] = "stored"]
          /\ persisted' = [persisted EXCEPT ![u] = copy[c]]
          /\ meant' = [meant EXCEPT ![u] = R!Merged(c, @)]
          /\ crossed' = (crossed \/ \E d \in Requests \ {c} :
                               step[d] \in {"read", "stored"} /\ uuid[d] = u)
          /\ neighbourhoods' = neighbourhoods \cup ({copy[c].url} \ {NoUrl})
          /\ UNCHANGED <<used, perspectives, running, handles, asked, uuid, url, copy,
                         joinedTwice, reboots>>
      BY <2>2 DEF R!StoreInMemory, R!At
    <3>2. u \in 1 .. used /\ copy[c] \in R!Handle
      BY <3>1 DEF AboutThem, R!TypeOK
    <3>3. CASE asked[c] = "publish"
      <4>1. /\ copy[c].url = c /\ c \notin neighbourhoods
            /\ \A v \in 1 .. used : persisted[v].url # c
            /\ \A d \in Requests : url[d] # c
        BY <3>1, <3>3, UrlsDiffer DEF UrlsKnown, KnownUrls
      <4>2. /\ persisted'[u] = copy[c] /\ \A v \in 1 .. used \ {u} : persisted'[v] = persisted[v]
            /\ Live' = Live /\ Live \subseteq 1 .. used
            /\ \A d \in Requests \ {c} : step'[d] = step[d]
            /\ step'[c] = "stored"
        BY <3>1, <3>2 DEF R!TypeOK, Live
      <4>3. \A d \in Requests : step[d] = "added" => uuid[d] # u
        BY <2>2 DEF Tabled
      <4>4. ASSUME ~crossed', ~joinedTwice'
            PROVE  /\ ~crossed /\ ~joinedTwice /\ UNCHANGED <<url, uuid>>
                   /\ persisted'[u].url = c
                   /\ \A v \in Live : persisted[v].url # c
                   /\ \A v \in Live \ {u} : persisted'[v] = persisted[v]
        BY <3>1, <4>1, <4>2, <4>4
      <4>5. ASSUME ~crossed', ~joinedTwice', NEW v \in Live', NEW w \in Live',
                   persisted'[v].url = persisted'[w].url, persisted'[v].url # NoUrl
            PROVE  v = w
        <5>1. CASE v = u \/ w = u
          BY <4>2, <4>5, <4>4, <5>1
        <5>2. CASE v # u /\ w # u
          BY <4>2, <4>5, <4>4, <5>2 DEF OneEach
        <5> QED
          BY <5>1, <5>2
      <4>6. ASSUME ~crossed', ~joinedTwice', NEW d \in Requests, step'[d] = "join",
                   NEW v \in Live'
            PROVE  persisted'[v].url # url'[d]
        <5>1. step[d] = "join" /\ url'[d] = url[d] /\ url[d] # c
          BY <4>1, <4>2, <4>6, <4>4
        <5>2. CASE v = u
          BY <4>6, <4>4, <5>1, <5>2
        <5>3. CASE v # u
          BY <4>2, <4>6, <4>4, <5>1, <5>3 DEF OneEach
        <5> QED
          BY <5>2, <5>3
      <4>7. ASSUME ~crossed', ~joinedTwice', NEW d \in Requests, step'[d] = "added"
            PROVE  persisted'[uuid'[d]].url = url'[d]
        <5>1. step[d] = "added" /\ uuid[d] # u /\ uuid[d] \in 1 .. used
          BY <4>2, <4>3, <4>7 DEF AboutThem
        <5> QED
          BY <4>2, <4>7, <4>4, <5>1 DEF OneEach
      <4>8. ASSUME ~crossed', ~joinedTwice', NEW d \in Requests, NEW e \in Requests,
                   step'[d] \in {"join", "added"}, step'[e] \in {"join", "added"},
                   url'[d] = url'[e], url'[d] # NoUrl
            PROVE  d = e
        BY <3>1, <4>2, <4>8 DEF OneEach
      <4> QED
        BY <4>5, <4>6, <4>7, <4>8 DEF OneEach
    <3>4. CASE asked[c] # "publish"
      <4>1. ~crossed => copy[c].url = persisted[u].url
        BY <3>1, <3>4 DEF InStep, AboutThem, R!Fields
      <4>2. ~crossed' => ~crossed /\ \A v \in 1 .. used : persisted'[v].url = persisted[v].url
        BY <3>1, <3>2, <4>1 DEF R!TypeOK
      <4>3. Live' = Live /\ Live \subseteq 1 .. used
        BY <3>1 DEF Live, R!TypeOK
      <4>4. \A d \in Requests : step'[d] \in {"join", "added"} => step'[d] = step[d]
        BY <3>1 DEF R!TypeOK
      <4>5. \A d \in Requests : step[d] = "added" => uuid[d] \in 1 .. used
        BY DEF AboutThem
      <4> QED
        BY <3>1, <4>2, <4>3, <4>4, <4>5 DEF OneEach
    <3> QED
      BY <3>3, <3>4
  <2> QED
    BY <2>1, <2>2
<1> QED
  BY <1>1, <1>2, <1>3, <1>4, <1>5, <1>6 DEF RegistryInv

LEMMA StoreInRowKeeps ==
    ASSUME RegistryInv, NEW c \in Requests, R!StoreInRow(c)
    PROVE  RegistryInv'
<1>1. R!TypeOK'
  BY DEF RegistryInv, R!StoreInRow, R!At, R!memory, R!With, R!TypeOK
<1>2. Tabled'
  BY DEF RegistryInv, R!StoreInRow, R!At, R!memory, R!With, Tabled
<1>3. AboutThem'
  BY DEF RegistryInv, R!StoreInRow, R!At, AboutThem
<1>4. InStep'
  BY DEF RegistryInv, R!StoreInRow, R!At, R!memory, R!With, InStep
<1>5. UrlsKnown'
  BY DEF RegistryInv, R!StoreInRow, R!At, R!memory, R!With, UrlsKnown, KnownUrls
<1>6. OneEach'
  BY DEF RegistryInv, R!StoreInRow, R!At, R!memory, R!With, OneEach, Live
<1> QED
  BY <1>1, <1>2, <1>3, <1>4, <1>5, <1>6 DEF RegistryInv

LEMMA RemoveKeeps ==
    ASSUME RegistryInv, NEW c \in Requests, NEW u \in perspectives, R!Remove(c, u)
    PROVE  RegistryInv'
<1>1. R!TypeOK'
  BY BoundsOfPerspectives
     DEF RegistryInv, R!Remove, R!Begin, R!At, R!About, R!memory, R!TypeOK, R!Uuids
<1>2. Tabled'
  BY DEF RegistryInv, R!Remove, R!Begin, R!At, R!About, R!memory, Tabled, R!TypeOK
<1>3. AboutThem'
  BY DEF RegistryInv, R!Remove, R!Begin, R!At, R!About, AboutThem, R!TypeOK
<1>4. InStep'
  BY DEF RegistryInv, R!Remove, R!Begin, R!At, R!About, R!memory, InStep, R!Handle
<1>5. UrlsKnown'
  BY DEF RegistryInv, R!Remove, R!Begin, R!At, R!memory, UrlsKnown, KnownUrls
<1>6. OneEach'
  BY DEF RegistryInv, R!Remove, R!Begin, R!At, R!About, R!memory, OneEach, Live
<1> QED
  BY <1>1, <1>2, <1>3, <1>4, <1>5, <1>6 DEF RegistryInv

LEMMA ForgottenKeeps ==
    ASSUME RegistryInv, NEW c \in Requests, R!Forgotten(c)
    PROVE  RegistryInv'
<1>1. R!TypeOK'
  BY DEF RegistryInv, R!Forgotten, R!At, R!TypeOK
<1>2. Tabled'
  BY DEF RegistryInv, R!Forgotten, R!At, Tabled
<1>3. AboutThem'
  BY DEF RegistryInv, R!Forgotten, R!At, AboutThem
<1>4. InStep'
  BY DEF RegistryInv, R!Forgotten, R!At, InStep
<1>5. UrlsKnown'
  BY DEF RegistryInv, R!Forgotten, R!At, UrlsKnown, KnownUrls
<1>6. OneEach'
  BY DEF RegistryInv, R!Forgotten, R!At, OneEach, AboutThem, Live
<1> QED
  BY <1>1, <1>2, <1>3, <1>4, <1>5, <1>6 DEF RegistryInv

LEMMA RegistryRestartKeeps ==
    ASSUME RegistryInv, R!Restart
    PROVE  RegistryInv'
<1> USE DEF RegistryInv, R!Restart
<1>1. R!TypeOK'
  BY BoundsOfPerspectives DEF R!TypeOK
<1>2. Tabled'
  BY DEF Tabled, R!TypeOK
<1>3. AboutThem'
  BY DEF AboutThem, R!TypeOK
<1>4. InStep'
  BY DEF InStep, R!TypeOK
<1>5. UrlsKnown'
  BY DEF UrlsKnown, KnownUrls, R!TypeOK
<1>6. OneEach'
  <2>1. Live' \subseteq Live
    BY DEF Live
  <2>2. crossed' \/ (~crossed /\ \A c \in Requests : step[c] # "stored")
    OBVIOUS
  <2>3. ASSUME ~crossed'
        PROVE  \A u \in 1 .. used : persisted'[u] = persisted[u]
    BY <2>2, <2>3 DEF InStep, R!TypeOK
  <2>4. \A c \in Requests : step'[c] \in {"idle", "done"}
    OBVIOUS
  <2> QED
    BY <2>1, <2>2, <2>3, <2>4 DEF OneEach, Live, R!TypeOK
<1> QED
  BY <1>1, <1>2, <1>3, <1>4, <1>5, <1>6

(* Every step of the registry keeps the invariant.                         *)
LEMMA RegistryStep == RegistryInv /\ [R!Next]_registryVars => RegistryInv'
<1> SUFFICES ASSUME RegistryInv, [R!Next]_registryVars
             PROVE  RegistryInv'
  OBVIOUS
<1>1. CASE R!Next
  BY <1>1, AddPerspectiveKeeps, KnownKeeps, JoinKeeps, JoinedKeeps, RenameKeeps, SetStateKeeps,
     PublishKeeps, PublicationCreatedKeeps, NeighbourhoodFailsKeeps, StoreInMemoryKeeps,
     StoreInRowKeeps,
     RemoveKeeps, ForgottenKeeps, RegistryRestartKeeps
     DEF R!Next
<1>2. CASE UNCHANGED registryVars
  <2> USE <1>2 DEF registryVars, RegistryInv
  <2>1. R!TypeOK'
    BY DEF R!TypeOK
  <2>2. Tabled' /\ AboutThem'
    BY DEF Tabled, AboutThem
  <2>3. InStep'
    BY DEF InStep
  <2>4. UrlsKnown'
    BY DEF UrlsKnown, KnownUrls
  <2>5. OneEach'
    BY DEF OneEach, Live
  <2> QED
    BY <2>1, <2>2, <2>3, <2>4, <2>5
<1> QED
  BY <1>1, <1>2

LEMMA RegistryInit == R!Init => RegistryInv
<1> SUFFICES ASSUME R!Init
             PROVE  RegistryInv
  OBVIOUS
<1> USE DEF R!Init
<1>1. R!TypeOK
  <2>1. used \in 0 .. MaxPerspectives /\ 1 \in R!Uuids /\ 0 \in 0 .. MaxReboots
    BY BoundsOfPerspectives DEF R!Uuids
  <2>2. [name |-> R!Named, url |-> NoUrl, state |-> "Private"] \in R!Handle
    BY DEF R!Handle, R!States
  <2>3. handles \in [1 .. used -> R!Handle]
    BY <2>2
  <2> QED
    BY <2>1, <2>3 DEF R!TypeOK, R!Urls
<1>2. Tabled /\ AboutThem
  BY DEF Tabled, AboutThem
<1>3. InStep
  BY DEF InStep
<1>4. UrlsKnown
  BY UrlsDiffer DEF UrlsKnown, KnownUrls
<1>5. OneEach
  BY DEF OneEach, Live
<1> QED
  BY <1>1, <1>2, <1>3, <1>4, <1>5 DEF RegistryInv

LEMMA RegistryImplies == RegistryInv => HandlesKept
<1> SUFFICES ASSUME RegistryInv
             PROVE  HandlesKept
  OBVIOUS
<1>1. R!HandlesKept
  <2> SUFFICES ASSUME R!Settled
               PROVE  /\ perspectives = DOMAIN handles /\ running = perspectives
                      /\ ~crossed => \A u \in perspectives :
                                        persisted[u] = handles[u] /\ persisted[u] = meant[u]
    BY DEF R!HandlesKept
  <2>1. perspectives = DOMAIN handles /\ running = perspectives
    BY DEF RegistryInv, R!Settled, Tabled
  <2> QED
    BY <2>1 DEF RegistryInv, R!Settled, InStep, R!TypeOK
<1>2. R!JoinedOnce
  BY DEF RegistryInv, R!JoinedOnce, OneEach, Live
<1> QED
  BY <1>1, <1>2 DEF HandlesKept

(***************************************************************************)
(* Agent.                                                                  *)
(***************************************************************************)

(* There is an agent once its keys were generated, and no call gets        *)
(* anywhere before.                                                        *)
Generated ==
    /\ file = NoAgent <=> agent = NoAgent
    /\ file = NoAgent =>
          /\ profileFile = NoAgent /\ cipher = NoAgent /\ keys = "none" /\ holochain = "none"
          /\ told = A!Nobody /\ zome = <<>>
          /\ \A c \in Clients : at[c] \in {"idle", "done"}

(* The profile on the disk is the one in memory, or there is none yet.     *)
OnDisk ==
    agent # NoAgent => profileFile = agent \/ (profileFile = NoAgent /\ agent = A!Nobody)

(* Who waits for an answer about the profile has asked once.               *)
ZomeCall == [from : Clients, fn : {"create", "get"}, profile : A!Profile]

AskedOnce(z, stages) ==
    /\ \A k \in DOMAIN z : z[k].fn = "get" => stages[z[k].from] = "get"
    /\ \A j, k \in DOMAIN z :
          z[j].fn = "get" /\ z[k].fn = "get" /\ z[j].from = z[k].from => j = k

Getting == AskedOnce(zome, at)

(* Copies that will be written are what the profile is.                    *)
HeldIsNow ==
    /\ agent # NoAgent /\ ~raced => agent = told
    /\ ~raced => \A c \in A!Holders : held[c] = agent

(* The last publication that is under way is of the profile, and if there  *)
(* is none, the profile is published.                                      *)
Creates(z) == {k \in DOMAIN z : z[k].fn = "create"}

LastIs(z, expression, profile) ==
    \/ Creates(z) = {} /\ expression = profile
    \/ \E k \in Creates(z) : z[k].profile = profile /\ \A j \in Creates(z) : j <= k

LastIsNow == agent # NoAgent /\ ~missed => LastIs(zome, published, agent)

AgentInv == A!TypeOK /\ Generated /\ OnDisk /\ Getting /\ HeldIsNow /\ LastIsNow

(* The queue of zome calls, when a call is put into it, and when its first *)
(* call is answered.                                                       *)
LEMMA QueueTyped ==
    ASSUME NEW z \in Seq(ZomeCall)
    PROVE  /\ \A e \in ZomeCall : Append(z, e) \in Seq(ZomeCall)
           /\ z # <<>> => Head(z) \in ZomeCall /\ Tail(z) \in Seq(ZomeCall)
OBVIOUS

LEMMA QueueAppended ==
    ASSUME NEW z \in Seq(ZomeCall), NEW e \in ZomeCall
    PROVE  /\ DOMAIN Append(z, e) = 1 .. Len(z) + 1 /\ DOMAIN z = 1 .. Len(z)
           /\ Append(z, e)[Len(z) + 1] = e
           /\ \A k \in DOMAIN z : Append(z, e)[k] = z[k]
OBVIOUS

LEMMA QueueServed ==
    ASSUME NEW z \in Seq(ZomeCall), z # <<>>
    PROVE  /\ DOMAIN z = 1 .. Len(z) /\ Len(z) \in Nat \ {0}
           /\ DOMAIN Tail(z) = 1 .. Len(z) - 1
           /\ Head(z) = z[1]
           /\ \A k \in DOMAIN Tail(z) : Tail(z)[k] = z[k + 1]
OBVIOUS

LEMMA OnceMoves ==
    ASSUME NEW z \in Seq(ZomeCall), NEW stages \in [Clients -> A!Stages], AskedOnce(z, stages),
           NEW c \in Clients, stages[c] # "get", NEW s
    PROVE  AskedOnce(z, [stages EXCEPT ![c] = s])
BY DEF AskedOnce, ZomeCall

LEMMA OnceAsks ==
    ASSUME NEW z \in Seq(ZomeCall), NEW stages \in [Clients -> A!Stages], AskedOnce(z, stages),
           NEW c \in Clients, stages[c] # "get", NEW s,
           NEW e \in ZomeCall, e.fn = "get" => e.from = c /\ s = "get"
    PROVE  AskedOnce(Append(z, e), [stages EXCEPT ![c] = s])
<1> DEFINE q == Append(z, e)
<1> DEFINE after == [stages EXCEPT ![c] = s]
<1>1. AskedOnce(z, after)
  BY OnceMoves
<1>2. \A k \in DOMAIN z : z[k].fn = "get" => z[k].from # c
  BY DEF AskedOnce
<1>3. /\ DOMAIN q = 1 .. Len(z) + 1 /\ DOMAIN z = 1 .. Len(z) /\ Len(z) \in Nat
      /\ q[Len(z) + 1] = e /\ \A k \in DOMAIN z : q[k] = z[k]
  BY QueueAppended
<1>4. e.fn = "get" => after[e.from] = "get"
  OBVIOUS
<1> HIDE DEF q, after
<1> QED
  BY <1>1, <1>2, <1>3, <1>4 DEF AskedOnce

LEMMA OnceServed ==
    ASSUME NEW z \in Seq(ZomeCall), z # <<>>,
           NEW stages \in [Clients -> A!Stages], AskedOnce(z, stages)
    PROVE  /\ AskedOnce(Tail(z), stages)
           /\ Head(z).fn = "get" =>
                 \A s : AskedOnce(Tail(z), [stages EXCEPT ![Head(z).from] = s])
<1> DEFINE q == Tail(z)
<1>1. /\ DOMAIN z = 1 .. Len(z) /\ Len(z) \in Nat \ {0} /\ DOMAIN q = 1 .. Len(z) - 1
      /\ Head(z) = z[1] /\ \A k \in DOMAIN q : q[k] = z[k + 1]
  BY QueueServed
<1>2. \A k \in DOMAIN q : k + 1 \in DOMAIN z /\ k + 1 # 1 /\ q[k].from \in Clients
  <2>1. \A k \in DOMAIN z : z[k] \in ZomeCall
    OBVIOUS
  <2> QED
    BY <1>1, <2>1 DEF ZomeCall
<1> HIDE DEF q
<1>3. AskedOnce(q, stages)
  BY <1>1, <1>2 DEF AskedOnce
<1>4. ASSUME Head(z).fn = "get", NEW s
      PROVE  AskedOnce(q, [stages EXCEPT ![Head(z).from] = s])
  <2>1. \A k \in DOMAIN q : q[k].fn = "get" => q[k].from # Head(z).from
    BY <1>1, <1>2, <1>4 DEF AskedOnce
  <2> QED
    BY <1>2, <1>3, <2>1 DEF AskedOnce
<1> QED
  BY <1>3, <1>4 DEF q

LEMMA LastAsks ==
    ASSUME NEW z \in Seq(ZomeCall), NEW e \in ZomeCall, NEW expression, NEW profile,
           IF e.fn = "get" THEN LastIs(z, expression, profile) ELSE e.profile = profile
    PROVE  LastIs(Append(z, e), expression, profile)
<1> DEFINE q == Append(z, e)
<1>1. /\ DOMAIN q = 1 .. Len(z) + 1 /\ DOMAIN z = 1 .. Len(z) /\ Len(z) \in Nat
      /\ q[Len(z) + 1] = e /\ \A k \in DOMAIN z : q[k] = z[k]
  BY QueueAppended
<1>2. e.fn \in {"create", "get"}
  BY DEF ZomeCall
<1> HIDE DEF q
<1>3. CASE e.fn = "get"
  <2>1. Creates(q) = Creates(z)
    BY <1>1, <1>3 DEF Creates
  <2> QED
    BY <1>1, <1>3, <2>1 DEF LastIs, Creates, q
<1>4. CASE e.fn = "create"
  <2>1. Len(z) + 1 \in Creates(q) /\ \A j \in Creates(q) : j <= Len(z) + 1
    BY <1>1, <1>4 DEF Creates
  <2> QED
    BY <1>1, <1>4, <2>1 DEF LastIs, q
<1> QED
  BY <1>2, <1>3, <1>4

LEMMA LastServed ==
    ASSUME NEW z \in Seq(ZomeCall), z # <<>>, NEW expression, NEW profile,
           LastIs(z, expression, profile)
    PROVE  /\ Head(z).fn = "create" => LastIs(Tail(z), Head(z).profile, profile)
           /\ Head(z).fn = "get" \/ (\E k \in 2 .. Len(z) : z[k].fn = "create")
                 => LastIs(Tail(z), expression, profile)
<1> DEFINE q == Tail(z)
<1>1. /\ DOMAIN z = 1 .. Len(z) /\ Len(z) \in Nat \ {0} /\ DOMAIN q = 1 .. Len(z) - 1
      /\ Head(z) = z[1] /\ \A k \in DOMAIN q : q[k] = z[k + 1]
  BY QueueServed
<1> HIDE DEF q
<1>2. \A k \in Creates(z) : k # 1 => k - 1 \in Creates(q) /\ q[k - 1] = z[k]
  BY <1>1 DEF Creates
<1>3. \A k \in Creates(q) : k + 1 \in Creates(z) /\ k \in 1 .. Len(z) - 1 /\ q[k] = z[k + 1]
  BY <1>1 DEF Creates
<1>4. Creates(z) \subseteq 1 .. Len(z)
  BY <1>1 DEF Creates
<1>5. CASE Creates(z) = {}
  BY <1>1, <1>3, <1>5 DEF LastIs, Creates, q
<1>6. ASSUME NEW k \in Creates(z), z[k].profile = profile, \A j \in Creates(z) : j <= k, k # 1
      PROVE  \A x : LastIs(q, x, profile)
  <2>1. k - 1 \in Creates(q) /\ q[k - 1].profile = profile
    BY <1>2, <1>6
  <2>2. \A j \in Creates(q) : j <= k - 1
    BY <1>1, <1>3, <1>4, <1>6
  <2> QED
    BY <2>1, <2>2 DEF LastIs
<1>7. ASSUME 1 \in Creates(z), z[1].profile = profile, \A j \in Creates(z) : j <= 1
      PROVE  /\ LastIs(q, z[1].profile, profile)
             /\ z[1].fn = "create" /\ \A j \in 2 .. Len(z) : z[j].fn # "create"
  <2>1. \A j \in 2 .. Len(z) : j \notin Creates(z)
    BY <1>1, <1>7
  <2>2. Creates(q) = {}
    BY <1>1, <1>3, <1>4, <1>7
  <2> QED
    BY <1>1, <1>7, <2>1, <2>2 DEF LastIs, Creates
<1>8. CASE \E k \in Creates(z) : z[k].profile = profile /\ \A j \in Creates(z) : j <= k
  BY <1>1, <1>6, <1>7, <1>8 DEF q
<1> QED
  BY <1>5, <1>8 DEF LastIs

(* Where A!TypeOK speaks of the queue.                                     *)
LEMMA AgentTyped ==
    ASSUME A!TypeOK
    PROVE  /\ zome \in Seq(ZomeCall) /\ at \in [Clients -> A!Stages]
           /\ agent # NoAgent => agent \in A!Profile
BY DEF A!TypeOK, ZomeCall

(* A call that saves the profile p and hands it over, if it can.           *)
LEMMA SavedAndStored ==
    ASSUME AgentInv, NEW c \in Clients, NEW p \in A!Profile, file # NoAgent, at[c] # "get",
           A!Save(c, p), A!Store(c, p, "publish", "done"), missed' = ~A!CanStore,
           UNCHANGED published
    PROVE  /\ zome' \in Seq(ZomeCall) /\ at' \in [Clients -> A!Stages]
           /\ agent' = p /\ profileFile' = p /\ p # NoAgent
           /\ Getting' /\ LastIsNow'
<1> DEFINE e == [from |-> c, fn |-> "create", profile |-> p]
<1>1. agent' = p /\ profileFile' = p /\ p # NoAgent
  BY NoAgentIsNone DEF A!Save
<1>2. e \in ZomeCall /\ e.fn = "create" /\ e.profile = p
  BY DEF ZomeCall
<1>3. zome \in Seq(ZomeCall) /\ at \in [Clients -> A!Stages] /\ AskedOnce(zome, at)
  BY AgentTyped DEF AgentInv, Getting
<1> HIDE DEF e
<1>4. CASE A!CanStore
  <2>1. zome' = Append(zome, e) /\ at' = [at EXCEPT ![c] = "publish"]
    BY <1>4 DEF A!Store, A!Ask, A!Go, e
  <2>2. zome' \in Seq(ZomeCall) /\ at' \in [Clients -> A!Stages]
    BY <1>2, <1>3, <2>1, QueueTyped DEF A!Stages
  <2>3. Getting'
    BY <1>2, <1>3, <2>1, OnceAsks DEF Getting
  <2>4. LastIs(Append(zome, e), published, p)
    BY <1>2, <1>3, LastAsks
  <2> QED
    BY <1>1, <2>1, <2>2, <2>3, <2>4 DEF LastIsNow
<1>5. CASE ~A!CanStore
  <2>1. zome' = zome /\ at' = [at EXCEPT ![c] = "done"] /\ missed'
    BY <1>5 DEF A!Store, A!Go
  <2>2. Getting'
    BY <1>3, <2>1, OnceMoves DEF Getting
  <2> QED
    BY <1>1, <1>3, <2>1, <2>2 DEF LastIsNow, A!Stages
<1> QED
  BY <1>4, <1>5

LEMMA GenerateKeeps ==
    ASSUME AgentInv, NEW c \in Clients, NEW p \in Passphrases, A!Generate(c, p)
    PROVE  AgentInv'
<1>1. A!TypeOK'
  BY DEF AgentInv, A!Generate, A!Begin, A!Go, A!Nobody, A!bounds, A!history, A!TypeOK,
         A!Profile, A!Asked, A!Stages
<1>2. Generated'
  BY NoAgentIsNone DEF AgentInv, A!Generate, Generated, A!TypeOK
<1>3. OnDisk'
  BY DEF AgentInv, A!Generate, OnDisk, Generated
<1>4. Getting'
  <2>1. zome \in Seq(ZomeCall) /\ at \in [Clients -> A!Stages] /\ AskedOnce(zome, at)
    BY AgentTyped DEF AgentInv, Getting
  <2>2. at[c] # "get" /\ zome' = zome
    BY DEF A!Generate, A!Begin
  <2>3. PICK s : at' = [at EXCEPT ![c] = s]
    BY DEF A!Generate, A!Go
  <2>4. AskedOnce(zome, [at EXCEPT ![c] = s])
    BY <2>1, <2>2, OnceMoves
  <2> QED
    BY <2>2, <2>3, <2>4 DEF Getting
<1>5. HeldIsNow'
  BY DEF AgentInv, A!Generate, A!Go, A!history, HeldIsNow, A!Holders, Generated
<1>6. LastIsNow'
  BY DEF A!Generate, LastIsNow
<1> QED
  BY <1>1, <1>2, <1>3, <1>4, <1>5, <1>6 DEF AgentInv

LEMMA UnlockKeeps ==
    ASSUME AgentInv, NEW c \in Clients, NEW p \in Passphrases, A!Unlock(c, p)
    PROVE  AgentInv'
<1>1. A!TypeOK'
  BY DEF AgentInv, A!Unlock, A!Begin, A!Go, A!disk, A!core, A!bounds, A!history, A!TypeOK,
         A!Asked, A!Stages
<1>2. Generated'
  BY DEF AgentInv, A!Unlock, A!disk, Generated
<1>3. OnDisk'
  BY DEF AgentInv, A!Unlock, A!disk, OnDisk
<1>4. Getting'
  <2>1. zome \in Seq(ZomeCall) /\ at \in [Clients -> A!Stages] /\ AskedOnce(zome, at)
    BY AgentTyped DEF AgentInv, Getting
  <2>2. at[c] # "get" /\ zome' = zome
    BY DEF A!Unlock, A!Begin
  <2>3. PICK s : at' = [at EXCEPT ![c] = s]
    BY DEF A!Unlock, A!Go
  <2>4. AskedOnce(zome, [at EXCEPT ![c] = s])
    BY <2>1, <2>2, OnceMoves
  <2> QED
    BY <2>2, <2>3, <2>4 DEF Getting
<1>5. HeldIsNow'
  BY DEF AgentInv, A!Unlock, A!Go, A!history, HeldIsNow, A!TypeOK, A!Holders
<1>6. LastIsNow'
  BY DEF AgentInv, A!Unlock, LastIsNow
<1> QED
  BY <1>1, <1>2, <1>3, <1>4, <1>5, <1>6 DEF AgentInv

LEMMA LockKeeps ==
    ASSUME AgentInv, NEW c \in Clients, NEW p \in Passphrases, A!Lock(c, p)
    PROVE  AgentInv'
<1>1. A!TypeOK'
  BY DEF AgentInv, A!Lock, A!Begin, A!Go, A!disk, A!wallet, A!core, A!bounds, A!history,
         A!TypeOK, A!Asked, A!Stages
<1>2. Generated'
  BY DEF AgentInv, A!Lock, A!Go, A!disk, A!wallet, A!core, A!history, Generated
<1>3. OnDisk'
  BY DEF AgentInv, A!Lock, A!disk, OnDisk
<1>4. Getting'
  <2>1. zome \in Seq(ZomeCall) /\ at \in [Clients -> A!Stages] /\ AskedOnce(zome, at)
    BY AgentTyped DEF AgentInv, Getting
  <2>2. at[c] # "get" /\ zome' = zome
    BY DEF A!Lock, A!Begin
  <2>3. PICK s : at' = [at EXCEPT ![c] = s]
    BY DEF A!Lock, A!Go
  <2>4. AskedOnce(zome, [at EXCEPT ![c] = s])
    BY <2>1, <2>2, OnceMoves
  <2> QED
    BY <2>2, <2>3, <2>4 DEF Getting
<1>5. HeldIsNow'
  BY DEF AgentInv, A!Lock, A!Go, A!history, HeldIsNow, A!Holders
<1>6. LastIsNow'
  BY DEF AgentInv, A!Lock, LastIsNow
<1> QED
  BY <1>1, <1>2, <1>3, <1>4, <1>5, <1>6 DEF AgentInv

LEMMA UnlockAgainKeeps ==
    ASSUME AgentInv, NEW c \in Clients, A!UnlockAgain(c)
    PROVE  AgentInv'
<1>1. A!TypeOK'
  BY DEF AgentInv, A!UnlockAgain, A!Go, A!disk, A!core, A!bounds, A!history, A!TypeOK, A!Stages
<1>2. Generated'
  BY DEF AgentInv, A!UnlockAgain, A!disk, Generated
<1>3. OnDisk'
  BY DEF AgentInv, A!UnlockAgain, A!disk, OnDisk
<1>4. Getting'
  <2>1. zome \in Seq(ZomeCall) /\ at \in [Clients -> A!Stages] /\ AskedOnce(zome, at)
    BY AgentTyped DEF AgentInv, Getting
  <2>2. at[c] # "get" /\ zome' = zome
    BY DEF A!UnlockAgain, A!Begin
  <2>3. PICK s : at' = [at EXCEPT ![c] = s]
    BY DEF A!UnlockAgain, A!Go
  <2>4. AskedOnce(zome, [at EXCEPT ![c] = s])
    BY <2>1, <2>2, OnceMoves
  <2> QED
    BY <2>2, <2>3, <2>4 DEF Getting
<1>5. HeldIsNow'
  BY DEF AgentInv, A!UnlockAgain, A!Go, A!history, HeldIsNow, A!TypeOK, A!Holders
<1>6. LastIsNow'
  BY DEF AgentInv, A!UnlockAgain, LastIsNow
<1> QED
  BY <1>1, <1>2, <1>3, <1>4, <1>5, <1>6 DEF AgentInv

LEMMA StoreUnlockedKeeps ==
    ASSUME AgentInv, NEW c \in Clients, A!StoreUnlocked(c)
    PROVE  AgentInv'
<1>1. A!TypeOK'
  <2>1. zome' \in Seq(ZomeCall)
    <3>1. agent \in A!Profile
      BY AgentTyped DEF AgentInv, A!StoreUnlocked, Generated
    <3>2. zome' = zome \/ \E e \in ZomeCall : zome' = Append(zome, e)
      BY <3>1 DEF ZomeCall, A!StoreUnlocked, A!Store, A!Ask
    <3> QED
      BY <3>2, AgentTyped, QueueTyped DEF AgentInv
  <2>2. /\ \E s \in A!Stages : at' = [at EXCEPT ![c] = s]
        /\ missed' \in BOOLEAN
        /\ UNCHANGED <<file, profileFile, cipher, keys, agent, published, holochain, language,
                       call,
                       given, held, told, raced, failures, restarts>>
    BY DEF AgentInv, A!TypeOK, A!StoreUnlocked, A!Store, A!Go, A!Stages, A!disk, A!wallet,
           A!core, A!bounds, A!history
  <2> QED
    BY <2>1, <2>2 DEF AgentInv, A!TypeOK, ZomeCall
<1>2. Generated'
  BY DEF AgentInv, A!StoreUnlocked, A!disk, Generated
<1>3. OnDisk'
  BY DEF AgentInv, A!StoreUnlocked, A!disk, OnDisk
<1>4. Getting'
  <2>1. zome \in Seq(ZomeCall) /\ at \in [Clients -> A!Stages] /\ AskedOnce(zome, at)
    BY AgentTyped DEF AgentInv, Getting
  <2>2. at[c] = "again" /\ at' = [at EXCEPT ![c] = "store"] /\ agent \in A!Profile
    BY AgentTyped DEF AgentInv, Generated, A!StoreUnlocked, A!Store, A!Go
  <2>3. CASE A!CanStore
    <3> DEFINE e == [from |-> c, fn |-> "create", profile |-> agent]
    <3>1. zome' = Append(zome, e)
      BY <2>3 DEF A!StoreUnlocked, A!Store, A!Ask
    <3>2. e \in ZomeCall /\ e.fn = "create"
      BY <2>2 DEF ZomeCall
    <3> HIDE DEF e
    <3> QED
      BY <2>1, <2>2, <3>1, <3>2, OnceAsks DEF Getting
  <2>4. CASE ~A!CanStore
    <3>1. zome' = zome
      BY <2>4 DEF A!StoreUnlocked, A!Store
    <3> QED
      BY <2>1, <2>2, <3>1, OnceMoves DEF Getting
  <2> QED
    BY <2>3, <2>4
<1>5. HeldIsNow'
  BY DEF AgentInv, A!StoreUnlocked, A!Store, A!Go, A!history, HeldIsNow, A!TypeOK, A!Holders
<1>6. LastIsNow'
  <2>1. zome \in Seq(ZomeCall) /\ agent \in A!Profile /\ UNCHANGED <<agent, published>>
    BY AgentTyped DEF AgentInv, Generated, A!StoreUnlocked
  <2>2. CASE A!CanStore
    <3> DEFINE e == [from |-> c, fn |-> "create", profile |-> agent]
    <3>1. zome' = Append(zome, e)
      BY <2>2 DEF A!StoreUnlocked, A!Store, A!Ask
    <3>2. e \in ZomeCall /\ e.fn = "create" /\ e.profile = agent
      BY <2>1 DEF ZomeCall
    <3> HIDE DEF e
    <3> QED
      BY <2>1, <3>1, <3>2, LastAsks DEF LastIsNow
  <2>3. CASE ~A!CanStore
    BY <2>1, <2>3 DEF AgentInv, LastIsNow, A!StoreUnlocked, A!Store
  <2> QED
    BY <2>2, <2>3
<1> QED
  BY <1>1, <1>2, <1>3, <1>4, <1>5, <1>6 DEF AgentInv

LEMMA StartHolochainKeeps ==
    ASSUME AgentInv, NEW c \in Clients, A!StartHolochain(c)
    PROVE  AgentInv'
<1>1. A!TypeOK'
  BY DEF AgentInv, A!StartHolochain, A!Go, A!Quiet, A!disk, A!wallet, A!bounds, A!history,
         A!TypeOK, A!Stages
<1>2. Generated'
  BY DEF AgentInv, A!StartHolochain, A!Stored, A!Quiet, A!disk, Generated
<1>3. OnDisk'
  BY DEF AgentInv, A!StartHolochain, A!Quiet, A!disk, OnDisk
<1>4. Getting'
  <2>1. zome \in Seq(ZomeCall) /\ at \in [Clients -> A!Stages] /\ AskedOnce(zome, at)
    BY AgentTyped DEF AgentInv, Getting
  <2>2. at[c] # "get" /\ zome' = zome
    BY DEF A!StartHolochain, A!Begin, A!Stored
  <2>3. PICK s : at' = [at EXCEPT ![c] = s]
    BY DEF A!StartHolochain, A!Go
  <2>4. AskedOnce(zome, [at EXCEPT ![c] = s])
    BY <2>1, <2>2, OnceMoves
  <2> QED
    BY <2>2, <2>3, <2>4 DEF Getting
<1>5. HeldIsNow'
  BY DEF AgentInv, A!StartHolochain, A!Go, A!Quiet, A!history, HeldIsNow, A!TypeOK, A!Holders
<1>6. LastIsNow'
  BY DEF AgentInv, A!StartHolochain, A!Quiet, LastIsNow
<1> QED
  BY <1>1, <1>2, <1>3, <1>4, <1>5, <1>6 DEF AgentInv

LEMMA HolochainRunsKeeps ==
    ASSUME AgentInv, NEW c \in Clients, A!HolochainRuns(c)
    PROVE  AgentInv'
<1>1. A!TypeOK'
  BY BoundsOfAgent
     DEF AgentInv, A!HolochainRuns, A!Go, A!Fail, A!Quiet, A!disk, A!wallet, A!bounds,
         A!history, A!TypeOK, A!Stages
<1>2. Generated'
  BY DEF AgentInv, A!HolochainRuns, A!Quiet, A!disk, Generated
<1>3. OnDisk'
  BY DEF AgentInv, A!HolochainRuns, A!Quiet, A!disk, OnDisk
<1>4. Getting'
  <2>1. zome \in Seq(ZomeCall) /\ at \in [Clients -> A!Stages] /\ AskedOnce(zome, at)
    BY AgentTyped DEF AgentInv, Getting
  <2>2. at[c] # "get" /\ zome' = zome
    BY DEF A!HolochainRuns, A!Begin
  <2>3. PICK s : at' = [at EXCEPT ![c] = s]
    BY DEF A!HolochainRuns, A!Go
  <2>4. AskedOnce(zome, [at EXCEPT ![c] = s])
    BY <2>1, <2>2, OnceMoves
  <2> QED
    BY <2>2, <2>3, <2>4 DEF Getting
<1>5. HeldIsNow'
  BY DEF AgentInv, A!HolochainRuns, A!Go, A!Quiet, A!history, HeldIsNow, A!TypeOK, A!Holders
<1>6. LastIsNow'
  BY DEF AgentInv, A!HolochainRuns, A!Quiet, LastIsNow
<1> QED
  BY <1>1, <1>2, <1>3, <1>4, <1>5, <1>6 DEF AgentInv

LEMMA LanguagesLoadedKeeps ==
    ASSUME AgentInv, NEW c \in Clients, A!LanguagesLoaded(c)
    PROVE  AgentInv'
<1>1. A!TypeOK'
  <2>1. /\ zome \in Seq(ZomeCall) /\ at \in [Clients -> A!Stages] /\ AskedOnce(zome, at)
        /\ at[c] = "languages" /\ agent \in A!Profile
    BY AgentTyped DEF AgentInv, Getting, Generated, A!LanguagesLoaded
  <2> DEFINE e == [from |-> c, fn |-> "get", profile |-> agent]
  <2>2. e \in ZomeCall /\ e.fn = "get" /\ e.from = c
    BY <2>1 DEF ZomeCall
  <2>3. \/ zome' = zome /\ \E s \in A!Stages : at' = [at EXCEPT ![c] = s]
        \/ zome' = Append(zome, e) /\ at' = [at EXCEPT ![c] = "get"]
    BY DEF A!LanguagesLoaded, A!Go, A!Ask, A!Stages
  <2> HIDE DEF e
  <2>4. zome' \in Seq(ZomeCall) /\ at' \in [Clients -> A!Stages]
    <3>1. Append(zome, e) \in Seq(ZomeCall)
      BY <2>1, <2>2, QueueTyped
    <3> QED
      BY <2>1, <2>3, <3>1 DEF A!Stages
  <2>5. /\ language' = TRUE /\ held' = [held EXCEPT ![c] = agent]
        /\ UNCHANGED <<file, profileFile, cipher, keys, agent, published, holochain, call,
                       given,
                       told, raced, missed, failures, restarts>>
    BY DEF A!LanguagesLoaded, A!Holds, A!Quiet, A!disk, A!wallet, A!core, A!bounds,
            A!history
  <2> QED
    BY <2>1, <2>4, <2>5 DEF AgentInv, A!TypeOK, ZomeCall
<1>2. Generated'
  BY DEF AgentInv, A!LanguagesLoaded, A!Quiet, A!disk, Generated
<1>3. OnDisk'
  BY DEF AgentInv, A!LanguagesLoaded, A!Quiet, A!disk, OnDisk
<1>4. Getting'
  <2>1. /\ zome \in Seq(ZomeCall) /\ at \in [Clients -> A!Stages] /\ AskedOnce(zome, at)
        /\ at[c] = "languages" /\ agent \in A!Profile
    BY AgentTyped DEF AgentInv, Getting, Generated, A!LanguagesLoaded
  <2> DEFINE e == [from |-> c, fn |-> "get", profile |-> agent]
  <2>2. e \in ZomeCall /\ e.fn = "get" /\ e.from = c
    BY <2>1 DEF ZomeCall
  <2>3. \/ zome' = zome /\ \E s \in A!Stages : at' = [at EXCEPT ![c] = s]
        \/ zome' = Append(zome, e) /\ at' = [at EXCEPT ![c] = "get"]
    BY DEF A!LanguagesLoaded, A!Go, A!Ask, A!Stages
  <2> HIDE DEF e
  <2>4. CASE zome' = zome
    <3>1. PICK s \in A!Stages : at' = [at EXCEPT ![c] = s]
      BY <2>3 DEF A!Stages
    <3>2. AskedOnce(zome, [at EXCEPT ![c] = s])
      BY <2>1, OnceMoves
    <3> QED
      BY <2>4, <3>1, <3>2 DEF Getting
  <2>5. CASE zome' = Append(zome, e) /\ at' = [at EXCEPT ![c] = "get"]
    <3>1. AskedOnce(Append(zome, e), [at EXCEPT ![c] = "get"])
      BY <2>1, <2>2, OnceAsks
    <3> QED
      BY <2>5, <3>1 DEF Getting
  <2> QED
    BY <2>3, <2>4, <2>5
<1>5. HeldIsNow'
  BY DEF AgentInv, A!LanguagesLoaded, A!Holds, A!Go, A!Quiet, A!history, HeldIsNow, A!TypeOK,
         A!Holders
<1>6. LastIsNow'
  <2>1. /\ zome \in Seq(ZomeCall) /\ at \in [Clients -> A!Stages] /\ AskedOnce(zome, at)
        /\ at[c] = "languages" /\ agent \in A!Profile
    BY AgentTyped DEF AgentInv, Getting, Generated, A!LanguagesLoaded
  <2> DEFINE e == [from |-> c, fn |-> "get", profile |-> agent]
  <2>2. e \in ZomeCall /\ e.fn = "get" /\ e.from = c
    BY <2>1 DEF ZomeCall
  <2>3. \/ zome' = zome /\ \E s \in A!Stages : at' = [at EXCEPT ![c] = s]
        \/ zome' = Append(zome, e) /\ at' = [at EXCEPT ![c] = "get"]
    BY DEF A!LanguagesLoaded, A!Go, A!Ask, A!Stages
  <2> HIDE DEF e
  <2>4. UNCHANGED <<agent, published, missed>>
    BY DEF A!LanguagesLoaded, A!Quiet
  <2>5. LastIs(zome, published, agent) => LastIs(Append(zome, e), published, agent)
    BY <2>1, <2>2, LastAsks
  <2> QED
    BY <2>3, <2>4, <2>5 DEF AgentInv, LastIsNow
<1> QED
  BY <1>1, <1>2, <1>3, <1>4, <1>5, <1>6 DEF AgentInv

LEMMA LanguagesFailKeeps ==
    ASSUME AgentInv, NEW c \in Clients, A!LanguagesFail(c)
    PROVE  AgentInv'
<1>1. A!TypeOK'
  BY BoundsOfAgent
     DEF AgentInv, A!LanguagesFail, A!Fail, A!Go, A!Quiet, A!disk, A!wallet, A!core, A!bounds,
         A!history, A!TypeOK, A!Stages
<1>2. Generated'
  BY DEF AgentInv, A!LanguagesFail, A!Quiet, A!disk, Generated
<1>3. OnDisk'
  BY DEF AgentInv, A!LanguagesFail, A!Quiet, A!disk, OnDisk
<1>4. Getting'
  <2>1. zome \in Seq(ZomeCall) /\ at \in [Clients -> A!Stages] /\ AskedOnce(zome, at)
    BY AgentTyped DEF AgentInv, Getting
  <2>2. at[c] # "get" /\ zome' = zome
    BY DEF A!LanguagesFail, A!Begin
  <2>3. PICK s : at' = [at EXCEPT ![c] = s]
    BY DEF A!LanguagesFail, A!Go
  <2>4. AskedOnce(zome, [at EXCEPT ![c] = s])
    BY <2>1, <2>2, OnceMoves
  <2> QED
    BY <2>2, <2>3, <2>4 DEF Getting
<1>5. HeldIsNow'
  BY DEF AgentInv, A!LanguagesFail, A!Go, A!Quiet, A!history, HeldIsNow, A!Holders
<1>6. LastIsNow'
  BY DEF AgentInv, A!LanguagesFail, A!Quiet, LastIsNow
<1> QED
  BY <1>1, <1>2, <1>3, <1>4, <1>5, <1>6 DEF AgentInv

LEMMA TemplatedKeeps ==
    ASSUME AgentInv, NEW c \in Clients, A!Templated(c)
    PROVE  AgentInv'
<1> DEFINE p == [held[c] EXCEPT !.dm = "template"]
<1>0. /\ p \in A!Profile /\ [told EXCEPT !.dm = "template"] \in A!Profile
      /\ file # NoAgent /\ agent # NoAgent /\ at[c] = "template"
  <2>1. at[c] = "template" /\ file # NoAgent /\ agent # NoAgent
    BY DEF A!Templated, AgentInv, Generated
  <2>2. held[c] \in A!Profile /\ told \in A!Profile /\ agent \in A!Profile
    BY <2>1, AgentTyped DEF AgentInv, A!TypeOK
  <2> QED
    BY <2>1, <2>2 DEF A!Profile
<1>7. /\ zome' \in Seq(ZomeCall) /\ at' \in [Clients -> A!Stages]
      /\ agent' = p /\ profileFile' = p /\ p # NoAgent
      /\ Getting' /\ LastIsNow'
  <2> HIDE DEF p
  <2>1. /\ A!Save(c, p) /\ A!Store(c, p, "publish", "done") /\ missed' = ~A!CanStore
        /\ UNCHANGED published
    BY DEF A!Templated, A!Update, A!Save, p
  <2> QED
    BY <1>0, <2>1, SavedAndStored
<1>1. A!TypeOK'
  <2>1. /\ told' = [told EXCEPT !.dm = "template"] /\ raced' \in BOOLEAN /\ missed' \in BOOLEAN
        /\ call' \in [Clients -> A!Asked]
        /\ UNCHANGED <<file, cipher, keys, published, holochain, language, given, held,
                       failures,
                       restarts>>
    BY DEF AgentInv, A!TypeOK, A!Asked, A!Templated, A!Update, A!disk, A!wallet, A!core,
           A!bounds, A!history
  <2> QED
    BY <1>0, <1>7, <2>1 DEF AgentInv, A!TypeOK, ZomeCall
<1>2. Generated'
  <2>1. file' = file
    BY DEF A!Templated, A!Update
  <2> QED
    BY <1>0, <1>7, <2>1 DEF Generated
<1>3. OnDisk'
  BY DEF A!Templated, A!Update, A!Save, OnDisk
<1>4. Getting'
  BY <1>7
<1>5. HeldIsNow'
  BY DEF AgentInv, A!Templated, A!Update, A!Save, A!Store, A!Go, HeldIsNow, A!TypeOK, A!Holders,
         Generated
<1>6. LastIsNow'
  BY <1>7
<1> QED
  BY <1>1, <1>2, <1>3, <1>4, <1>5, <1>6 DEF AgentInv

LEMMA TemplateFailsKeeps ==
    ASSUME AgentInv, NEW c \in Clients, A!TemplateFails(c)
    PROVE  AgentInv'
<1>1. A!TypeOK'
  BY BoundsOfAgent
     DEF AgentInv, A!TemplateFails, A!Fail, A!Go, A!Quiet, A!disk, A!wallet, A!core, A!history,
         A!TypeOK, A!Stages
<1>2. Generated'
  BY DEF AgentInv, A!TemplateFails, A!Quiet, A!disk, Generated
<1>3. OnDisk'
  BY DEF AgentInv, A!TemplateFails, A!Quiet, A!disk, OnDisk
<1>4. Getting'
  <2>1. zome \in Seq(ZomeCall) /\ at \in [Clients -> A!Stages] /\ AskedOnce(zome, at)
    BY AgentTyped DEF AgentInv, Getting
  <2>2. at[c] # "get" /\ zome' = zome
    BY DEF A!TemplateFails, A!Begin
  <2>3. PICK s : at' = [at EXCEPT ![c] = s]
    BY DEF A!TemplateFails, A!Go
  <2>4. AskedOnce(zome, [at EXCEPT ![c] = s])
    BY <2>1, <2>2, OnceMoves
  <2> QED
    BY <2>2, <2>3, <2>4 DEF Getting
<1>5. HeldIsNow'
  BY DEF AgentInv, A!TemplateFails, A!Go, A!Quiet, A!history, HeldIsNow, A!Holders
<1>6. LastIsNow'
  BY DEF AgentInv, A!TemplateFails, A!Quiet, LastIsNow
<1> QED
  BY <1>1, <1>2, <1>3, <1>4, <1>5, <1>6 DEF AgentInv

LEMMA SetDmKeeps ==
    ASSUME AgentInv, NEW c \in Clients, A!SetDm(c)
    PROVE  AgentInv'
<1> DEFINE p == [agent EXCEPT !.dm = c]
<1>0. /\ p \in A!Profile /\ [told EXCEPT !.dm = c] \in A!Profile
      /\ file # NoAgent /\ agent # NoAgent /\ at[c] = "idle"
  <2>1. at[c] = "idle" /\ file # NoAgent /\ agent # NoAgent
    BY DEF A!SetDm, AgentInv, Generated
  <2>2. held[c] \in A!Profile /\ told \in A!Profile /\ agent \in A!Profile
    BY <2>1, AgentTyped DEF AgentInv, A!TypeOK
  <2> QED
    BY <2>1, <2>2 DEF A!Profile
<1>7. /\ zome' \in Seq(ZomeCall) /\ at' \in [Clients -> A!Stages]
      /\ agent' = p /\ profileFile' = p /\ p # NoAgent
      /\ Getting' /\ LastIsNow'
  <2> HIDE DEF p
  <2>1. /\ A!Save(c, p) /\ A!Store(c, p, "publish", "done") /\ missed' = ~A!CanStore
        /\ UNCHANGED published
    BY DEF A!SetDm, A!Save, p
  <2> QED
    BY <1>0, <2>1, SavedAndStored
<1>1. A!TypeOK'
  <2>1. /\ told' = [told EXCEPT !.dm = c] /\ raced' \in BOOLEAN /\ missed' \in BOOLEAN
        /\ call' \in [Clients -> A!Asked]
        /\ UNCHANGED <<file, cipher, keys, published, holochain, language, given, held,
                       failures,
                       restarts>>
    BY DEF AgentInv, A!TypeOK, A!Asked, A!SetDm, A!disk, A!wallet, A!core, A!bounds,
            A!history
  <2> QED
    BY <1>0, <1>7, <2>1 DEF AgentInv, A!TypeOK, ZomeCall
<1>2. Generated'
  <2>1. file' = file
    BY DEF A!SetDm
  <2> QED
    BY <1>0, <1>7, <2>1 DEF Generated
<1>3. OnDisk'
  BY DEF A!SetDm, A!Save, OnDisk
<1>4. Getting'
  BY <1>7
<1>5. HeldIsNow'
  BY DEF AgentInv, A!SetDm, A!Save, A!Store, A!Go, HeldIsNow, A!TypeOK, A!Holders
<1>6. LastIsNow'
  BY <1>7
<1> QED
  BY <1>1, <1>2, <1>3, <1>4, <1>5, <1>6 DEF AgentInv

LEMMA MeKeeps ==
    ASSUME AgentInv, NEW c \in Clients, A!Me(c)
    PROVE  AgentInv'
<1>1. A!TypeOK'
  BY DEF AgentInv, A!Me, A!Begin, A!Holds, A!Go, A!Quiet, A!disk, A!wallet, A!core, A!bounds,
         A!history, A!TypeOK, A!Asked, A!Stages
<1>2. Generated'
  BY DEF AgentInv, A!Me, A!Quiet, A!disk, Generated
<1>3. OnDisk'
  BY DEF AgentInv, A!Me, A!Quiet, A!disk, OnDisk
<1>4. Getting'
  <2>1. zome \in Seq(ZomeCall) /\ at \in [Clients -> A!Stages] /\ AskedOnce(zome, at)
    BY AgentTyped DEF AgentInv, Getting
  <2>2. at[c] # "get" /\ zome' = zome
    BY DEF A!Me, A!Begin
  <2>3. PICK s : at' = [at EXCEPT ![c] = s]
    BY DEF A!Me, A!Go
  <2>4. AskedOnce(zome, [at EXCEPT ![c] = s])
    BY <2>1, <2>2, OnceMoves
  <2> QED
    BY <2>2, <2>3, <2>4 DEF Getting
<1>5. HeldIsNow'
  BY DEF AgentInv, A!Me, A!Holds, A!Go, A!Quiet, A!history, HeldIsNow, A!TypeOK, A!Holders
<1>6. LastIsNow'
  BY DEF AgentInv, A!Me, A!Quiet, LastIsNow
<1> QED
  BY <1>1, <1>2, <1>3, <1>4, <1>5, <1>6 DEF AgentInv

LEMMA UpdatePerspectiveKeeps ==
    ASSUME AgentInv, NEW c \in Clients, A!UpdatePerspective(c)
    PROVE  AgentInv'
<1> DEFINE p == [agent EXCEPT !.links = held[c].links \cup {c}]
<1>0. /\ p \in A!Profile /\ [told EXCEPT !.links = @ \cup {c}] \in A!Profile
      /\ file # NoAgent /\ agent # NoAgent /\ at[c] = "me"
  <2>1. at[c] = "me" /\ file # NoAgent /\ agent # NoAgent
    BY DEF A!UpdatePerspective, AgentInv, Generated
  <2>2. held[c] \in A!Profile /\ told \in A!Profile /\ agent \in A!Profile
    BY <2>1, AgentTyped DEF AgentInv, A!TypeOK
  <2> QED
    BY <2>1, <2>2 DEF A!Profile
<1>7. /\ zome' \in Seq(ZomeCall) /\ at' \in [Clients -> A!Stages]
      /\ agent' = p /\ profileFile' = p /\ p # NoAgent
      /\ Getting' /\ LastIsNow'
  <2> HIDE DEF p
  <2>1. /\ A!Save(c, p) /\ A!Store(c, p, "publish", "done") /\ missed' = ~A!CanStore
        /\ UNCHANGED published
    BY DEF A!UpdatePerspective, A!Update, A!Save, p
  <2> QED
    BY <1>0, <2>1, SavedAndStored
<1>1. A!TypeOK'
  <2>1. /\ told' = [told EXCEPT !.links = @ \cup {c}] /\ raced' \in BOOLEAN /\ missed' \in BOOLEAN
        /\ call' \in [Clients -> A!Asked]
        /\ UNCHANGED <<file, cipher, keys, published, holochain, language, given, held,
                       failures,
                       restarts>>
    BY DEF AgentInv, A!TypeOK, A!Asked, A!UpdatePerspective, A!Update, A!disk, A!wallet, A!core,
           A!bounds, A!history
  <2> QED
    BY <1>0, <1>7, <2>1 DEF AgentInv, A!TypeOK, ZomeCall
<1>2. Generated'
  <2>1. file' = file
    BY DEF A!UpdatePerspective, A!Update
  <2> QED
    BY <1>0, <1>7, <2>1 DEF Generated
<1>3. OnDisk'
  BY DEF A!UpdatePerspective, A!Update, A!Save, OnDisk
<1>4. Getting'
  BY <1>7
<1>5. HeldIsNow'
  BY DEF AgentInv, A!UpdatePerspective, A!Update, A!Save, A!Store, A!Go, HeldIsNow, A!TypeOK,
         A!Holders, Generated
<1>6. LastIsNow'
  BY <1>7
<1> QED
  BY <1>1, <1>2, <1>3, <1>4, <1>5, <1>6 DEF AgentInv

LEMMA ExpressionCreatedKeeps ==
    ASSUME AgentInv, A!Created
    PROVE  AgentInv'
<1>1. A!TypeOK'
  <2>1. /\ zome \in Seq(ZomeCall) /\ at \in [Clients -> A!Stages] /\ AskedOnce(zome, at)
        /\ zome # <<>> /\ Head(zome) \in ZomeCall /\ Tail(zome) \in Seq(ZomeCall)
    BY AgentTyped, QueueTyped DEF AgentInv, Getting, A!Created
  <2>2. /\ zome' = Tail(zome) /\ at' \in [Clients -> A!Stages]
        /\ published' \in A!Profile \cup {NoAgent} /\ missed' \in BOOLEAN
        /\ failures' \in 0 .. Failures /\ restarts' = restarts
        /\ UNCHANGED <<file, profileFile, cipher, keys, agent, holochain, language, call, given,
                       held, told, raced>>
    <3>1. /\ zome' = Tail(zome)
          /\ UNCHANGED <<file, profileFile, cipher, keys, agent, holochain, language, call,
                         given,
                         held, told, raced>>
      BY DEF A!Created, A!disk, A!wallet, A!core, A!history
    <3>2. at' \in [Clients -> A!Stages]
      BY <2>1 DEF A!Created, A!Go, A!Stages
    <3>3. CASE published' = Head(zome).profile /\ UNCHANGED <<missed, A!bounds>>
      BY <2>1, <3>1, <3>2, <3>3 DEF AgentInv, A!TypeOK, ZomeCall, A!bounds
    <3>4. CASE A!Fail /\ UNCHANGED published /\ missed' = (missed \/ ~A!Others)
      BY <2>1, <3>1, <3>2, <3>4, BoundsOfAgent DEF AgentInv, A!TypeOK, A!Fail
    <3> QED
      BY <3>3, <3>4 DEF A!Created
  <2> QED
    BY <2>1, <2>2 DEF AgentInv, A!TypeOK, ZomeCall
<1>2. Generated'
  BY DEF AgentInv, A!Created, A!disk, Generated
<1>3. OnDisk'
  BY DEF AgentInv, A!Created, A!disk, OnDisk
<1>4. Getting'
  <2>1. /\ zome \in Seq(ZomeCall) /\ at \in [Clients -> A!Stages] /\ AskedOnce(zome, at)
        /\ zome # <<>> /\ Head(zome) \in ZomeCall /\ Tail(zome) \in Seq(ZomeCall)
    BY AgentTyped, QueueTyped DEF AgentInv, Getting, A!Created
  <2>2. AskedOnce(Tail(zome), at) /\ zome' = Tail(zome)
    BY <2>1, OnceServed DEF A!Created
  <2>3. CASE at[Head(zome).from] = "publish"
    <3>1. at' = [at EXCEPT ![Head(zome).from] = "done"] /\ Head(zome).from \in Clients
      BY <2>1, <2>3 DEF A!Created, A!Go, ZomeCall
    <3> QED
      BY <2>1, <2>2, <2>3, <3>1, OnceMoves DEF Getting
  <2>4. CASE at[Head(zome).from] # "publish"
    BY <2>2, <2>4 DEF A!Created, Getting
  <2> QED
    BY <2>3, <2>4
<1>5. HeldIsNow'
  BY DEF AgentInv, A!Created, A!Go, A!history, HeldIsNow, A!TypeOK, A!Holders
<1>6. LastIsNow'
  <2>1. /\ zome \in Seq(ZomeCall) /\ at \in [Clients -> A!Stages] /\ AskedOnce(zome, at)
        /\ zome # <<>> /\ Head(zome) \in ZomeCall /\ Tail(zome) \in Seq(ZomeCall)
    BY AgentTyped, QueueTyped DEF AgentInv, Getting, A!Created
  <2>2. zome' = Tail(zome) /\ agent' = agent /\ Head(zome).fn = "create"
    BY DEF A!Created
  <2>3. CASE published' = Head(zome).profile /\ UNCHANGED missed
    BY <2>1, <2>2, <2>3, LastServed DEF AgentInv, LastIsNow
  <2>4. CASE published' = published /\ missed' = (missed \/ ~A!Others)
    BY <2>1, <2>2, <2>4, LastServed DEF AgentInv, LastIsNow, A!Others
  <2> QED
    BY <2>3, <2>4 DEF A!Created
<1> QED
  BY <1>1, <1>2, <1>3, <1>4, <1>5, <1>6 DEF AgentInv

LEMMA FoundKeeps ==
    ASSUME AgentInv, A!Found
    PROVE  AgentInv'
<1>1. A!TypeOK'
  <2>1. /\ zome \in Seq(ZomeCall) /\ at \in [Clients -> A!Stages] /\ AskedOnce(zome, at)
        /\ zome # <<>> /\ Head(zome) \in ZomeCall /\ Tail(zome) \in Seq(ZomeCall)
    BY AgentTyped, QueueTyped DEF AgentInv, Getting, A!Found
  <2>2. /\ zome' = Tail(zome) /\ at' \in [Clients -> A!Stages]
        /\ failures' \in 0 .. Failures /\ restarts' = restarts
        /\ UNCHANGED <<file, profileFile, cipher, keys, agent, published, holochain, language,
                       call,
                       given, held, told, raced, missed>>
    BY <2>1, BoundsOfAgent
       DEF AgentInv, A!TypeOK, A!Found, A!Fail, A!Go, A!Stages, A!Quiet, ZomeCall, A!disk, A!wallet, A!core, A!bounds,
            A!history
  <2> QED
    BY <2>1, <2>2 DEF AgentInv, A!TypeOK, ZomeCall
<1>2. Generated'
  BY DEF AgentInv, A!Found, A!Quiet, A!disk, Generated
<1>3. OnDisk'
  BY DEF AgentInv, A!Found, A!Quiet, A!disk, OnDisk
<1>4. Getting'
  <2>1. /\ zome \in Seq(ZomeCall) /\ at \in [Clients -> A!Stages] /\ AskedOnce(zome, at)
        /\ zome # <<>> /\ Head(zome) \in ZomeCall /\ Tail(zome) \in Seq(ZomeCall)
    BY AgentTyped, QueueTyped DEF AgentInv, Getting, A!Found
  <2>2. AskedOnce(Tail(zome), [at EXCEPT ![Head(zome).from] = "done"])
    BY <2>1, OnceServed DEF A!Found
  <2> QED
    BY <2>2 DEF A!Found, A!Go, Getting
<1>5. HeldIsNow'
  BY DEF AgentInv, A!Found, A!Go, A!Quiet, A!history, HeldIsNow, A!Holders
<1>6. LastIsNow'
  <2>1. /\ zome \in Seq(ZomeCall) /\ at \in [Clients -> A!Stages] /\ AskedOnce(zome, at)
        /\ zome # <<>> /\ Head(zome) \in ZomeCall /\ Tail(zome) \in Seq(ZomeCall)
    BY AgentTyped, QueueTyped DEF AgentInv, Getting, A!Found
  <2> QED
    BY <2>1, LastServed DEF A!Found, A!Quiet, AgentInv, LastIsNow
<1> QED
  BY <1>1, <1>2, <1>3, <1>4, <1>5, <1>6 DEF AgentInv

LEMMA MissingKeeps ==
    ASSUME AgentInv, A!Missing
    PROVE  AgentInv'
<1> DEFINE c == Head(zome).from
<1> DEFINE e == [from |-> c, fn |-> "create", profile |-> held[c]]
<1>0. /\ zome \in Seq(ZomeCall) /\ at \in [Clients -> A!Stages] /\ AskedOnce(zome, at)
      /\ zome # <<>> /\ Head(zome) \in ZomeCall /\ Tail(zome) \in Seq(ZomeCall)
      /\ Head(zome).fn = "get"
  BY AgentTyped, QueueTyped DEF AgentInv, Getting, A!Missing
<1>7. c \in Clients /\ held[c] \in A!Profile /\ held[c] # NoAgent
  BY <1>0, NoAgentIsNone DEF AgentInv, A!TypeOK, ZomeCall
<1>8. at[c] = "get"
  <2>1. 1 \in DOMAIN zome /\ zome[1] = Head(zome)
    BY <1>0
  <2> QED
    BY <1>0, <2>1 DEF AskedOnce
<1>9. e \in ZomeCall /\ e.fn = "create" /\ e.profile = held[c]
  BY <1>7 DEF ZomeCall
<1>10. /\ agent' = held[c] /\ profileFile' = held[c] /\ missed' = ~A!CanStore
       /\ raced' = (raced \/ A!Holders \ {c} # {})
       /\ IF A!CanStore THEN at' = [at EXCEPT ![c] = "publish"] /\ zome' = Append(Tail(zome), e)
                        ELSE at' = [at EXCEPT ![c] = "done"] /\ zome' = Tail(zome)
       /\ UNCHANGED <<file, cipher, keys, published, holochain, language, call, given, held,
                      told,
                      failures, restarts>>
  BY DEF A!Missing, A!Save, A!Go, A!disk, A!wallet, A!core, A!bounds,
            A!history
<1> HIDE DEF e, c
<1>1. A!TypeOK'
  <2>1. zome' \in Seq(ZomeCall) /\ at' \in [Clients -> A!Stages]
    BY <1>0, <1>7, <1>9, <1>10, QueueTyped DEF A!Stages
  <2> QED
    BY <1>7, <1>10, <2>1 DEF AgentInv, A!TypeOK, ZomeCall
<1>2. Generated'
  BY <1>7, <1>8, <1>10 DEF AgentInv, Generated
<1>3. OnDisk'
  BY <1>10 DEF OnDisk
<1>4. Getting'
  <2>1. AskedOnce(Tail(zome), at) /\ \A s : AskedOnce(Tail(zome), [at EXCEPT ![c] = s])
    BY <1>0, OnceServed DEF c
  <2>2. CASE ~A!CanStore
    BY <1>10, <2>1, <2>2 DEF Getting
  <2>3. CASE A!CanStore
    <3> DEFINE done == [at EXCEPT ![c] = "done"]
    <3>1. done \in [Clients -> A!Stages] /\ done[c] = "done" /\ AskedOnce(Tail(zome), done)
      BY <1>0, <1>7, <2>1 DEF A!Stages
    <3>2. [done EXCEPT ![c] = "publish"] = [at EXCEPT ![c] = "publish"]
      BY <1>0
    <3> HIDE DEF done
    <3>3. AskedOnce(Append(Tail(zome), e), [done EXCEPT ![c] = "publish"])
      BY <1>0, <1>7, <1>9, <3>1, OnceAsks
    <3> QED
      BY <1>10, <2>3, <3>2, <3>3 DEF Getting
  <2> QED
    BY <2>2, <2>3
<1>5. HeldIsNow'
  <2>1. CASE raced'
    BY <2>1 DEF HeldIsNow
  <2>2. CASE ~raced'
    <3>1. ~raced /\ A!Holders \subseteq {c} /\ c \in A!Holders
      BY <1>7, <1>8, <1>10, <2>2 DEF A!Holders
    <3>2. held[c] = agent /\ agent = told
      BY <1>7, <3>1 DEF AgentInv, HeldIsNow
    <3>3. A!Holders' = {}
      BY <1>0, <1>10, <3>1 DEF A!Holders
    <3> QED
      BY <1>10, <3>2, <3>3 DEF HeldIsNow
  <2> QED
    BY <2>1, <2>2
<1>6. LastIsNow'
  <2>1. A!CanStore => LastIs(Append(Tail(zome), e), published, held[c])
    BY <1>0, <1>9, LastAsks
  <2> QED
    BY <1>10, <2>1 DEF LastIsNow
<1> QED
  BY <1>1, <1>2, <1>3, <1>4, <1>5, <1>6 DEF AgentInv

LEMMA AgentRestartKeeps ==
    ASSUME AgentInv, A!Restart
    PROVE  AgentInv'
<1>1. A!TypeOK'
  <2>1. /\ zome' = <<>> /\ at' \in [Clients -> A!Stages]
        /\ cipher' \in Passphrases /\ keys' \in {"none", "public"}
        /\ agent' \in A!Profile /\ holochain' = "none" /\ language' = FALSE
        /\ missed' \in BOOLEAN /\ restarts' \in 0 .. Restarts
        /\ UNCHANGED <<file, profileFile, published, call, given, held, told, raced, failures>>
    BY BoundsOfAgent
       DEF AgentInv, A!TypeOK, A!Restart, A!Nobody, A!Profile, A!Stages, A!disk, A!history
  <2>2. <<>> \in Seq(ZomeCall)
    OBVIOUS
  <2> QED
    BY <2>1, <2>2 DEF AgentInv, A!TypeOK, ZomeCall
<1>2. Generated'
  <2>1. file # NoAgent /\ file' = file /\ agent' # NoAgent
    BY NoAgentIsNone DEF A!Restart, A!disk, A!Nobody, A!Profile
  <2> QED
    BY <2>1 DEF Generated
<1>3. OnDisk'
  BY DEF A!Restart, A!disk, OnDisk
<1>4. Getting'
  BY DEF A!Restart, Getting, AskedOnce
<1>5. HeldIsNow'
  <2>1. agent' = agent /\ told' = told /\ raced' = raced /\ held' = held
    BY DEF A!Restart, A!history, AgentInv, Generated, OnDisk
  <2>2. A!Holders' \subseteq A!Holders
    BY DEF A!Restart, A!Holders
  <2> QED
    BY <2>1, <2>2 DEF AgentInv, HeldIsNow
<1>6. LastIsNow'
  <2>1. agent' = agent /\ published' = published /\ zome' = <<>>
    BY DEF A!Restart, AgentInv, Generated, OnDisk
  <2>2. ~missed' => ~missed /\ Creates(zome) = {}
    BY DEF A!Restart, Creates
  <2>3. Creates(<<>>) = {}
    BY DEF Creates
  <2> QED
    BY <2>1, <2>2, <2>3 DEF AgentInv, LastIsNow, LastIs
<1> QED
  BY <1>1, <1>2, <1>3, <1>4, <1>5, <1>6 DEF AgentInv

(* Every step of the agent keeps the invariant.                            *)
LEMMA AgentStep == AgentInv /\ [A!Next]_agentVars => AgentInv'
<1> SUFFICES ASSUME AgentInv, [A!Next]_agentVars
             PROVE  AgentInv'
  OBVIOUS
<1>1. CASE A!Next
  BY <1>1, GenerateKeeps, UnlockKeeps, LockKeeps, UnlockAgainKeeps, StoreUnlockedKeeps,
     StartHolochainKeeps, HolochainRunsKeeps, LanguagesLoadedKeeps, LanguagesFailKeeps,
     TemplatedKeeps, TemplateFailsKeeps, SetDmKeeps, MeKeeps, UpdatePerspectiveKeeps,
     ExpressionCreatedKeeps, FoundKeeps, MissingKeeps, AgentRestartKeeps
     DEF A!Next
<1>2. CASE UNCHANGED agentVars
  <2> USE <1>2 DEF agentVars, AgentInv
  <2>1. A!TypeOK'
    BY DEF A!TypeOK
  <2>2. Generated' /\ OnDisk' /\ Getting'
    BY DEF Generated, OnDisk, Getting
  <2>3. HeldIsNow' /\ LastIsNow'
    BY DEF HeldIsNow, LastIsNow, A!Holders
  <2> QED
    BY <2>1, <2>2, <2>3
<1> QED
  BY <1>1, <1>2

LEMMA AgentInit == A!Init => AgentInv
<1> SUFFICES ASSUME A!Init
             PROVE  AgentInv
  OBVIOUS
<1> USE DEF A!Init
<1>1. A!TypeOK
  <2>1. <<>> \in Seq(ZomeCall) /\ A!Nobody \in A!Profile
    BY DEF A!Nobody, A!Profile
  <2>2. {profileFile, agent, published} \subseteq A!Profile \cup {NoAgent}
    OBVIOUS
  <2>3. 0 \in 0 .. Failures /\ 0 \in 0 .. Restarts
    BY BoundsOfAgent
  <2> QED
    BY <2>1, <2>2, <2>3 DEF A!TypeOK, A!Asked, A!Stages, ZomeCall
<1>2. Generated /\ OnDisk
  BY DEF Generated, OnDisk
<1>3. Getting
  BY DEF Getting, AskedOnce
<1>4. HeldIsNow /\ LastIsNow
  BY DEF HeldIsNow, LastIsNow, A!Holders
<1> QED
  BY <1>1, <1>2, <1>3, <1>4 DEF AgentInv

LEMMA AgentImplies == AgentInv => UpdatesKept /\ ProfilePublished
<1>1. AgentInv => UpdatesKept
  BY DEF AgentInv, HeldIsNow, UpdatesKept, A!UpdatesKept
<1>2. AgentInv => ProfilePublished
  BY DEF AgentInv, LastIsNow, LastIs, Creates, ProfilePublished, A!ProfilePublished
<1> QED
  BY <1>1, <1>2

(***************************************************************************)
(* AIModels.                                                               *)
(***************************************************************************)

Called == [op : Operations, body : Bodies, model : Models \cup {NoModel},
           task : Tasks \cup {"none"}]

(* Beside the types: rows speak of models that were added.                 *)
ModelsTyped ==
    /\ TypeOK
    /\ does \in [Callers -> Called] /\ texts \in Nat \ {0} /\ overlapped \in BOOLEAN
    /\ \A t \in Tasks : tasks[t].task = t /\ tasks[t].on \in Known \cup {Default, "none", "gone"}
    /\ default \in Known \cup {NoModel}

(* The program of each operation: what it asks threads for, and its other  *)
(* stages.                                                                 *)
Asking == {"ask", "await", "ok", "err"}

AskedBy ==
    [load |-> {"spawn"}, addModel |-> {}, updateModel |-> {"shutdown", "spawn"},
     removeModel |-> {"shutdown"}, setDefault |-> {"spawn"}, addTask |-> {"spawn"},
     updateTask |-> {"remove", "spawn"}, deleteTask |-> {"remove"}, prompt |-> {"prompt"}]

StagesOf ==
    [load |-> {"read", "init", "insert", "list", "next"}, addModel |-> {"insert"},
     updateModel |-> {"again", "start", "insert", "ready", "list", "next"},
     removeModel |-> {"erase"}, setDefault |-> {"list", "next"}, addTask |-> {},
     updateTask |-> {"fetch"}, deleteTask |-> {"erase"}, prompt |-> {}]

OfModels == {"addModel", "updateModel", "removeModel", "setDefault"}
OfTasks  == {"addTask", "updateTask", "deleteTask"}
Looping  == {"load", "setDefault", "updateModel"}

About(c, kind) == stage[c] \in Asking /\ request[c].kind = kind

(* A call is where its operation leads, and its locals are of the model or *)
(* the task that it is about.                                              *)
Program(c) ==
    /\ c = Loader <=> does[c].op = "load" /\ stage[c] # "idle"
    /\ stage[c] \in Asking => request[c].kind \in AskedBy[does[c].op]
    /\ stage[c] \notin Asking \cup {"idle", "done"} => stage[c] \in StagesOf[does[c].op]
    /\ does[c].op \in OfModels => does[c].model \in Models
    /\ does[c].op \in OfTasks => does[c].task \in Tasks
    /\ About(c, "spawn") \/ About(c, "remove") \/ About(c, "prompt") =>
          request[c].task \in Tasks /\ (does[c].op \in OfTasks => request[c].task = does[c].task)
    /\ About(c, "prompt") => request[c].on \in Models
    /\ About(c, "spawn") => request[c].on \in Models \cup {Default}
    /\ About(c, "shutdown") => request[c].on = does[c].model
    /\ stage[c] = "fetch" => request[c].task = does[c].task
    /\ c = Loader /\ stage[c] = "insert" => request[c].on \in Models
    /\ rest[c] # {} => does[c].op \in Looping /\ (stage[c] = "next" \/ About(c, "spawn"))
    /\ rest[c] \subseteq [task : Tasks, on : Models \cup {Default}, text : Nat]

Programs == \A c \in Callers : Program(c)

(* The holder of the lock is the only one who has mail under way.          *)
Mail ==
    /\ \A i \in DOMAIN threads : threads[i].inbox # <<>> =>
          /\ lock # <<>> /\ stage[Head(lock)] = "await" /\ threads[i].phase \in Alive
          /\ threads[i].inbox = <<[from |-> Head(lock), ask |-> request[Head(lock)]]>>
    /\ \A i, j \in DOMAIN threads : threads[i].inbox # <<>> /\ threads[j].inbox # <<>> => i = j

(* As long as no calls that write overlap, the mail is for the thread of   *)
(* the model that it is about.                                             *)
OneWriter == \A c, d \in Writers : c = d

MailRight ==
    \A i \in DOMAIN threads : threads[i].inbox # <<>> =>
        Target(Head(lock)) # NoModel /\ i = channel[Target(Head(lock))]

(* A thread whose channel was replaced or removed is over, and so is that  *)
(* of a model that is told to shut down, once this is answered.            *)
AliveReached ==
    \A i \in DOMAIN threads : threads[i].phase \in Alive => channel[threads[i].model] = i

Down(c) ==
    stage[c] \in {"ok", "err"} /\ request[c].kind = "shutdown" => ~Reachable(request[c].on)

LoadedRight ==
    \A m \in Models : loaded[m] /\ Begun(m) =>
        channel[m] # 0 /\ threads[channel[m]].phase = "ready"

(* The model that a call is about to start.                                *)
Starting(c) == IF c = Loader THEN request[c].on ELSE does[c].model

(* What a writer knows of the rows is still so.                            *)
TasksRead(c) ==
    /\ \A r \in rest[c] : r.task \in Stored /\ tasks[r.task] = r
    /\ About(c, "spawn") =>
          /\ request[c].task \in Stored
          /\ tasks[request[c].task].on = request[c].on
          /\ tasks[request[c].task].text = request[c].text
    /\ About(c, "remove") => request[c].task \in Stored
    /\ stage[c] = "fetch" \/ (stage[c] = "erase" /\ does[c].op = "deleteTask")
          => does[c].task \in Stored

ModelsRead(c) ==
    /\ does[c].op \in {"updateModel", "removeModel"} /\ stage[c] \notin {"idle", "done"}
          => does[c].model \in Present
    /\ (About(c, "shutdown") /\ does[c].op = "updateModel") \/ stage[c] = "start"
          => does[c].body = models[does[c].model]
    /\ stage[c] = "start" \/ (stage[c] = "erase" /\ does[c].op = "removeModel")
          => channel[does[c].model] = 0
    /\ stage[c] = "insert" => channel[Starting(c)] = 0 /\ models[Starting(c)] = "whole"
    /\ stage[c] = "insert" /\ does[c].op = "addModel"
          => \A t \in Stored : Resolve(tasks[t].on) # does[c].model

(* A call has started a thread at most once, and waits for that one.       *)
StartedBy(c) ==
    \A i \in DOMAIN threads : threads[i].by = c /\ c # Loader =>
        /\ does[c].op \in {"addModel", "updateModel"}
        /\ stage[c] \in {"ready", "list", "next", "done"} \/ About(c, "spawn")
        /\ stage[c] = "ready" => i = channel[does[c].model]

CallsAsRead == \A c \in Callers : Down(c) /\ TasksRead(c) /\ ModelsRead(c) /\ StartedBy(c)

(* load() starts models that have no thread yet.                           *)
Loading ==
    /\ stage[Loader] = "read" => channel = [m \in Models |-> 0] /\ threads = <<>>
    /\ starts \subseteq {<<m, models[m]>> : m \in Present}
    /\ starts # {} => stage[Loader] \in {"init", "insert"}
    /\ \A s \in starts : channel[s[1]] = 0
    /\ stage[Loader] = "insert" => <<request[Loader].on, "whole">> \notin starts

(* Models with a definition have a channel, but for one that a call is     *)
(* about to start or has shut down.                                        *)
Changing(c, m) ==
    \/ stage[c] = "read"
    \/ c = Loader /\ <<m, "whole">> \in starts
    \/ stage[c] = "insert" /\ m = Starting(c)
    \/ /\ does[c].op = "updateModel" /\ does[c].model = m
       /\ stage[c] \in {"again", "start"} \/ About(c, "shutdown")
    \/ does[c].op = "removeModel" /\ does[c].model = m /\ stage[c] = "erase"

ChannelRight(m) == channel[m] # 0 <=> models[m] = "whole"
ChannelsRight == \A m \in Models : ChannelRight(m) \/ \E c \in Callers : Changing(c, m)

(* Threads know the tasks as they are, but for those that a call has yet   *)
(* to spawn, or is removing.                                               *)
Pending(c, t) ==
    \/ does[c].op = "load" /\ stage[c] \in {"init", "insert", "list"}
    \/ does[c].op = "setDefault" /\ stage[c] = "list" /\ tasks[t].on = Default
    \/ /\ does[c].op = "updateModel" /\ stage[c] \in {"ready", "list"}
       /\ Resolve(tasks[t].on) = does[c].model
    \/ tasks[t] \in rest[c]
    \/ About(c, "spawn") /\ request[c].task = t /\ stage[c] # "ok"
    \/ does[c].op = "updateTask" /\ does[c].task = t /\ (About(c, "remove") \/ stage[c] = "fetch")
    \/ does[c].op = "deleteTask" /\ does[c].task = t /\ stage[c] \in {"await", "ok", "erase"}

Running(t) ==
    ThreadOf(t) # 0 /\ threads[ThreadOf(t)].phase \in Alive
        => threads[ThreadOf(t)].tasks[t] = tasks[t].text

TasksSpawned ==
    \A t \in Stored \ unspawned : Running(t) \/ \E c \in Callers : Pending(c, t)

WritersAlone ==
    /\ OneWriter /\ MailRight /\ AliveReached /\ LoadedRight /\ CallsAsRead
    /\ Loading /\ ChannelsRight /\ TasksSpawned

ModelsInv == ModelsTyped /\ Programs /\ Mail /\ (~overlapped => WritersAlone)
-----------------------------------------------------------------------------
(* The threads when one of them changes, and the lock when a call waits    *)
(* for it or releases it.                                                  *)
LEMMA ThreadChanged ==
    ASSUME NEW s \in Seq(Thread), NEW i \in DOMAIN s, NEW x \in Thread
    PROVE  /\ [s EXCEPT ![i] = x] \in Seq(Thread)
           /\ Len([s EXCEPT ![i] = x]) = Len(s) /\ DOMAIN [s EXCEPT ![i] = x] = DOMAIN s
           /\ [s EXCEPT ![i] = x][i] = x
           /\ \A j \in DOMAIN s \ {i} : [s EXCEPT ![i] = x][j] = s[j]
OBVIOUS

LEMMA ThreadAdded ==
    ASSUME NEW s \in Seq(Thread), NEW x \in Thread
    PROVE  /\ Append(s, x) \in Seq(Thread)
           /\ Len(Append(s, x)) = Len(s) + 1 /\ DOMAIN Append(s, x) = DOMAIN s \cup {Len(s) + 1}
           /\ DOMAIN s = 1 .. Len(s) /\ Len(s) \in Nat
           /\ Append(s, x)[Len(s) + 1] = x
           /\ \A j \in DOMAIN s : Append(s, x)[j] = s[j]
OBVIOUS

LEMMA LockMoved ==
    ASSUME NEW q \in Seq(Callers), NEW c \in Callers
    PROVE  /\ Append(q, c) \in Seq(Callers) /\ Append(q, c) # <<>>
           /\ q # <<>> => /\ Head(Append(q, c)) = Head(q) /\ Head(q) \in Callers
                          /\ Tail(q) \in Seq(Callers)
OBVIOUS

LEMMA ModelsTypes ==
    ASSUME ModelsTyped
    PROVE  /\ threads \in Seq(Thread) /\ DOMAIN threads = 1 .. Len(threads)
           /\ \A i \in DOMAIN threads : threads[i] \in Thread
           /\ lock \in Seq(Callers) /\ channel \in [Models -> 0 .. Len(threads)]
           /\ \A m \in Models : channel[m] # 0 =>
                 channel[m] \in DOMAIN threads /\ threads[channel[m]].model = m
           /\ stage \in [Callers -> Stages] /\ request \in [Callers -> Request]
           /\ does \in [Callers -> Called] /\ rest \in [Callers -> SUBSET Row]
           /\ loaded \in [Models -> BOOLEAN]
<1>1. threads \in Seq(Thread)
  BY DEF ModelsTyped, TypeOK
<1>2. DOMAIN threads = 1 .. Len(threads) /\ \A i \in DOMAIN threads : threads[i] \in Thread
  BY <1>1
<1> QED
  BY <1>1, <1>2 DEF ModelsTyped, TypeOK

(* A step of one call is about its own program.                            *)
LEMMA ProgramsOf ==
    ASSUME Programs, NEW c \in Callers, Program(c)',
           \A d \in Callers \ {c} : /\ does'[d] = does[d] /\ stage'[d] = stage[d]
                                    /\ request'[d] = request[d] /\ rest'[d] = rest[d]
    PROVE  Programs'
BY DEF Programs, Program, About

(* Who does not await an answer leaves the mail alone.                     *)
LEMMA MailKept ==
    ASSUME ModelsTyped, Mail, NEW c \in Callers, stage[c] # "await",
           \A d \in Callers \ {c} : stage'[d] = stage[d] /\ request'[d] = request[d],
           \/ lock' = lock \/ lock' = Append(lock, c)
           \/ lock # <<>> /\ Head(lock) = c /\ lock' = Tail(lock),
           threads' = threads
    PROVE  Mail'
<1>1. lock # <<>> => Head(lock) \in Callers /\ Head(Append(lock, c)) = Head(lock)
  BY ModelsTypes, LockMoved
<1>2. Append(lock, c) # <<>>
  BY ModelsTypes, LockMoved
<1> QED
  BY <1>1, <1>2 DEF Mail

(* Where a call is tells its operation.                                    *)
LEMMA OperationAt ==
    ASSUME ModelsTyped, Programs, NEW c \in Callers
    PROVE  /\ does[c].op \in Operations
           /\ stage[c] \in {"again", "start", "ready"} => does[c].op = "updateModel"
           /\ stage[c] = "insert" => does[c].op \in {"load", "addModel", "updateModel"}
           /\ stage[c] \in {"list", "next"} => does[c].op \in Looping
           /\ stage[c] = "fetch" => does[c].op = "updateTask"
           /\ stage[c] = "erase" => does[c].op \in {"removeModel", "deleteTask"}
           /\ stage[c] \in {"read", "init"} => c = Loader
           /\ About(c, "shutdown") => does[c].op \in {"updateModel", "removeModel"}
           /\ About(c, "remove") => does[c].op \in {"updateTask", "deleteTask"}
           /\ About(c, "spawn") => does[c].op \in Looping \cup {"addTask", "updateTask"}
           /\ About(c, "prompt") => does[c].op = "prompt"
           /\ stage[c] \in Asking => request[c].kind \in {"spawn", "remove", "prompt", "shutdown"}
           /\ c = Loader => does[c].op = "load"
           /\ does[c].op = "load" /\ stage[c] # "idle" => c = Loader
<1>1. does[c].op \in Operations
  BY ModelsTypes DEF Called
<1>2. /\ stage[c] \in Asking => request[c].kind \in AskedBy[does[c].op]
      /\ stage[c] \notin Asking \cup {"idle", "done"} => stage[c] \in StagesOf[does[c].op]
      /\ c = Loader <=> does[c].op = "load" /\ stage[c] # "idle"
  BY DEF Programs, Program
<1> QED
  BY <1>1, <1>2 DEF Operations, AskedBy, StagesOf, Looping, About, Asking

(* The first step of a call, and a further one.                            *)
LEMMA ProgramBegins ==
    ASSUME Programs, NEW c \in Calls, stage[c] = "idle", rest'[c] = rest[c],
           does'[c].op \in Operations \ {"load"},
           does'[c].op \in OfModels => does'[c].model \in Models,
           does'[c].op \in OfTasks => does'[c].task \in Tasks,
           \/ stage'[c] = "done"
           \/ stage'[c] \in StagesOf[does'[c].op] \ {"fetch"}
           \/ /\ stage'[c] = "ask" /\ request'[c].kind \in AskedBy[does'[c].op]
              /\ request'[c].kind = "shutdown" => request'[c].on = does'[c].model
              /\ request'[c].kind # "shutdown" => request'[c].task = does'[c].task
              /\ request'[c].kind = "prompt" => request'[c].on \in Models
              /\ request'[c].kind = "spawn" => request'[c].on \in Models \cup {Default}
              /\ does'[c].task \in Tasks \/ request'[c].kind = "shutdown"
    PROVE  Program(c)'
<1>1. c \in Callers /\ c # Loader /\ Loader = "load"
  BY IdsDiffer DEF Callers, Loader
<1>2. rest[c] = {}
  BY <1>1 DEF Programs, Program, About, Asking
<1> QED
  BY <1>1, <1>2 DEF Program, About, Asking, Operations, AskedBy, StagesOf

LEMMA ProgramGoes ==
    ASSUME ModelsTyped, Programs, NEW c \in Callers, stage[c] # "idle",
           does'[c].op = does[c].op, does'[c].model = does[c].model,
           does'[c].task = does[c].task,
           \A r \in rest'[c] : r \in rest[c]
               \/ r \in [task : Tasks, on : Models \cup {Default}, text : Nat],
           rest'[c] # {} => /\ does[c].op \in Looping
                            /\ \/ stage'[c] = "next"
                               \/ stage'[c] \in Asking /\ request'[c].kind = "spawn",
           \/ stage'[c] = "done"
           \/ /\ stage'[c] \in StagesOf[does[c].op]
              /\ stage'[c] = "fetch" => request'[c].task = does[c].task
              /\ c = Loader /\ stage'[c] = "insert" => request'[c].on \in Models
           \/ stage[c] \in Asking /\ stage'[c] \in Asking /\ request'[c] = request[c]
           \/ /\ stage'[c] = "ask" /\ request'[c].kind \in AskedBy[does[c].op] \ {"prompt"}
              /\ request'[c].kind = "shutdown" => request'[c].on = does[c].model
              /\ request'[c].kind = "spawn" => request'[c].on \in Models \cup {Default}
              /\ request'[c].kind # "shutdown" =>
                    /\ request'[c].task \in Tasks
                    /\ does[c].op \in OfTasks => request'[c].task = does[c].task
    PROVE  Program(c)'
<1>1. /\ does[c].op \in Operations
      /\ stage'[c] \in StagesOf[does[c].op] => stage'[c] \notin Asking \cup {"idle", "done"}
  BY OperationAt DEF Operations, StagesOf, Asking
<1>2. Program(c)
  BY DEF Programs
<1> QED
  BY <1>1, <1>2 DEF Program, About, Asking

(* A step that leaves the rows and the threads alone keeps the types if    *)
(* the call's locals and the lock have theirs.                             *)
LEMMA CallTyped ==
    ASSUME ModelsTyped, UNCHANGED <<models, default, tasks, texts, loaded, threads, channel>>,
           overlapped' \in BOOLEAN, lock' \in Seq(Callers), stage' \in [Callers -> Stages],
           request' \in [Callers -> Request], rest' \in [Callers -> SUBSET Row],
           does' \in [Callers -> Called], starts' \subseteq Models \X Bodies,
           unspawned' \subseteq Tasks
    PROVE  ModelsTyped'
BY DEF ModelsTyped, TypeOK, Known

(* What is stored and asked for has the type of a request.                 *)
LEMMA RowsAsked ==
    ASSUME ModelsTyped
    PROVE  /\ \A t \in Stored : /\ tasks[t] \in Row /\ tasks[t].task = t
                                /\ tasks[t].on \in Models \cup {Default}
                                /\ tasks[t] \in [task : Tasks, on : Models \cup {Default}, text : Nat]
           /\ \A r \in [task : Tasks, on : Models \cup {Default}, text : Nat] :
                 Ask("spawn", r.task, r.on, r.text) \in Request
           /\ \A m \in Models : Ask("shutdown", "none", m, 0) \in Request
           /\ \A m \in Models : Ask("none", "none", m, 0) \in Request
           /\ \A t \in Tasks, on \in Models \cup {Default} : Ask("remove", t, on, 0) \in Request
           /\ \A t \in Tasks, m \in Models : Ask("prompt", t, m, 0) \in Request
           /\ \A on \in Known \cup {Default} : Resolve(on) \in Models \cup {NoModel}
           /\ Known \subseteq Models /\ Present \subseteq Known
BY DEF ModelsTyped, TypeOK, Row, Request, Ask, Stored, Known, Present, Bodies, Resolve

(* A request is for a model or for none; mail that is sent or not there    *)
(* yet has its type.                                                       *)
LEMMA TargetTyped ==
    ASSUME ModelsTyped, Programs, NEW c \in Callers, stage[c] \in Asking, Reachable(Target(c))
    PROVE  Target(c) \in Models
<1>1. request[c].kind \in {"spawn", "remove", "prompt", "shutdown"} /\ Target(c) # NoModel
  BY OperationAt DEF Reachable
<1>2. CASE request[c].kind \in {"prompt", "shutdown"}
  BY <1>2, OperationAt DEF Target, Programs, Program, About, OfModels
<1>3. CASE request[c].kind = "remove"
  BY <1>1, <1>3, RowsAsked DEF Target, Resolve, ModelsTyped, TypeOK
<1>4. CASE request[c].kind = "spawn"
  BY <1>1, <1>4 DEF Target, Resolve, ModelsTyped, TypeOK, Programs, Program, About, Known
<1> QED
  BY <1>1, <1>2, <1>3, <1>4

LEMMA PromptOn ==
    ASSUME ModelsTyped, NEW t \in Stored, Resolve(tasks[t].on) # NoModel
    PROVE  Resolve(tasks[t].on) \in Models
BY RowsAsked DEF Resolve, ModelsTyped, TypeOK

LEMMA MailAdded ==
    ASSUME NEW x \in Thread, NEW from \in Callers, NEW ask \in Request
    PROVE  /\ [x EXCEPT !.inbox = Append(@, [from |-> from, ask |-> ask])] \in Thread
           /\ [x EXCEPT !.inbox = Append(@, [from |-> from, ask |-> ask])].model = x.model
           /\ [x EXCEPT !.inbox = Append(@, [from |-> from, ask |-> ask])].phase = x.phase
           /\ x.inbox = <<>> =>
                [x EXCEPT !.inbox = Append(@, [from |-> from, ask |-> ask])].inbox
                    = <<[from |-> from, ask |-> ask]>>
<1> DEFINE M == [from : Callers, ask : Request]
           k == [from |-> from, ask |-> ask]
<1>1. x.inbox \in Seq(M) /\ k \in M
  BY DEF Thread
<1> HIDE DEF M, k
<1>2. Append(x.inbox, k) \in Seq(M)
  BY <1>1
<1>3. Append(<<>>, k) = <<k>>
  OBVIOUS
<1>4. [x EXCEPT !.inbox = Append(@, k)] \in Thread
  <2>1. \A y \in Seq(M) : [x EXCEPT !.inbox = y] \in Thread
    BY DEF Thread, M
  <2> QED
    BY <1>2, <2>1
<1>5. \A y : /\ [x EXCEPT !.inbox = y].model = x.model /\ [x EXCEPT !.inbox = y].phase = x.phase
              /\ [x EXCEPT !.inbox = y].inbox = y
  BY DEF Thread
<1> QED
  BY <1>3, <1>4, <1>5 DEF M, k

LEMMA EmptyInbox == <<>> \in Seq([from : Callers, ask : Request])
OBVIOUS

LEMMA AddModelTyped ==
    ASSUME ModelsTyped, Programs, Mail, NEW c \in Calls, NEW m \in Models, NEW b \in Bodies,
           AddModel(c, m, b)
    PROVE  ModelsTyped' /\ Programs' /\ Mail'
<1>1. c \in Callers
  BY DEF Callers
<1>2. ModelsTyped'
  <2>1. /\ UNCHANGED <<default, tasks, texts, loaded, threads, channel, rest, starts,
                       unspawned, request>>
        /\ overlapped' \in BOOLEAN /\ m \in Models /\ b \in Bodies
        /\ models' = [models EXCEPT ![m] = b]
    BY DEF AddModel, Call, ModelsTyped
  <2>2. models' \in [Models -> Bodies \cup {"none", "gone"}] /\ Known \subseteq Known'
    BY <2>1 DEF ModelsTyped, TypeOK, Known, Bodies
  <2>3. lock' \in Seq(Callers) /\ stage' \in [Callers -> Stages]
    BY <1>1, ModelsTypes, LockMoved DEF AddModel, Queue, Go, Stages
  <2>4. does' \in [Callers -> Called]
    BY <1>1, <2>1, ModelsTypes DEF AddModel, Call, Called, Operations
  <2> QED
    BY <2>1, <2>2, <2>3, <2>4 DEF ModelsTyped, TypeOK
<1>3. Program(c)'
  <2>1. stage[c] = "idle" /\ rest' = rest
    BY DEF AddModel, Call
  <2>2. /\ does'[c] = [op |-> "addModel", body |-> b, model |-> m, task |-> "none"]
        /\ stage'[c] \in {"insert", "done"}
    BY <1>1, ModelsTypes DEF AddModel, Call, Queue, Go, ModelsTyped, TypeOK
  <2> QED
    BY <2>1, <2>2, ProgramBegins DEF Operations, OfModels, OfTasks, AskedBy, StagesOf
<1>4. Programs'
  BY <1>1, <1>3, ProgramsOf, ModelsTypes DEF AddModel, Call, Queue, Go
<1>5. Mail'
  BY <1>1, MailKept, ModelsTypes DEF AddModel, Call, Queue, Go, Holds
<1> QED
  BY <1>2, <1>4, <1>5

LEMMA UpdateModelTyped ==
    ASSUME ModelsTyped, Programs, Mail, NEW c \in Calls, NEW m \in Models, NEW b \in Bodies,
           UpdateModel(c, m, b)
    PROVE  ModelsTyped' /\ Programs' /\ Mail'
<1>1. c \in Callers
  BY DEF Callers
<1>2. ModelsTyped'
  BY SMTT(30), <1>1, IdsDiffer, ModelsTypes, LockMoved
     DEF ModelsTyped, TypeOK, UpdateModel, Call, Go, Stages, Operations, Bodies, Request, Row,
         Called, Known, Present, Stored, Callers
<1>3. Program(c)'
  <2>1. stage[c] = "idle" /\ rest' = rest
    BY DEF UpdateModel, Call
  <2>2. /\ does'[c] = [op |-> "updateModel", body |-> b, model |-> m, task |-> "none"]
        /\ stage'[c] = "again"
    BY <1>1, ModelsTypes DEF UpdateModel, Call, Go, ModelsTyped, TypeOK
  <2> QED
    BY <2>1, <2>2, ProgramBegins DEF Operations, OfModels, OfTasks, AskedBy, StagesOf
<1>4. Programs'
  BY <1>1, <1>3, ProgramsOf, ModelsTypes DEF UpdateModel, Call, Go
<1>5. Mail'
  BY <1>1, MailKept, ModelsTypes DEF UpdateModel, Call, Go, Holds
<1> QED
  BY <1>2, <1>4, <1>5

LEMMA RemoveModelTyped ==
    ASSUME ModelsTyped, Programs, Mail, NEW c \in Calls, NEW m \in Models, RemoveModel(c, m)
    PROVE  ModelsTyped' /\ Programs' /\ Mail'
<1>1. c \in Callers
  BY DEF Callers
<1>2. ModelsTyped'
  BY <1>1, IdsDiffer, ModelsTypes, LockMoved
     DEF ModelsTyped, TypeOK, RemoveModel, Call, Asks, Ask, Queue, Go, rows, Stages, Operations,
         Bodies, Request, Row, Called, Known, Present, Stored, Callers
<1>3. Program(c)'
  <2>1. stage[c] = "idle" /\ rest' = rest
    BY DEF RemoveModel, Call
  <2>2. /\ does'[c] = [op |-> "removeModel", body |-> "whole", model |-> m, task |-> "none"]
        /\ stage'[c] = "ask" /\ request'[c].kind = "shutdown" /\ request'[c].on = m
    BY <1>1, ModelsTypes DEF RemoveModel, Call, Asks, Ask, Queue, Go, rows, ModelsTyped, TypeOK
  <2> QED
    BY <2>1, <2>2, ProgramBegins DEF Operations, OfModels, OfTasks, AskedBy, StagesOf
<1>4. Programs'
  BY <1>1, <1>3, ProgramsOf, ModelsTypes DEF RemoveModel, Call, Asks, Ask, Queue, Go, rows
<1>5. Mail'
  BY <1>1, MailKept, ModelsTypes DEF RemoveModel, Call, Asks, Ask, Queue, Go, rows, Holds
<1> QED
  BY <1>2, <1>4, <1>5

LEMMA SetDefaultTyped ==
    ASSUME ModelsTyped, Programs, Mail, NEW c \in Calls, NEW m \in Models, SetDefault(c, m)
    PROVE  ModelsTyped' /\ Programs' /\ Mail'
<1>1. c \in Callers
  BY DEF Callers
<1>2. ModelsTyped'
  BY <1>1, IdsDiffer, ModelsTypes, LockMoved
     DEF ModelsTyped, TypeOK, SetDefault, Call, Go, Stages, Operations, Bodies, Request, Row,
         Called, Known, Present, Stored, Callers
<1>3. Program(c)'
  <2>1. stage[c] = "idle" /\ rest' = rest
    BY DEF SetDefault, Call
  <2>2. /\ does'[c] = [op |-> "setDefault", body |-> "whole", model |-> m, task |-> "none"]
        /\ stage'[c] = "list"
    BY <1>1, ModelsTypes DEF SetDefault, Call, Go, ModelsTyped, TypeOK
  <2> QED
    BY <2>1, <2>2, ProgramBegins DEF Operations, OfModels, OfTasks, AskedBy, StagesOf
<1>4. Programs'
  BY <1>1, <1>3, ProgramsOf, ModelsTypes DEF SetDefault, Call, Go
<1>5. Mail'
  BY <1>1, MailKept, ModelsTypes DEF SetDefault, Call, Go, Holds
<1> QED
  BY <1>2, <1>4, <1>5

LEMMA AddTaskTyped ==
    ASSUME ModelsTyped, Programs, Mail, NEW c \in Calls, NEW t \in Tasks,
           NEW on \in Known \cup {Default}, AddTask(c, t, on)
    PROVE  ModelsTyped' /\ Programs' /\ Mail'
<1>1. c \in Callers
  BY DEF Callers
<1>2. ModelsTyped'
  BY SMTT(30), <1>1, IdsDiffer, ModelsTypes, LockMoved
     DEF ModelsTyped, TypeOK, AddTask, Call, Write, Spawns, Asks, Ask, Queue, Go, Stages,
         Operations, Bodies, Request, Row, Called, Known, Present, Stored, Callers
<1>3. Program(c)'
  <2>1. stage[c] = "idle" /\ rest' = rest
    BY DEF AddTask, Call
  <2>2. /\ does'[c] = [op |-> "addTask", body |-> "whole", model |-> NoModel, task |-> t]
        /\ stage'[c] = "ask" /\ request'[c].kind = "spawn" /\ request'[c].task = t
        /\ request'[c].on = on
    BY <1>1, ModelsTypes
       DEF AddTask, Call, Write, Spawns, Asks, Ask, Queue, Go, ModelsTyped, TypeOK
  <2> QED
    BY <2>1, <2>2, ProgramBegins DEF Known, Operations, OfModels, OfTasks, AskedBy, StagesOf
<1>4. Programs'
  BY <1>1, <1>3, ProgramsOf, ModelsTypes DEF AddTask, Call, Write, Spawns, Asks, Ask, Queue, Go
<1>5. Mail'
  BY <1>1, MailKept, ModelsTypes DEF AddTask, Call, Write, Spawns, Asks, Ask, Queue, Go, Holds
<1> QED
  BY <1>2, <1>4, <1>5

LEMMA UpdateTaskTyped ==
    ASSUME ModelsTyped, Programs, Mail, NEW c \in Calls, NEW t \in Tasks,
           NEW on \in Known \cup {Default},
           UpdateTask(c, t, on)
    PROVE  ModelsTyped' /\ Programs' /\ Mail'
<1>1. c \in Callers
  BY DEF Callers
<1>2. ModelsTyped'
  BY <1>1, IdsDiffer, ModelsTypes, LockMoved
     DEF ModelsTyped, TypeOK, UpdateTask, Call, Write, Asks, Ask, Queue, Go, Stages, Operations,
         Bodies, Request, Row, Called, Known, Present, Stored, Callers
<1>3. Program(c)'
  <2>1. stage[c] = "idle" /\ rest' = rest
    BY DEF UpdateTask, Call
  <2>2. /\ does'[c] = [op |-> "updateTask", body |-> "whole", model |-> NoModel, task |-> t]
        /\ stage'[c] = "ask" /\ request'[c].kind = "remove" /\ request'[c].task = t
    BY <1>1, ModelsTypes DEF UpdateTask, Call, Write, Asks, Ask, Queue, Go, ModelsTyped, TypeOK
  <2> QED
    BY <2>1, <2>2, ProgramBegins DEF Operations, OfModels, OfTasks, AskedBy, StagesOf
<1>4. Programs'
  BY <1>1, <1>3, ProgramsOf, ModelsTypes DEF UpdateTask, Call, Write, Asks, Ask, Queue, Go
<1>5. Mail'
  BY <1>1, MailKept, ModelsTypes DEF UpdateTask, Call, Write, Asks, Ask, Queue, Go, Holds
<1> QED
  BY <1>2, <1>4, <1>5

LEMMA DeleteTaskTyped ==
    ASSUME ModelsTyped, Programs, Mail, NEW c \in Calls, NEW t \in Tasks, DeleteTask(c, t)
    PROVE  ModelsTyped' /\ Programs' /\ Mail'
<1>1. c \in Callers
  BY DEF Callers
<1>2. ModelsTyped'
  BY <1>1, IdsDiffer, ModelsTypes, LockMoved
     DEF ModelsTyped, TypeOK, DeleteTask, Call, Asks, Ask, Queue, Go, rows, Stages, Operations,
         Bodies, Request, Row, Called, Known, Present, Stored, Callers
<1>3. Program(c)'
  <2>1. stage[c] = "idle" /\ rest' = rest
    BY DEF DeleteTask, Call
  <2>2. /\ does'[c] = [op |-> "deleteTask", body |-> "whole", model |-> NoModel, task |-> t]
        /\ stage'[c] = "ask" /\ request'[c].kind = "remove" /\ request'[c].task = t
    BY <1>1, ModelsTypes DEF DeleteTask, Call, Asks, Ask, Queue, Go, rows, ModelsTyped, TypeOK
  <2> QED
    BY <2>1, <2>2, ProgramBegins DEF Operations, OfModels, OfTasks, AskedBy, StagesOf
<1>4. Programs'
  BY <1>1, <1>3, ProgramsOf, ModelsTypes DEF DeleteTask, Call, Asks, Ask, Queue, Go, rows
<1>5. Mail'
  BY <1>1, MailKept, ModelsTypes DEF DeleteTask, Call, Asks, Ask, Queue, Go, rows, Holds
<1> QED
  BY <1>2, <1>4, <1>5

LEMMA PromptTyped ==
    ASSUME ModelsTyped, Programs, Mail, NEW c \in Calls, NEW t \in Tasks, Prompt(c, t)
    PROVE  ModelsTyped' /\ Programs' /\ Mail'
<1>1. c \in Callers
  BY DEF Callers
<1>2. ModelsTyped'
  <2>1. UNCHANGED <<models, default, tasks, texts, loaded, threads,
                    channel>> /\ overlapped' \in BOOLEAN
    BY DEF Prompt, Call, Asks, Ask, Queue, Go, rows, ModelsTyped
  <2>2. lock' \in Seq(Callers)
    BY <1>1, ModelsTypes, LockMoved DEF Prompt, Call, Asks, Ask, Queue, Go, rows, Holds
  <2>3. stage' \in [Callers -> Stages]
    BY <1>1, ModelsTypes, OperationAt
       DEF Prompt, Call, Asks, Ask, Queue, Go, rows, Stages, About, Asking
  <2>4. request' \in [Callers -> Request]
    <3>1. Ask("prompt", t, Resolve(tasks[t].on), 0) \in Request
      BY RowsAsked, PromptOn DEF Prompt
    <3> QED
      BY <1>1, <3>1, ModelsTypes DEF Prompt, Asks
  <2>5. rest' \in [Callers -> SUBSET Row] /\ unspawned' \subseteq Tasks
    BY <1>1, ModelsTypes, RowsAsked
       DEF Prompt, Call, Asks, Ask, Queue, Go, rows, ModelsTyped, TypeOK, Row, Stored
  <2>6. does' \in [Callers -> Called]
    BY <1>1, ModelsTypes, IdsDiffer
       DEF Prompt, Call, Asks, Ask, Queue, Go, rows, Called, Operations, Bodies, Present
  <2>7. starts' \subseteq Models \X Bodies
    BY DEF Prompt, Call, Asks, Ask, Queue, Go, rows, ModelsTyped, TypeOK, Present
  <2> QED
    BY <2>1, <2>2, <2>3, <2>4, <2>5, <2>6, <2>7, CallTyped
<1>3. Program(c)'
  <2>1. stage[c] = "idle" /\ rest' = rest
    BY DEF Prompt, Call
  <2>2. /\ does'[c] = [op |-> "prompt", body |-> "whole", model |-> NoModel, task |-> t]
        /\ stage'[c] = "ask" /\ request'[c].kind = "prompt" /\ request'[c].task = t
        /\ request'[c].on \in Models
    BY <1>1, ModelsTypes, RowsAsked
       DEF Prompt, Call, Asks, Ask, Queue, Go, rows, ModelsTyped, TypeOK, Stored
  <2> QED
    BY <2>1, <2>2, ProgramBegins DEF Operations, OfModels, OfTasks, AskedBy, StagesOf
<1>4. Programs'
  BY <1>1, <1>3, ProgramsOf, ModelsTypes DEF Prompt, Call, Asks, Ask, Queue, Go, rows
<1>5. Mail'
  BY <1>1, MailKept, ModelsTypes DEF Prompt, Call, Asks, Ask, Queue, Go, rows, Holds
<1> QED
  BY <1>2, <1>4, <1>5

LEMMA SendTyped ==
    ASSUME ModelsTyped, Programs, Mail, NEW c \in Callers, Send(c)
    PROVE  ModelsTyped' /\ Programs' /\ Mail'
<1>1. c \in Callers
  BY DEF Callers
<1>2. ModelsTyped'
  <2>1. UNCHANGED <<models, default, tasks, texts, loaded, channel, lock, does, request, rest,
                    starts, unspawned, overlapped>>
    BY DEF Send, AtLock, rows
  <2>2. stage' \in [Callers -> Stages]
    BY <1>1, ModelsTypes DEF Send, Go, Stages
  <2> DEFINE i == channel[Target(c)]
             x == [threads[i] EXCEPT !.inbox = Append(@, [from |-> c, ask |-> request[c]])]
  <2>3. Target(c) \in Models /\ i \in DOMAIN threads /\ threads' = [threads EXCEPT ![i] = x]
    BY <1>1, ModelsTypes, TargetTyped DEF Send, Reachable, Asking
  <2>4. x \in Thread /\ x.model = threads[i].model
    <3>1. threads[i] \in Thread /\ request[c] \in Request
      BY <1>1, <2>3, ModelsTypes
    <3> QED
      BY <1>1, <3>1, MailAdded
  <2>5. /\ threads' \in Seq(Thread) /\ Len(threads') = Len(threads)
        /\ \A j \in DOMAIN threads : threads'[j].model = threads[j].model
    BY <2>3, <2>4, ThreadChanged, ModelsTypes
  <2>6. \A m \in Models : channel[m] # 0 => threads'[channel[m]].model = m
    BY <2>5, ModelsTypes
  <2> QED
    BY <2>1, <2>2, <2>5, <2>6 DEF ModelsTyped, TypeOK, Known
<1>3. Program(c)'
  BY <1>1, IdsDiffer, ModelsTypes
     DEF Programs, Program, About, Asking, AskedBy, StagesOf, OfModels, OfTasks, Looping, Send,
         Go, AtLock, rows, ModelsTyped, TypeOK, Operations, Stages, Called, Row, Request,
         Stored, Known, Present, Bodies, Callers
<1>4. Programs'
  BY <1>1, <1>3, ProgramsOf, ModelsTypes DEF Send, Go, AtLock, rows
<1>5. Mail'
  <2>1. lock # <<>> /\ Head(lock) = c /\ stage[c] = "ask"
    BY DEF Send, Holds
  <2>2. \A j \in DOMAIN threads : threads[j].inbox = <<>>
    BY <2>1 DEF Mail
  <2> DEFINE i == channel[Target(c)]
             x == [threads[i] EXCEPT !.inbox = Append(@, [from |-> c, ask |-> request[c]])]
  <2>3. /\ Target(c) \in Models /\ i \in DOMAIN threads /\ threads' = [threads EXCEPT ![i] = x]
        /\ threads[i].phase \in Alive
    BY <1>1, ModelsTypes, TargetTyped DEF Send, Reachable, Asking
  <2>4. /\ x \in Thread /\ x.phase = threads[i].phase
        /\ x.inbox = <<[from |-> c, ask |-> request[c]]>>
    <3>1. threads[i] \in Thread /\ request[c] \in Request /\ threads[i].inbox = <<>>
      BY <1>1, <2>2, <2>3, ModelsTypes
    <3> QED
      BY <1>1, <3>1, MailAdded
  <2>5. /\ DOMAIN threads' = DOMAIN threads /\ threads'[i] = x
        /\ \A j \in DOMAIN threads \ {i} : threads'[j] = threads[j]
    BY <2>3, <2>4, ThreadChanged, ModelsTypes
  <2>6. lock' = lock /\ request' = request /\ stage'[c] = "await"
    BY <1>1, ModelsTypes DEF Send, Go
  <2> QED
    BY <2>1, <2>2, <2>3, <2>4, <2>5, <2>6 DEF Mail
<1> QED
  BY <1>2, <1>4, <1>5

LEMMA NotSentTyped ==
    ASSUME ModelsTyped, Programs, Mail, NEW c \in Callers, NotSent(c)
    PROVE  ModelsTyped' /\ Programs' /\ Mail'
<1>1. c \in Callers
  BY DEF Callers
<1>2. ModelsTyped'
  BY <1>1, IdsDiffer, ModelsTypes, LockMoved
     DEF ModelsTyped, TypeOK, NotSent, Go, AtLock, rows, Stages, Operations, Bodies, Request,
         Row, Called, Known, Present, Stored, Callers
<1>3. Program(c)'
  BY <1>1, IdsDiffer, ModelsTypes
     DEF Programs, Program, About, Asking, AskedBy, StagesOf, OfModels, OfTasks, Looping,
         NotSent, Go, AtLock, rows, ModelsTyped, TypeOK, Operations, Stages, Called, Row,
         Request, Stored, Known, Present, Bodies, Callers
<1>4. Programs'
  BY <1>1, <1>3, ProgramsOf, ModelsTypes DEF NotSent, Go, AtLock, rows
<1>5. Mail'
  BY <1>1, MailKept, ModelsTypes DEF NotSent, Go, AtLock, rows, Holds
<1> QED
  BY <1>2, <1>4, <1>5

LEMMA AnsweredTyped ==
    ASSUME ModelsTyped, Programs, Mail, NEW c \in Callers, Answered(c)
    PROVE  ModelsTyped' /\ Programs' /\ Mail'
<1>1. c \in Callers
  BY DEF Callers
<1>2. ModelsTyped'
  <2>1. /\ UNCHANGED <<models, default, tasks, texts, loaded, threads, does, request, rest,
                       starts, unspawned, overlapped>>
        /\ stage[c] = "ok" /\ Holds(c) /\ lock' = Tail(lock)
    BY DEF Answered, AtLock, rows
  <2>2. stage' \in [Callers -> Stages]
    BY <1>1, <2>1, ModelsTypes, OperationAt DEF Answered, Go, Stages, Following, Asking
  <2>3. lock' \in Seq(Callers)
    BY <2>1, ModelsTypes, LockMoved DEF Holds
  <2>4. /\ channel' \in [Models -> 0 .. Len(threads)]
        /\ \A m \in Models : channel'[m] # 0 => channel'[m] = channel[m]
    <3>1. Len(threads) \in Nat
      BY ModelsTypes
    <3>2. CASE request[c].kind = "shutdown"
      <4>1. channel' = [channel EXCEPT ![request[c].on] = 0]
        BY <3>2 DEF Answered
      <4>2. request[c].on \in Models
        BY <1>1, <2>1, <3>2, OperationAt DEF Programs, Program, About, Asking, OfModels
      <4> QED
        BY <1>1, <2>1, <3>1, <3>2, <4>1, <4>2, ModelsTypes
    <3>3. CASE request[c].kind # "shutdown"
      BY <3>3, ModelsTypes DEF Answered
    <3> QED
      BY <3>2, <3>3
  <2> QED
    BY <2>1, <2>2, <2>3, <2>4 DEF ModelsTyped, TypeOK, Known
<1>3. Program(c)'
  <2>1. /\ stage[c] = "ok" /\ does' = does /\ request' = request /\ rest' = rest
        /\ stage'[c] = Following(does[c].op, request[c].kind)
    BY <1>1, ModelsTypes DEF Answered, Go, AtLock
  <2>2. About(c, request[c].kind) /\ request[c].kind \in {"spawn", "remove", "prompt", "shutdown"}
    BY <1>1, <2>1, OperationAt DEF About, Asking
  <2>3. /\ stage'[c] = "done" \/ stage'[c] \in StagesOf[does[c].op]
        /\ stage'[c] = "fetch" => request[c].task = does[c].task
        /\ stage'[c] # "insert"
        /\ request[c].kind = "spawn" /\ does[c].op \in Looping => stage'[c] = "next"
    <3>1. CASE request[c].kind = "spawn"
      BY <1>1, <2>1, <2>2, <3>1, OperationAt DEF Following, StagesOf, Looping
    <3>2. CASE request[c].kind = "remove"
      BY <1>1, <2>1, <2>2, <3>2, OperationAt
         DEF Following, StagesOf, Looping, Programs, Program, OfTasks
    <3>3. CASE request[c].kind = "prompt"
      BY <2>1, <3>3 DEF Following
    <3>4. CASE request[c].kind = "shutdown"
      BY <1>1, <2>1, <2>2, <3>4, OperationAt DEF Following, StagesOf, Looping
    <3> QED
      BY <2>2, <3>1, <3>2, <3>3, <3>4
  <2>4. rest[c] # {} => does[c].op \in Looping /\ request[c].kind = "spawn"
    BY <1>1, <2>1 DEF Programs, Program, About
  <2> QED
    BY <1>1, <2>1, <2>3, <2>4, ProgramGoes
<1>4. Programs'
  BY <1>1, <1>3, ProgramsOf, ModelsTypes DEF Answered, Go, AtLock, rows, Following
<1>5. Mail'
  BY <1>1, MailKept, ModelsTypes DEF Answered, Go, AtLock, rows, Following, Holds
<1> QED
  BY <1>2, <1>4, <1>5

LEMMA RefusedTyped ==
    ASSUME ModelsTyped, Programs, Mail, NEW c \in Callers, Refused(c)
    PROVE  ModelsTyped' /\ Programs' /\ Mail'
<1>1. c \in Callers
  BY DEF Callers
<1>2. ModelsTyped'
  <2>1. /\ UNCHANGED <<models, default, tasks, texts, loaded, threads, does, request, starts,
                       overlapped>>
        /\ stage[c] = "err" /\ Holds(c) /\ lock' = Tail(lock)
    BY DEF Refused, AtLock, rows
  <2>2. stage' \in [Callers -> Stages]
    <3>1. \E s \in Stages : stage' = [stage EXCEPT ![c] = s]
      BY DEF Refused, Go, Stages, Following
    <3> QED
      BY <1>1, <3>1, ModelsTypes
  <2>3. lock' \in Seq(Callers)
    BY <2>1, ModelsTypes, LockMoved DEF Holds
  <2>4. /\ channel' \in [Models -> 0 .. Len(threads)]
        /\ \A m \in Models : channel'[m] # 0 => channel'[m] = channel[m]
    BY <1>1, ModelsTypes DEF Refused
  <2>5. rest' \in [Callers -> SUBSET Row]
    BY <1>1, ModelsTypes DEF Refused
  <2>6. unspawned' \subseteq Tasks
    <3>1. request[c].task \in Tasks \/ unspawned' = unspawned
      BY <1>1, <2>1, OperationAt DEF Refused, Programs, Program, About, Asking
    <3>2. \A r \in rest[c] : r.task \in Tasks
      BY <1>1, ModelsTypes DEF Row
    <3> QED
      BY <3>1, <3>2 DEF Refused, GiveUp, ModelsTyped, TypeOK
  <2> QED
    BY <2>1, <2>2, <2>3, <2>4, <2>5, <2>6 DEF ModelsTyped, TypeOK, Known
<1>3. Program(c)'
  BY SMTT(30), <1>1, IdsDiffer, ModelsTypes
     DEF Programs, Program, About, Asking, AskedBy, StagesOf, OfModels, OfTasks, Looping,
         Refused, Go, AtLock, rows, Following, GiveUp, ModelsTyped, TypeOK, Operations, Stages,
         Called, Row, Request, Stored, Known, Present, Bodies, Callers
<1>4. Programs'
  BY <1>1, <1>3, ProgramsOf, ModelsTypes DEF Refused, Go, AtLock, rows, Following, GiveUp
<1>5. Mail'
  BY <1>1, MailKept, ModelsTypes DEF Refused, Go, AtLock, rows, Following, GiveUp, Holds
<1> QED
  BY <1>2, <1>4, <1>5

LEMMA AgainTyped ==
    ASSUME ModelsTyped, Programs, Mail, NEW c \in Callers, Again(c)
    PROVE  ModelsTyped' /\ Programs' /\ Mail'
<1>1. c \in Callers
  BY DEF Callers
<1>2. ModelsTyped'
  <2>1. UNCHANGED <<models, default, tasks, texts, loaded, threads,
                    channel>> /\ overlapped' \in BOOLEAN
    BY DEF Again, Go, Queue, Asks, Ask, Calling, rows, ModelsTyped
  <2>2. lock' \in Seq(Callers)
    BY <1>1, ModelsTypes, LockMoved DEF Again, Go, Queue, Asks, Ask, Calling, rows, Holds
  <2>3. stage' \in [Callers -> Stages]
    <3>1. stage' = stage \/ \E s \in Stages : stage' = [stage EXCEPT ![c] = s]
      BY DEF Again, Queue, Go, Stages
    <3> QED
      BY <1>1, <3>1, ModelsTypes
  <2>4. request' \in [Callers -> Request]
    <3>1. does[c].model \in Present => Ask("shutdown", "none", does[c].model, 0) \in Request
      BY RowsAsked
    <3> QED
      BY <1>1, <3>1, ModelsTypes DEF Again, Asks
  <2>5. rest' \in [Callers -> SUBSET Row] /\ unspawned' \subseteq Tasks
    BY <1>1, ModelsTypes, RowsAsked
       DEF Again, Go, Queue, Asks, Ask, Calling, rows, ModelsTyped, TypeOK, Row, Stored
  <2>6. does' \in [Callers -> Called]
    <3>1. \A a \in Called, b \in Bodies : [a EXCEPT !.body = b] \in Called
      BY DEF Called
    <3> QED
      BY <1>1, <3>1, ModelsTypes DEF Again, Present
  <2>7. starts' \subseteq Models \X Bodies
    BY DEF Again, Go, Queue, Asks, Ask, Calling, rows, ModelsTyped, TypeOK, Present
  <2> QED
    BY <2>1, <2>2, <2>3, <2>4, <2>5, <2>6, <2>7, CallTyped
<1>3. Program(c)'
  <2>1. /\ stage'[c] = "done" \/ (stage'[c] = "ask" /\ request'[c].kind = "shutdown"
                                  /\ request'[c].on = does[c].model)
        /\ stage[c] = "again" /\ does'[c].op = does[c].op /\ does'[c].model = does[c].model
        /\ does'[c].task = does[c].task
    BY <1>1, ModelsTypes DEF Again, Go, Queue, Asks, Ask, Calling, rows, Called
  <2>2. does[c].op = "updateModel"
    BY <1>1, <2>1, OperationAt
  <2>3. rest[c] = {} /\ rest'[c] = {}
    BY <1>1, <2>1 DEF Again, Programs, Program, About, Asking, rows, Calling
  <2> QED
    BY <1>1, <2>1, <2>2, <2>3, ProgramGoes DEF AskedBy
<1>4. Programs'
  BY <1>1, <1>3, ProgramsOf, ModelsTypes DEF Again, Go, Queue, Asks, Ask, Calling, rows
<1>5. Mail'
  BY <1>1, MailKept, ModelsTypes DEF Again, Go, Queue, Asks, Ask, Calling, rows, Holds
<1> QED
  BY <1>2, <1>4, <1>5

LEMMA StartTyped ==
    ASSUME ModelsTyped, Programs, Mail, NEW c \in Callers, Start(c)
    PROVE  ModelsTyped' /\ Programs' /\ Mail'
<1>1. c \in Callers
  BY DEF Callers
<1>2. ModelsTyped'
  <2>1. UNCHANGED <<models, default, tasks, texts, loaded, threads,
                    channel>> /\ overlapped' \in BOOLEAN
    BY DEF Start, Go, Queue, Calling, rows, ModelsTyped
  <2>2. lock' \in Seq(Callers)
    BY <1>1, ModelsTypes, LockMoved DEF Start, Go, Queue, Calling, rows, Holds
  <2>3. stage' \in [Callers -> Stages]
    <3>1. stage' = stage \/ \E s \in Stages : stage' = [stage EXCEPT ![c] = s]
      BY DEF Start, Queue, Go, Stages
    <3> QED
      BY <1>1, <3>1, ModelsTypes
  <2>4. request' \in [Callers -> Request]
    BY <1>1, ModelsTypes, RowsAsked DEF Start, Go, Queue, Calling, rows, Programs, Program
  <2>5. rest' \in [Callers -> SUBSET Row] /\ unspawned' \subseteq Tasks
    BY <1>1, ModelsTypes, RowsAsked
       DEF Start, Go, Queue, Calling, rows, ModelsTyped, TypeOK, Row, Stored
  <2>6. does' \in [Callers -> Called]
    BY <1>1, ModelsTypes, IdsDiffer
       DEF Start, Go, Queue, Calling, rows, Called, Operations, Bodies, Present
  <2>7. starts' \subseteq Models \X Bodies
    BY DEF Start, Go, Queue, Calling, rows, ModelsTyped, TypeOK, Present
  <2> QED
    BY <2>1, <2>2, <2>3, <2>4, <2>5, <2>6, <2>7, CallTyped
<1>3. Program(c)'
  <2>1. /\ stage'[c] \in {"done", "insert"}
        /\ stage[c] = "start" /\ does'[c].op = does[c].op /\ does'[c].model = does[c].model
        /\ does'[c].task = does[c].task
    BY <1>1, ModelsTypes DEF Start, Go, Queue, Calling, rows, Called
  <2>2. does[c].op = "updateModel" /\ c # Loader
    BY <1>1, <2>1, OperationAt
  <2>3. rest[c] = {} /\ rest'[c] = {}
    BY <1>1, <2>1 DEF Start, Programs, Program, About, Asking, rows, Calling
  <2> QED
    BY <1>1, <2>1, <2>2, <2>3, ProgramGoes DEF StagesOf
<1>4. Programs'
  BY <1>1, <1>3, ProgramsOf, ModelsTypes DEF Start, Go, Queue, Calling, rows
<1>5. Mail'
  BY <1>1, MailKept, ModelsTypes DEF Start, Go, Queue, Calling, rows, Holds
<1> QED
  BY <1>2, <1>4, <1>5

LEMMA InsertTyped ==
    ASSUME ModelsTyped, Programs, Mail, NEW c \in Callers, Insert(c)
    PROVE  ModelsTyped' /\ Programs' /\ Mail'
<1>1. c \in Callers
  BY DEF Callers
<1>2. ModelsTyped'
  <2>1. /\ UNCHANGED <<models, default, tasks, texts, loaded, does, request, rest, starts,
                       unspawned, overlapped>>
        /\ stage[c] = "insert" /\ Holds(c) /\ lock' = Tail(lock)
    BY DEF Insert, Calling, rows
  <2>2. stage' \in [Callers -> Stages]
    BY <1>1, <2>1, ModelsTypes, OperationAt DEF Insert, Go, Stages
  <2>3. lock' \in Seq(Callers)
    BY <2>1, ModelsTypes, LockMoved DEF Holds
  <2> DEFINE m == IF c = Loader THEN request[c].on ELSE does[c].model
             x == Spawned(c, m)
  <2>4. m \in Models
    BY <1>1, <2>1, OperationAt DEF Programs, Program, OfModels
  <2>5. x \in Thread /\ x.model = m
    BY <1>1, <2>4, EmptyInbox DEF Spawned, Thread
  <2>6. /\ threads' = Append(threads, x)
        /\ channel' = [channel EXCEPT ![m] = Len(threads) + 1]
    BY DEF Insert, Fresh
  <2>7. /\ threads' \in Seq(Thread) /\ channel' \in [Models -> 0 .. Len(threads')]
        /\ \A k \in Models : channel'[k] # 0 => threads'[channel'[k]].model = k
    BY <2>4, <2>5, <2>6, ThreadAdded, ModelsTypes
  <2> QED
    BY <2>1, <2>2, <2>3, <2>7 DEF ModelsTyped, TypeOK, Known
<1>3. Program(c)'
  <2>1. /\ stage'[c] = CASE does[c].op = "addModel" -> "done"
                         [] does[c].op = "updateModel" -> "ready"
                         [] does[c].op = "load" -> "init"
        /\ stage[c] = "insert" /\ does'[c].op = does[c].op /\ does'[c].model = does[c].model
        /\ does'[c].task = does[c].task
    BY <1>1, ModelsTypes DEF Insert, Go, Calling, rows, Called
  <2>2. does[c].op \in {"load", "addModel", "updateModel"}
    BY <1>1, <2>1, OperationAt
  <2>3. rest[c] = {} /\ rest'[c] = {}
    BY <1>1, <2>1 DEF Insert, Programs, Program, About, Asking, rows, Calling
  <2> QED
    BY <1>1, <2>1, <2>2, <2>3, ProgramGoes DEF StagesOf
<1>4. Programs'
  BY <1>1, <1>3, ProgramsOf, ModelsTypes DEF Insert, Go, Calling, rows
<1>5. Mail'
  <2>1. lock # <<>> /\ Head(lock) = c /\ stage[c] = "insert"
    BY DEF Insert, Holds
  <2>2. \A j \in DOMAIN threads : threads[j].inbox = <<>>
    BY <2>1 DEF Mail
  <2> DEFINE m == IF c = Loader THEN request[c].on ELSE does[c].model
             x == Spawned(c, m)
  <2>3. m \in Models
    BY <1>1, <2>1, OperationAt DEF Programs, Program, OfModels
  <2>4. x \in Thread /\ x.inbox = <<>> /\ threads' = Append(threads, x)
    BY <1>1, <2>3, EmptyInbox DEF Spawned, Thread, Insert
  <2>5. \A j \in DOMAIN threads' : threads'[j].inbox = <<>>
    BY <2>2, <2>4, ThreadAdded, ModelsTypes
  <2> QED
    BY <2>5 DEF Mail
<1> QED
  BY <1>2, <1>4, <1>5

LEMMA ReadyTyped ==
    ASSUME ModelsTyped, Programs, Mail, NEW c \in Callers, Ready(c)
    PROVE  ModelsTyped' /\ Programs' /\ Mail'
<1>1. c \in Callers
  BY DEF Callers
<1>2. ModelsTyped'
  BY SMTT(30), <1>1, IdsDiffer, ModelsTypes, LockMoved
     DEF ModelsTyped, TypeOK, Ready, Go, Calling, rows, Stages, Operations, Bodies, Request,
         Row, Called, Known, Present, Stored, Callers
<1>3. Program(c)'
  <2>1. /\ stage'[c] \in {"done", "list"}
        /\ stage[c] = "ready" /\ does'[c].op = does[c].op /\ does'[c].model = does[c].model
        /\ does'[c].task = does[c].task
    BY <1>1, ModelsTypes DEF Ready, Go, Calling, rows, Called
  <2>2. does[c].op = "updateModel"
    BY <1>1, <2>1, OperationAt
  <2>3. rest[c] = {} /\ rest'[c] = {}
    BY <1>1, <2>1 DEF Ready, Programs, Program, About, Asking, rows, Calling
  <2> QED
    BY <1>1, <2>1, <2>2, <2>3, ProgramGoes DEF StagesOf
<1>4. Programs'
  BY <1>1, <1>3, ProgramsOf, ModelsTypes DEF Ready, Go, Calling, rows
<1>5. Mail'
  BY <1>1, MailKept, ModelsTypes DEF Ready, Go, Calling, rows, Holds
<1> QED
  BY <1>2, <1>4, <1>5

LEMMA ListTyped ==
    ASSUME ModelsTyped, Programs, Mail, NEW c \in Callers, List(c)
    PROVE  ModelsTyped' /\ Programs' /\ Mail'
<1>1. c \in Callers
  BY DEF Callers
<1>2. ModelsTyped'
  <2>1. UNCHANGED <<models, default, tasks, texts, loaded, threads,
                    channel>> /\ overlapped' \in BOOLEAN
    BY DEF List, Go, Calling, rows, GiveUp, ModelsTyped
  <2>2. lock' \in Seq(Callers)
    BY <1>1, ModelsTypes, LockMoved DEF List, Go, Calling, rows, GiveUp, Holds
  <2>3. stage' \in [Callers -> Stages]
    BY <1>1, ModelsTypes, OperationAt DEF List, Go, Calling, rows, GiveUp, Stages, About, Asking
  <2>4. request' \in [Callers -> Request]
    BY <1>1, ModelsTypes, RowsAsked DEF List, Go, Calling, rows, GiveUp, Programs, Program
  <2>5. rest' \in [Callers -> SUBSET Row] /\ unspawned' \subseteq Tasks
    <3>1. {tasks[t] : t \in Listed(does[c].op, does[c].model)} \subseteq Row
      BY RowsAsked DEF Listed
    <3> QED
      BY <1>1, <3>1, ModelsTypes DEF List, GiveUp, Stored, ModelsTyped, TypeOK
  <2>6. does' \in [Callers -> Called]
    BY <1>1, ModelsTypes, IdsDiffer
       DEF List, Go, Calling, rows, GiveUp, Called, Operations, Bodies, Present
  <2>7. starts' \subseteq Models \X Bodies
    BY DEF List, Go, Calling, rows, GiveUp, ModelsTyped, TypeOK, Present
  <2> QED
    BY <2>1, <2>2, <2>3, <2>4, <2>5, <2>6, <2>7, CallTyped
<1>3. Program(c)'
  <2>1. /\ stage'[c] = "next" /\ \A r \in rest'[c] : \E t \in Stored : r = tasks[t]
        /\ stage[c] = "list" /\ does'[c].op = does[c].op /\ does'[c].model = does[c].model
        /\ does'[c].task = does[c].task
    BY <1>1, ModelsTypes DEF Listed, List, Go, Calling, rows, GiveUp, Called
  <2>2. does[c].op \in Looping
    BY <1>1, <2>1, OperationAt
  <2>3. \A r \in rest'[c] : r \in [task : Tasks, on : Models \cup {Default}, text : Nat]
    BY <2>1, RowsAsked
  <2> QED
    BY <1>1, <2>1, <2>2, <2>3, ProgramGoes DEF StagesOf, Looping
<1>4. Programs'
  BY <1>1, <1>3, ProgramsOf, ModelsTypes DEF List, Go, Calling, rows, GiveUp
<1>5. Mail'
  BY <1>1, MailKept, ModelsTypes DEF List, Go, Calling, rows, GiveUp, Holds
<1> QED
  BY <1>2, <1>4, <1>5

LEMMA SpawnNextTyped ==
    ASSUME ModelsTyped, Programs, Mail, NEW c \in Callers, SpawnNext(c)
    PROVE  ModelsTyped' /\ Programs' /\ Mail'
<1>1. c \in Callers
  BY DEF Callers
<1>2. ModelsTyped'
  <2>1. UNCHANGED <<models, default, tasks, texts, loaded, threads,
                    channel>> /\ overlapped' \in BOOLEAN
    BY DEF SpawnNext, Go, Calling, rows, Spawns, Asks, Ask, Queue, ModelsTyped
  <2>2. lock' \in Seq(Callers)
    BY <1>1, ModelsTypes, LockMoved
       DEF SpawnNext, Go, Calling, rows, Spawns, Asks, Ask, Queue, Holds
  <2>3. stage' \in [Callers -> Stages]
    <3>1. stage' = stage \/ \E s \in Stages : stage' = [stage EXCEPT ![c] = s]
      BY DEF SpawnNext, Spawns, Queue, Go, Stages
    <3> QED
      BY <1>1, <3>1, ModelsTypes
  <2>4. request' \in [Callers -> Request]
    <3>1. \A r \in rest[c] : Ask("spawn", r.task, r.on, r.text) \in Request
      BY <1>1, RowsAsked DEF Programs, Program
    <3> QED
      BY <1>1, <3>1, ModelsTypes DEF SpawnNext, Spawns, Asks
  <2>5. rest' \in [Callers -> SUBSET Row] /\ unspawned' \subseteq Tasks
    <3>1. \A r : rest[c] \ {r} \in SUBSET Row
      BY <1>1, ModelsTypes
    <3> QED
      <4>1. CASE rest[c] = {}
        BY <4>1, ModelsTypes DEF SpawnNext, ModelsTyped, TypeOK
      <4>2. CASE rest[c] # {}
        <5>1. PICK r : rest' = [rest EXCEPT ![c] = rest[c] \ {r}]
          BY <4>2 DEF SpawnNext
        <5>2. rest' \in [Callers -> SUBSET Row]
          BY <1>1, <3>1, <5>1, ModelsTypes
        <5> QED
          BY <5>2 DEF SpawnNext, ModelsTyped, TypeOK
      <4> QED
        BY <4>1, <4>2
  <2>6. does' \in [Callers -> Called]
    BY <1>1, ModelsTypes, IdsDiffer
       DEF SpawnNext, Go, Calling, rows, Spawns, Asks, Ask, Queue, Called, Operations, Bodies,
           Present
  <2>7. starts' \subseteq Models \X Bodies
    BY DEF SpawnNext, Go, Calling, rows, Spawns, Asks, Ask, Queue, ModelsTyped, TypeOK, Present
  <2> QED
    BY <2>1, <2>2, <2>3, <2>4, <2>5, <2>6, <2>7, CallTyped
<1>3. Program(c)'
  <2>1. /\ stage[c] = "next" /\ does' = does
        /\ \/ stage'[c] = "done" /\ rest'[c] = {}
           \/ \E r \in rest[c] : /\ stage'[c] = "ask" /\ rest'[c] = rest[c] \ {r}
                                /\ request'[c] = Ask("spawn", r.task, r.on, r.text)
    BY <1>1, ModelsTypes DEF SpawnNext, Go, Calling, Spawns, Asks, Queue
  <2>2. does[c].op \in Looping
    BY <1>1, <2>1, OperationAt
  <2>3. rest[c] \subseteq [task : Tasks, on : Models \cup {Default}, text : Nat]
    BY <1>1 DEF Programs, Program
  <2>4. CASE stage'[c] = "done" /\ rest'[c] = {}
    BY <1>1, <2>1, <2>2, <2>4, ProgramGoes
  <2>5. ASSUME NEW r \in rest[c], stage'[c] = "ask", rest'[c] = rest[c] \ {r},
               request'[c] = Ask("spawn", r.task, r.on, r.text)
        PROVE  Program(c)'
    <3>1. /\ request'[c].kind = "spawn" /\ request'[c].task \in Tasks
          /\ request'[c].on \in Models \cup {Default}
      BY <2>3, <2>5 DEF Ask
    <3> QED
      BY <1>1, <2>1, <2>2, <2>5, <3>1, ProgramGoes DEF AskedBy, Asking, Looping, OfTasks
  <2> QED
    BY <2>1, <2>4, <2>5
<1>4. Programs'
  BY <1>1, <1>3, ProgramsOf, ModelsTypes
     DEF SpawnNext, Go, Calling, rows, Spawns, Asks, Ask, Queue
<1>5. Mail'
  BY <1>1, MailKept, ModelsTypes
     DEF SpawnNext, Go, Calling, rows, Spawns, Asks, Ask, Queue, Holds
<1> QED
  BY <1>2, <1>4, <1>5

LEMMA FetchTyped ==
    ASSUME ModelsTyped, Programs, Mail, NEW c \in Callers, Fetch(c)
    PROVE  ModelsTyped' /\ Programs' /\ Mail'
<1>1. c \in Callers
  BY DEF Callers
<1>2. ModelsTyped'
  <2>1. UNCHANGED <<models, default, tasks, texts, loaded, threads,
                    channel>> /\ overlapped' \in BOOLEAN
    BY DEF Fetch, Go, Calling, rows, Spawns, Asks, Ask, Queue, ModelsTyped
  <2>2. lock' \in Seq(Callers)
    BY <1>1, ModelsTypes, LockMoved
       DEF Fetch, Go, Calling, rows, Spawns, Asks, Ask, Queue, Holds
  <2>3. stage' \in [Callers -> Stages]
    <3>1. stage' = stage \/ \E s \in Stages : stage' = [stage EXCEPT ![c] = s]
      BY DEF Fetch, Spawns, Queue, Go, Stages
    <3> QED
      BY <1>1, <3>1, ModelsTypes
  <2>4. request' \in [Callers -> Request]
    <3> DEFINE t == request[c].task
    <3>1. t \in Stored => Ask("spawn", tasks[t].task, tasks[t].on, tasks[t].text) \in Request
      BY RowsAsked
    <3> QED
      BY <1>1, <3>1, ModelsTypes DEF Fetch, Spawns, Asks
  <2>5. rest' \in [Callers -> SUBSET Row] /\ unspawned' \subseteq Tasks
    BY <1>1, ModelsTypes, RowsAsked
       DEF Fetch, Go, Calling, rows, Spawns, Asks, Ask, Queue, ModelsTyped, TypeOK, Row, Stored
  <2>6. does' \in [Callers -> Called]
    BY <1>1, ModelsTypes, IdsDiffer
       DEF Fetch, Go, Calling, rows, Spawns, Asks, Ask, Queue, Called, Operations, Bodies,
           Present
  <2>7. starts' \subseteq Models \X Bodies
    BY DEF Fetch, Go, Calling, rows, Spawns, Asks, Ask, Queue, ModelsTyped, TypeOK, Present
  <2> QED
    BY <2>1, <2>2, <2>3, <2>4, <2>5, <2>6, <2>7, CallTyped
<1>3. Program(c)'
  <2>1. /\ stage'[c] = "done" \/ (stage'[c] = "ask" /\ request'[c].kind = "spawn"
                                  /\ request'[c].task = does[c].task /\ does[c].task \in Tasks
                                  /\ request'[c].on \in Models \cup {Default})
        /\ stage[c] = "fetch" /\ does'[c].op = does[c].op /\ does'[c].model = does[c].model
        /\ does'[c].task = does[c].task
    BY <1>1, ModelsTypes, RowsAsked
       DEF Fetch, Go, Calling, rows, Spawns, Asks, Ask, Queue, Called, Programs, Program, Stored
  <2>2. does[c].op = "updateTask"
    BY <1>1, <2>1, OperationAt
  <2>3. rest[c] = {} /\ rest'[c] = {}
    BY <1>1, <2>1 DEF Fetch, Programs, Program, About, Asking, rows, Calling
  <2> QED
    BY <1>1, <2>1, <2>2, <2>3, ProgramGoes DEF AskedBy, OfTasks
<1>4. Programs'
  BY <1>1, <1>3, ProgramsOf, ModelsTypes DEF Fetch, Go, Calling, rows, Spawns, Asks, Ask, Queue
<1>5. Mail'
  BY <1>1, MailKept, ModelsTypes DEF Fetch, Go, Calling, rows, Spawns, Asks, Ask, Queue, Holds
<1> QED
  BY <1>2, <1>4, <1>5

LEMMA EraseTyped ==
    ASSUME ModelsTyped, Programs, Mail, NEW c \in Callers, Erase(c)
    PROVE  ModelsTyped' /\ Programs' /\ Mail'
<1>1. c \in Callers
  BY DEF Callers
<1>2. ModelsTyped'
  <2>1. /\ UNCHANGED <<default, texts, loaded, threads, channel, lock, does, request, rest,
                       starts, unspawned, overlapped>>
        /\ stage[c] = "erase"
    BY DEF Erase, Calling
  <2>2. stage' \in [Callers -> Stages]
    BY <1>1, ModelsTypes DEF Erase, Go, Stages
  <2>3. CASE does[c].op = "removeModel"
    <3>1. /\ tasks' = tasks /\ does[c].model \in Models
          /\ models' = [models EXCEPT ![does[c].model] = "gone"]
      BY <1>1, <2>3 DEF Erase, Programs, Program, OfModels
    <3>2. models' \in [Models -> Bodies \cup {"none", "gone"}] /\ Known \subseteq Known'
      BY <3>1 DEF ModelsTyped, TypeOK, Known
    <3> QED
      BY <2>1, <2>2, <3>1, <3>2 DEF ModelsTyped, TypeOK
  <2>4. CASE does[c].op # "removeModel"
    <3>1. /\ models' = models /\ does[c].task \in Tasks
          /\ tasks' = [tasks EXCEPT ![does[c].task].on = "gone"]
      BY <1>1, <2>1, <2>4, OperationAt DEF Erase, Programs, Program, OfTasks
    <3>2. /\ tasks' \in [Tasks -> Row]
          /\ \A t \in Tasks : tasks'[t].task = t /\ tasks'[t].on \in Known \cup {Default, "none", "gone"}
      <4>1. /\ tasks \in [Tasks -> Row]
            /\ \A t \in Tasks : tasks[t].task = t /\ tasks[t].on \in Known \cup {Default, "none", "gone"}
        BY DEF ModelsTyped, TypeOK
      <4>2. \A r \in Row : /\ [r EXCEPT !.on = "gone"] \in Row /\ [r EXCEPT !.on = "gone"].on = "gone"
                           /\ [r EXCEPT !.on = "gone"].task = r.task
        BY DEF Row
      <4> QED
        BY <3>1, <4>1, <4>2
    <3> QED
      BY <2>1, <2>2, <3>1, <3>2 DEF ModelsTyped, TypeOK, Known
  <2> QED
    BY <2>3, <2>4
<1>3. Program(c)'
  BY <1>1, IdsDiffer, ModelsTypes
     DEF Programs, Program, About, Asking, AskedBy, StagesOf, OfModels, OfTasks, Looping, Erase,
         Go, Calling, ModelsTyped, TypeOK, Operations, Stages, Called, Row, Request, Stored,
         Known, Present, Bodies, Callers
<1>4. Programs'
  BY <1>1, <1>3, ProgramsOf, ModelsTypes DEF Erase, Go, Calling
<1>5. Mail'
  BY <1>1, MailKept, ModelsTypes DEF Erase, Go, Calling, Holds
<1> QED
  BY <1>2, <1>4, <1>5

LEMMA ReadModelsTyped ==
    ASSUME ModelsTyped, Programs, Mail, ReadModels
    PROVE  ModelsTyped' /\ Programs' /\ Mail'
<1>1. Loader \in Callers
  BY DEF Callers
<1>2. ModelsTyped'
  BY <1>1, IdsDiffer, ModelsTypes, LockMoved
     DEF ModelsTyped, TypeOK, ReadModels, Go, rows, Stages, Operations, Bodies, Request, Row,
         Called, Known, Present, Stored, Callers
<1>3. Program(Loader)'
  <2>1. /\ stage'[Loader] = "init"
        /\ stage[Loader] = "read"
      /\ does'[Loader].op = does[Loader].op /\ does'[Loader].model = does[Loader].model
        /\ does'[Loader].task = does[Loader].task
    BY <1>1, ModelsTypes DEF ReadModels, Go, rows, Called
  <2>2. does[Loader].op = "load"
    BY <1>1, <2>1, OperationAt
  <2>3. rest[Loader] = {} /\ rest'[Loader] = {}
    BY <1>1, <2>1 DEF ReadModels, Programs, Program, About, Asking, rows, Calling
  <2> QED
    BY <1>1, <2>1, <2>2, <2>3, ProgramGoes DEF StagesOf
<1>4. Programs'
  BY <1>1, <1>3, ProgramsOf, ModelsTypes DEF ReadModels, Go, rows
<1>5. Mail'
  BY <1>1, MailKept, ModelsTypes DEF ReadModels, Go, rows, Holds
<1> QED
  BY <1>2, <1>4, <1>5

LEMMA InitModelTyped ==
    ASSUME ModelsTyped, Programs, Mail, NEW m \in Models, NEW b \in Bodies, InitModel(m, b)
    PROVE  ModelsTyped' /\ Programs' /\ Mail'
<1>1. Loader \in Callers
  BY DEF Callers
<1>2. ModelsTyped'
  <2>1. UNCHANGED <<models, default, tasks, texts, loaded, threads,
                    channel>> /\ overlapped' \in BOOLEAN
    BY DEF InitModel, Go, rows, Asks, Ask, Queue, ModelsTyped
  <2>2. lock' \in Seq(Callers)
    BY <1>1, ModelsTypes, LockMoved DEF InitModel, Go, rows, Asks, Ask, Queue, Holds
  <2>3. stage' \in [Callers -> Stages]
    <3>1. stage' = stage \/ \E s \in Stages : stage' = [stage EXCEPT ![Loader] = s]
      BY DEF InitModel, Queue, Go, Stages
    <3> QED
      BY <1>1, <3>1, ModelsTypes
  <2>4. request' \in [Callers -> Request]
    BY <1>1, ModelsTypes, RowsAsked DEF InitModel, Go, rows, Asks, Ask, Queue, Programs, Program
  <2>5. rest' \in [Callers -> SUBSET Row] /\ unspawned' \subseteq Tasks
    BY <1>1, ModelsTypes, RowsAsked
       DEF InitModel, Go, rows, Asks, Ask, Queue, ModelsTyped, TypeOK, Row, Stored
  <2>6. does' \in [Callers -> Called]
    BY <1>1, ModelsTypes, IdsDiffer
       DEF InitModel, Go, rows, Asks, Ask, Queue, Called, Operations, Bodies, Present
  <2>7. starts' \subseteq Models \X Bodies
    BY DEF InitModel, Go, rows, Asks, Ask, Queue, ModelsTyped, TypeOK, Present
  <2> QED
    BY <2>1, <2>2, <2>3, <2>4, <2>5, <2>6, <2>7, CallTyped
<1>3. Program(Loader)'
  <2>1. /\ stage'[Loader] = "init" \/ (stage'[Loader] = "insert" /\ request'[Loader].on = m)
        /\ stage[Loader] = "init"
      /\ does'[Loader].op = does[Loader].op /\ does'[Loader].model = does[Loader].model
        /\ does'[Loader].task = does[Loader].task
    BY <1>1, ModelsTypes DEF InitModel, Go, rows, Asks, Ask, Queue, Called
  <2>2. does[Loader].op = "load"
    BY <1>1, <2>1, OperationAt
  <2>3. rest[Loader] = {} /\ rest'[Loader] = {}
    BY <1>1, <2>1 DEF InitModel, Programs, Program, About, Asking, rows, Calling
  <2> QED
    BY <1>1, <2>1, <2>2, <2>3, ProgramGoes DEF StagesOf
<1>4. Programs'
  BY <1>1, <1>3, ProgramsOf, ModelsTypes DEF InitModel, Go, rows, Asks, Ask, Queue
<1>5. Mail'
  BY <1>1, MailKept, ModelsTypes DEF InitModel, Go, rows, Asks, Ask, Queue, Holds
<1> QED
  BY <1>2, <1>4, <1>5

LEMMA InitialisedTyped ==
    ASSUME ModelsTyped, Programs, Mail, Initialised
    PROVE  ModelsTyped' /\ Programs' /\ Mail'
<1>1. Loader \in Callers
  BY DEF Callers
<1>2. ModelsTyped'
  BY <1>1, IdsDiffer, ModelsTypes, LockMoved
     DEF ModelsTyped, TypeOK, Initialised, Go, Calling, rows, Stages, Operations, Bodies,
         Request, Row, Called, Known, Present, Stored, Callers
<1>3. Program(Loader)'
  <2>1. /\ stage'[Loader] = "list"
        /\ stage[Loader] = "init"
      /\ does'[Loader].op = does[Loader].op /\ does'[Loader].model = does[Loader].model
        /\ does'[Loader].task = does[Loader].task
    BY <1>1, ModelsTypes DEF Initialised, Go, Calling, rows, Called
  <2>2. does[Loader].op = "load"
    BY <1>1, <2>1, OperationAt
  <2>3. rest[Loader] = {} /\ rest'[Loader] = {}
    BY <1>1, <2>1 DEF Initialised, Programs, Program, About, Asking, rows, Calling
  <2> QED
    BY <1>1, <2>1, <2>2, <2>3, ProgramGoes DEF StagesOf
<1>4. Programs'
  BY <1>1, <1>3, ProgramsOf, ModelsTypes DEF Initialised, Go, Calling, rows
<1>5. Mail'
  BY <1>1, MailKept, ModelsTypes DEF Initialised, Go, Calling, rows, Holds
<1> QED
  BY <1>2, <1>4, <1>5

-----------------------------------------------------------------------------
(* The threads' steps: one thread changes, and with it, if it had mail,    *)
(* the stage of the call whose mail it was.                                *)
LEMMA MailIs ==
    ASSUME ModelsTyped, Mail, NEW i \in DOMAIN threads, threads[i].inbox # <<>>
    PROVE  /\ lock # <<>> /\ Head(lock) \in Callers /\ stage[Head(lock)] = "await"
           /\ threads[i].phase \in Alive
           /\ Len(threads[i].inbox) = 1 /\ Tail(threads[i].inbox) = <<>>
           /\ threads[i].inbox[1] = [from |-> Head(lock), ask |-> request[Head(lock)]]
           /\ Head(threads[i].inbox) = [from |-> Head(lock), ask |-> request[Head(lock)]]
           /\ \A j \in DOMAIN threads \ {i} : threads[j].inbox = <<>>
<1>1. /\ lock # <<>> /\ stage[Head(lock)] = "await" /\ threads[i].phase \in Alive
      /\ threads[i].inbox = <<[from |-> Head(lock), ask |-> request[Head(lock)]]>>
      /\ \A j \in DOMAIN threads \ {i} : threads[j].inbox = <<>>
  BY DEF Mail
<1>2. Head(lock) \in Callers
  BY <1>1, ModelsTypes, LockMoved
<1>3. \A k : Len(<<k>>) = 1 /\ Tail(<<k>>) = <<>> /\ <<k>>[1] = k /\ Head(<<k>>) = k
  OBVIOUS
<1> QED
  BY <1>1, <1>2, <1>3

LEMMA Told ==
    ASSUME ModelsTyped, Mail, NEW i \in DOMAIN threads
    PROVE  /\ BuildFailed(i) =>
                 stage' = IF threads[i].inbox = <<>> THEN stage
                          ELSE [stage EXCEPT ![Head(lock)] = "err"]
           /\ SpawnTask(i) \/ RemoveTask(i) \/ Shutdown(i) =>
                 /\ threads[i].inbox # <<>>
                 /\ stage' = [stage EXCEPT ![Head(lock)] = "ok"]
           /\ AnswerPrompt(i) =>
                 /\ threads[i].inbox # <<>>
                 /\ \/ stage' = [stage EXCEPT ![Head(lock)] = "ok"]
                    \/ stage' = [stage EXCEPT ![Head(lock)] = "err"]
<1>1. stage \in [Callers -> Stages] /\ Len(<<>>) = 0
  BY ModelsTypes
<1>2. CASE threads[i].inbox = <<>>
  <2>1. ~(SpawnTask(i) \/ RemoveTask(i) \/ Shutdown(i) \/ AnswerPrompt(i))
    BY <1>2 DEF SpawnTask, RemoveTask, Shutdown, AnswerPrompt, First
  <2>2. BuildFailed(i) => stage' = stage
    <3>1. BuildFailed(i) => stage' = [c \in Callers |-> stage[c]]
      BY <1>1, <1>2 DEF BuildFailed, Dropped
    <3> QED
      BY <1>1, <3>1
  <2> QED
    BY <1>2, <2>1, <2>2
<1>3. CASE threads[i].inbox # <<>>
  <2> DEFINE from == Head(lock)
  <2>1. /\ Len(threads[i].inbox) = 1 /\ threads[i].inbox[1].from = from
        /\ Head(threads[i].inbox).from = from
    BY <1>3, MailIs
  <2>2. BuildFailed(i) => stage' = [stage EXCEPT ![from] = "err"]
    <3>1. BuildFailed(i) => stage' = [c \in Callers |-> IF c = from THEN "err" ELSE stage[c]]
      BY <2>1 DEF BuildFailed, Dropped
    <3> QED
      BY <1>1, <3>1
  <2>3. Shutdown(i) => stage' = [stage EXCEPT ![from] = "ok"]
    <3>1. Shutdown(i) => stage' = [c \in Callers |-> IF c = from THEN "ok" ELSE stage[c]]
      BY <2>1 DEF Shutdown
    <3> QED
      BY <1>1, <3>1
  <2> QED
    BY <1>3, <2>1, <2>2, <2>3 DEF SpawnTask, RemoveTask, AnswerPrompt, Answers, Go
<1> QED
  BY <1>2, <1>3

(* What the thread that changes becomes.                                   *)
Becomes(i, x) ==
    /\ x \in Thread /\ x.model = threads[i].model /\ x.by = threads[i].by
    /\ threads' = [threads EXCEPT ![i] = x] /\ Threading
    /\ loaded' \in [Models -> BOOLEAN] /\ unspawned' \subseteq unspawned
    /\ \A m \in Models \ {x.model} : loaded'[m] = loaded[m]
    /\ \/ /\ stage' = stage /\ x.inbox = threads[i].inbox
          /\ x.phase \in Alive \/ x.inbox = <<>>
       \/ /\ threads[i].inbox # <<>> /\ x.inbox = <<>>
          /\ \E s \in {"ok", "err"} : stage' = [stage EXCEPT ![Head(lock)] = s]

LEMMA ThreadTyped ==
    ASSUME ModelsTyped, Programs, Mail, NEW i \in DOMAIN threads, NEW x, Becomes(i, x)
    PROVE  ModelsTyped' /\ Programs' /\ Mail'
<1>1. stage' \in [Callers -> Stages]
      /\ \A d \in Callers : stage'[d] = stage[d] \/ (stage[d] = "await" /\ stage'[d] \in {"ok", "err"})
  <2>1. CASE stage' = stage
    BY <2>1, ModelsTypes
  <2>2. CASE threads[i].inbox # <<>> /\ \E s \in {"ok", "err"} : stage' = [stage EXCEPT ![Head(lock)] = s]
    <3>1. PICK s \in {"ok", "err"} : stage' = [stage EXCEPT ![Head(lock)] = s]
      BY <2>2
    <3>2. Head(lock) \in Callers /\ stage[Head(lock)] = "await" /\ s \in Stages
      BY <2>2, MailIs DEF Stages
    <3> QED
      BY <3>1, <3>2, ModelsTypes
  <2> QED
    BY <2>1, <2>2 DEF Becomes
<1>2. /\ threads' \in Seq(Thread) /\ Len(threads') = Len(threads) /\ DOMAIN threads' = DOMAIN threads
      /\ \A j \in DOMAIN threads : threads'[j] = IF j = i THEN x ELSE threads[j]
  BY ModelsTypes, ThreadChanged DEF Becomes
<1>3. \A m \in Models : channel[m] # 0 => threads'[channel[m]].model = m
  BY <1>2, ModelsTypes DEF Becomes
<1>4. ModelsTyped'
  BY <1>1, <1>2, <1>3 DEF Becomes, Threading, rows, ModelsTyped, TypeOK, Known
<1>5. Programs'
  BY <1>1 DEF Programs, Program, About, Asking, Becomes, Threading
<1>6. Mail'
  <2>1. CASE stage' = stage /\ x.inbox = threads[i].inbox
    BY <1>2, <2>1 DEF Mail, Becomes, Threading
  <2>2. CASE threads[i].inbox # <<>> /\ x.inbox = <<>>
    <3>1. \A j \in DOMAIN threads' : threads'[j].inbox = <<>>
      BY <1>2, <2>2, MailIs
    <3> QED
      BY <3>1 DEF Mail
  <2> QED
    BY <2>1, <2>2 DEF Becomes
<1> QED
  BY <1>4, <1>5, <1>6

(* A thread with other values in some of its fields.                       *)
LEMMA ThreadFields ==
    ASSUME NEW x \in Thread
    PROVE  /\ x.inbox \in Seq([from : Callers, ask : Request]) /\ x.model \in Models
           /\ \A p \in {"spawned", "building", "ready", "failed", "over"}, b \in BOOLEAN,
                 ts \in [Tasks -> Nat] :
                 \A box \in {x.inbox, <<>>} :
                     [x EXCEPT !.phase = p, !.late = b, !.tasks = ts, !.inbox = box] \in Thread
BY EmptyInbox DEF Thread

(* Each of the steps, as the change of its thread.                         *)
LEMMA BeginBecomes ==
    ASSUME ModelsTyped, Mail, NEW i \in DOMAIN threads, Begin(i)
    PROVE  Becomes(i, [threads[i] EXCEPT !.phase = "building"])
<1> DEFINE x == [threads[i] EXCEPT !.phase = "building"]
<1>1. threads[i] \in Thread /\ loaded \in [Models -> BOOLEAN]
  BY ModelsTypes
<1>2. x \in Thread /\ x.model = threads[i].model /\ x.by = threads[i].by
  BY <1>1, EmptyInbox DEF Thread
<1>3. x.inbox = threads[i].inbox /\ (x.phase \in Alive \/ x.inbox = <<>>)
  BY <1>1, MailIs DEF Begin, Alive, Thread
<1>4. threads' = [threads EXCEPT ![i] = x]
  BY <1>1 DEF Begin, Phase, Thread
<1>9. /\ loaded' \in [Models -> BOOLEAN] /\ unspawned' \subseteq unspawned
      /\ \A m \in Models \ {x.model} : loaded'[m] = loaded[m]
  BY <1>1, <1>2 DEF Begin, Publish
<1>10. stage' = stage
  BY Told DEF Begin
<1>11. Threading
  BY DEF Begin
<1> QED
  BY <1>9, <1>10, <1>11, <1>2, <1>3, <1>4 DEF Becomes

LEMMA BuiltBecomes ==
    ASSUME ModelsTyped, Mail, NEW i \in DOMAIN threads, NEW late \in BOOLEAN, Built(i, late)
    PROVE  Becomes(i, [threads[i] EXCEPT !.phase = "ready", !.late = late])
<1> DEFINE x == [threads[i] EXCEPT !.phase = "ready", !.late = late]
<1>1. threads[i] \in Thread /\ loaded \in [Models -> BOOLEAN]
  BY ModelsTypes
<1>2. x \in Thread /\ x.model = threads[i].model /\ x.by = threads[i].by
  BY <1>1, EmptyInbox DEF Thread
<1>3. x.inbox = threads[i].inbox /\ (x.phase \in Alive \/ x.inbox = <<>>)
  BY <1>1, MailIs DEF Built, Alive, Thread
<1>4. threads' = [threads EXCEPT ![i] = x]
  BY <1>1 DEF Built, Phase, Thread
<1>9. /\ loaded' \in [Models -> BOOLEAN] /\ unspawned' \subseteq unspawned
      /\ \A m \in Models \ {x.model} : loaded'[m] = loaded[m]
  BY <1>1, <1>2 DEF Built, Publish
<1>10. stage' = stage
  BY Told DEF Built
<1>11. Threading
  BY DEF Built
<1> QED
  BY <1>9, <1>10, <1>11, <1>2, <1>3, <1>4 DEF Becomes

LEMMA LateBecomes ==
    ASSUME ModelsTyped, Mail, NEW i \in DOMAIN threads, Late(i)
    PROVE  Becomes(i, [threads[i] EXCEPT !.late = FALSE])
<1> DEFINE x == [threads[i] EXCEPT !.late = FALSE]
<1>1. threads[i] \in Thread /\ loaded \in [Models -> BOOLEAN]
  BY ModelsTypes
<1>2. x \in Thread /\ x.model = threads[i].model /\ x.by = threads[i].by
  BY <1>1, EmptyInbox DEF Thread
<1>3. x.inbox = threads[i].inbox /\ (x.phase \in Alive \/ x.inbox = <<>>)
  BY <1>1, MailIs DEF Late, Alive, Thread
<1>4. threads' = [threads EXCEPT ![i] = x]
  BY <1>1 DEF Late, Phase, Thread
<1>9. /\ loaded' \in [Models -> BOOLEAN] /\ unspawned' \subseteq unspawned
      /\ \A m \in Models \ {x.model} : loaded'[m] = loaded[m]
  BY <1>1, <1>2 DEF Late, Publish
<1>10. stage' = stage
  BY Told DEF Late
<1>11. Threading
  BY DEF Late
<1> QED
  BY <1>9, <1>10, <1>11, <1>2, <1>3, <1>4 DEF Becomes

LEMMA ClosedBecomes ==
    ASSUME ModelsTyped, Mail, NEW i \in DOMAIN threads, Closed(i)
    PROVE  Becomes(i, [threads[i] EXCEPT !.phase = "over", !.late = FALSE])
<1> DEFINE x == [threads[i] EXCEPT !.phase = "over", !.late = FALSE]
<1>1. threads[i] \in Thread /\ loaded \in [Models -> BOOLEAN]
  BY ModelsTypes
<1>2. x \in Thread /\ x.model = threads[i].model /\ x.by = threads[i].by
  BY <1>1, EmptyInbox DEF Thread
<1>3. x.inbox = threads[i].inbox /\ (x.phase \in Alive \/ x.inbox = <<>>)
  BY <1>1, MailIs DEF Closed, Alive, Thread
<1>4. threads' = [threads EXCEPT ![i] = x]
  BY <1>1 DEF Closed, Phase, Thread
<1>9. /\ loaded' \in [Models -> BOOLEAN] /\ unspawned' \subseteq unspawned
      /\ \A m \in Models \ {x.model} : loaded'[m] = loaded[m]
  BY <1>1, <1>2 DEF Closed, Publish
<1>10. stage' = stage
  BY Told DEF Closed
<1>11. Threading
  BY DEF Closed
<1> QED
  BY <1>9, <1>10, <1>11, <1>2, <1>3, <1>4 DEF Becomes

LEMMA BuildFailedBecomes ==
    ASSUME ModelsTyped, Mail, NEW i \in DOMAIN threads, BuildFailed(i)
    PROVE  Becomes(i, [threads[i] EXCEPT !.phase = "failed", !.inbox = <<>>])
<1> DEFINE x == [threads[i] EXCEPT !.phase = "failed", !.inbox = <<>>]
<1>1. threads[i] \in Thread /\ loaded \in [Models -> BOOLEAN]
  BY ModelsTypes
<1>2. x \in Thread /\ x.model = threads[i].model /\ x.by = threads[i].by
  BY <1>1, EmptyInbox DEF Thread
<1>3. x.inbox = <<>>
  BY <1>1 DEF Thread
<1>4. threads' = [threads EXCEPT ![i] = x]
  BY <1>1 DEF BuildFailed, Phase, Thread
<1>9. /\ loaded' \in [Models -> BOOLEAN] /\ unspawned' \subseteq unspawned
      /\ \A m \in Models \ {x.model} : loaded'[m] = loaded[m]
  BY <1>1, <1>2 DEF BuildFailed, Publish
<1>10. \/ stage' = stage /\ threads[i].inbox = <<>>
       \/ threads[i].inbox # <<>> /\ \E s \in {"ok", "err"} : stage' = [stage EXCEPT ![Head(lock)] = s]
  BY Told DEF BuildFailed
<1>11. Threading
  BY DEF BuildFailed
<1> QED
  BY <1>9, <1>10, <1>11, <1>2, <1>3, <1>4 DEF Becomes

LEMMA SpawnTaskBecomes ==
    ASSUME ModelsTyped, Mail, NEW i \in DOMAIN threads, SpawnTask(i)
    PROVE  Becomes(i, [threads[i] EXCEPT !.inbox = <<>>,
                                !.tasks[request[Head(lock)].task] = request[Head(lock)].text])
<1> DEFINE x == [threads[i] EXCEPT !.inbox = <<>>,
                                !.tasks[request[Head(lock)].task] = request[Head(lock)].text]
<1>1. threads[i] \in Thread /\ loaded \in [Models -> BOOLEAN]
  BY ModelsTypes
<1>2. /\ threads[i].inbox # <<>> /\ Tail(threads[i].inbox) = <<>> /\ Head(lock) \in Callers
      /\ Head(threads[i].inbox).ask = request[Head(lock)]
  BY MailIs DEF SpawnTask, First
<1>3. request[Head(lock)] \in Request
  BY <1>2, ModelsTypes
<1> DEFINE ts == [threads[i].tasks EXCEPT ![request[Head(lock)].task] = request[Head(lock)].text]
<1>4. ts \in [Tasks -> Nat]
  BY <1>1, <1>3 DEF Thread, Request
<1>5. x = [threads[i] EXCEPT !.inbox = <<>>, !.tasks = ts]
  BY <1>1 DEF Thread
<1>6. \A u \in Thread, w \in [Tasks -> Nat] :
         /\ [u EXCEPT !.inbox = <<>>, !.tasks = w] \in Thread
         /\ [u EXCEPT !.inbox = <<>>, !.tasks = w].model = u.model
         /\ [u EXCEPT !.inbox = <<>>, !.tasks = w].by = u.by
         /\ [u EXCEPT !.inbox = <<>>, !.tasks = w].inbox = <<>>
  BY EmptyInbox DEF Thread
<1> HIDE DEF ts, x
<1>7. x \in Thread /\ x.model = threads[i].model /\ x.by = threads[i].by /\ x.inbox = <<>>
  BY <1>1, <1>4, <1>5, <1>6
<1>8. threads' = [threads EXCEPT ![i] = x]
  BY <1>1, <1>2, EmptyInbox DEF x, ts, SpawnTask, Served, Thread
<1>9. /\ loaded' \in [Models -> BOOLEAN] /\ unspawned' \subseteq unspawned
      /\ \A m \in Models \ {x.model} : loaded'[m] = loaded[m]
  BY <1>1, <1>7 DEF SpawnTask, Publish
<1>10. threads[i].inbox # <<>> /\ \E s \in {"ok", "err"} : stage' = [stage EXCEPT ![Head(lock)] = s]
  BY Told DEF SpawnTask
<1>11. Threading
  BY DEF SpawnTask
<1> QED
  BY <1>9, <1>10, <1>11, <1>2, <1>7, <1>8 DEF Becomes, x

LEMMA RemoveTaskBecomes ==
    ASSUME ModelsTyped, Mail, NEW i \in DOMAIN threads, RemoveTask(i)
    PROVE  Becomes(i, [threads[i] EXCEPT !.inbox = <<>>, !.tasks[request[Head(lock)].task] = 0])
<1> DEFINE x == [threads[i] EXCEPT !.inbox = <<>>, !.tasks[request[Head(lock)].task] = 0]
<1>1. threads[i] \in Thread /\ loaded \in [Models -> BOOLEAN]
  BY ModelsTypes
<1>2. /\ threads[i].inbox # <<>> /\ Tail(threads[i].inbox) = <<>> /\ Head(lock) \in Callers
      /\ Head(threads[i].inbox).ask = request[Head(lock)]
  BY MailIs DEF RemoveTask, First
<1>3. request[Head(lock)] \in Request
  BY <1>2, ModelsTypes
<1> DEFINE ts == [threads[i].tasks EXCEPT ![request[Head(lock)].task] = 0]
<1>4. ts \in [Tasks -> Nat]
  BY <1>1, <1>3 DEF Thread, Request
<1>5. x = [threads[i] EXCEPT !.inbox = <<>>, !.tasks = ts]
  BY <1>1 DEF Thread
<1>6. \A u \in Thread, w \in [Tasks -> Nat] :
         /\ [u EXCEPT !.inbox = <<>>, !.tasks = w] \in Thread
         /\ [u EXCEPT !.inbox = <<>>, !.tasks = w].model = u.model
         /\ [u EXCEPT !.inbox = <<>>, !.tasks = w].by = u.by
         /\ [u EXCEPT !.inbox = <<>>, !.tasks = w].inbox = <<>>
  BY EmptyInbox DEF Thread
<1> HIDE DEF ts, x
<1>7. x \in Thread /\ x.model = threads[i].model /\ x.by = threads[i].by /\ x.inbox = <<>>
  BY <1>1, <1>4, <1>5, <1>6
<1>8. threads' = [threads EXCEPT ![i] = x]
  BY <1>1, <1>2, EmptyInbox DEF x, ts, RemoveTask, Served, Thread
<1>9. /\ loaded' \in [Models -> BOOLEAN] /\ unspawned' \subseteq unspawned
      /\ \A m \in Models \ {x.model} : loaded'[m] = loaded[m]
  BY <1>1, <1>7 DEF RemoveTask, Publish
<1>10. threads[i].inbox # <<>> /\ \E s \in {"ok", "err"} : stage' = [stage EXCEPT ![Head(lock)] = s]
  BY Told DEF RemoveTask
<1>11. Threading
  BY DEF RemoveTask
<1> QED
  BY <1>9, <1>10, <1>11, <1>2, <1>7, <1>8 DEF Becomes, x

LEMMA AnswerPromptBecomes ==
    ASSUME ModelsTyped, Mail, NEW i \in DOMAIN threads, AnswerPrompt(i)
    PROVE  Becomes(i, [threads[i] EXCEPT !.inbox = <<>>])
<1> DEFINE x == [threads[i] EXCEPT !.inbox = <<>>]
<1>1. threads[i] \in Thread /\ loaded \in [Models -> BOOLEAN]
  BY ModelsTypes
<1>2. x \in Thread /\ x.model = threads[i].model /\ x.by = threads[i].by
  BY <1>1, EmptyInbox DEF Thread
<1>3. /\ threads[i].inbox # <<>> /\ Tail(threads[i].inbox) = <<>> /\ x.inbox = <<>>
  BY <1>1, MailIs DEF AnswerPrompt, First, Thread
<1>4. threads' = [threads EXCEPT ![i] = x]
  BY <1>1, <1>3 DEF AnswerPrompt, Served, Thread
<1>9. /\ loaded' \in [Models -> BOOLEAN] /\ unspawned' \subseteq unspawned
      /\ \A m \in Models \ {x.model} : loaded'[m] = loaded[m]
  BY <1>1, <1>2 DEF AnswerPrompt, Publish
<1>10. threads[i].inbox # <<>> /\ \E s \in {"ok", "err"} : stage' = [stage EXCEPT ![Head(lock)] = s]
  BY Told DEF AnswerPrompt
<1>11. Threading
  BY DEF AnswerPrompt
<1> QED
  BY <1>9, <1>10, <1>11, <1>2, <1>3, <1>4 DEF Becomes

LEMMA ShutdownBecomes ==
    ASSUME ModelsTyped, Mail, NEW i \in DOMAIN threads, Shutdown(i)
    PROVE  Becomes(i, [threads[i] EXCEPT !.phase = "over", !.inbox = <<>>, !.late = FALSE])
<1> DEFINE x == [threads[i] EXCEPT !.phase = "over", !.inbox = <<>>, !.late = FALSE]
<1>1. threads[i] \in Thread /\ loaded \in [Models -> BOOLEAN]
  BY ModelsTypes
<1>2. x \in Thread /\ x.model = threads[i].model /\ x.by = threads[i].by
  BY <1>1, EmptyInbox DEF Thread
<1>3. /\ threads[i].inbox # <<>> /\ Tail(threads[i].inbox) = <<>> /\ x.inbox = <<>>
  BY <1>1, MailIs DEF Shutdown, First, Thread
<1>4. threads' = [threads EXCEPT ![i] = x]
  BY <1>1, <1>3 DEF Shutdown, Phase, Thread
<1>9. /\ loaded' \in [Models -> BOOLEAN] /\ unspawned' \subseteq unspawned
      /\ \A m \in Models \ {x.model} : loaded'[m] = loaded[m]
  BY <1>1, <1>2 DEF Shutdown, Publish
<1>10. threads[i].inbox # <<>> /\ \E s \in {"ok", "err"} : stage' = [stage EXCEPT ![Head(lock)] = s]
  BY Told DEF Shutdown
<1>11. Threading
  BY DEF Shutdown
<1> QED
  BY <1>9, <1>10, <1>11, <1>2, <1>3, <1>4 DEF Becomes

-----------------------------------------------------------------------------
(* All calls come from the types of their rows.                            *)
LEMMA ModelsBegin ==
    ASSUME Init
    PROVE  ModelsTyped /\ Programs /\ Mail
<1>1. Loader \in Callers /\ Nothing \in Request /\ Loader = "load"
  BY DEF Callers, Nothing, Ask, Request, Loader
<1>2. ModelsTyped
  <2>1. /\ models \in [Models -> Bodies \cup {"none", "gone"}] /\ default \in Known \cup {NoModel}
        /\ loaded \in [Models -> BOOLEAN] /\ texts = 1 /\ threads = <<>> /\ lock = <<>>
        /\ channel = [m \in Models |-> 0] /\ request = [c \in Callers |-> Nothing]
        /\ rest = [c \in Callers |-> {}] /\ starts = {} /\ overlapped = FALSE /\ unspawned = {}
        /\ stage = [c \in Callers |-> IF c = Loader THEN "read" ELSE "idle"]
        /\ does = [c \in Callers |-> [op |-> "load", body |-> "whole", model |-> NoModel,
                                      task |-> "none"]]
    BY DEF Init
  <2>2. /\ tasks \in [Tasks -> Row]
        /\ \A t \in Tasks : tasks[t].task = t /\ tasks[t].on \in Known \cup {Default, "none"}
    BY DEF Init, Row, Known
  <2>3. /\ threads \in Seq(Thread) /\ lock \in Seq(Callers) /\ Len(threads) = 0
        /\ stage \in [Callers -> Stages] /\ does \in [Callers -> Called]
    BY <2>1 DEF Stages, Called, Operations, Bodies
  <2>4. channel \in [Models -> 0 .. Len(threads)] /\ \A m \in Models : channel[m] = 0
    BY <2>1, <2>3
  <2>5. /\ request \in [Callers -> Request] /\ rest \in [Callers -> SUBSET Row]
        /\ starts \subseteq Models \X Bodies /\ unspawned \subseteq Tasks
        /\ default \in Models \cup {NoModel}
    BY <1>1, <2>1 DEF Known
  <2>6. TypeOK
    BY <2>1, <2>2, <2>3, <2>4, <2>5 DEF TypeOK
  <2>7. texts \in Nat \ {0} /\ overlapped \in BOOLEAN
    <3>1. texts = 1
      BY <2>1
    <3>2. overlapped \in BOOLEAN
      BY <2>1 DEF Init
    <3> QED
      BY <3>1, <3>2
  <2> QED
    BY <2>1, <2>2, <2>3, <2>6, <2>7 DEF ModelsTyped
<1>3. Programs
  BY <1>1 DEF Init, Programs, Program, About, Asking, StagesOf, OfModels, OfTasks, Looping
<1>4. Mail
  BY DEF Init, Mail
<1> QED
  BY <1>2, <1>3, <1>4

LEMMA ModelsStep ==
    ASSUME ModelsTyped, Programs, Mail, [Next]_vars
    PROVE  ModelsTyped' /\ Programs' /\ Mail'
<1>1. ASSUME NEW c \in Calls, Begins(c)
      PROVE  ModelsTyped' /\ Programs' /\ Mail'
  BY <1>1, AddModelTyped, UpdateModelTyped, RemoveModelTyped, SetDefaultTyped, AddTaskTyped,
     UpdateTaskTyped, DeleteTaskTyped, PromptTyped DEF Begins
<1>2. ASSUME NEW c \in Callers, CallStep(c)
      PROVE  ModelsTyped' /\ Programs' /\ Mail'
  BY <1>2, SendTyped, NotSentTyped, AnsweredTyped, RefusedTyped, AgainTyped, StartTyped,
     InsertTyped, ReadyTyped, ListTyped, SpawnNextTyped, FetchTyped, EraseTyped DEF CallStep
<1>3. CASE LoadStep
  BY <1>3, ReadModelsTyped, InitialisedTyped, InitModelTyped DEF LoadStep
<1>4. ASSUME NEW i \in DOMAIN threads, ThreadStep(i) \/ Late(i)
      PROVE  ModelsTyped' /\ Programs' /\ Mail'
  <2>1. \E x : Becomes(i, x)
    BY <1>4, BeginBecomes, BuiltBecomes, LateBecomes, ClosedBecomes, BuildFailedBecomes,
       SpawnTaskBecomes, RemoveTaskBecomes, AnswerPromptBecomes, ShutdownBecomes DEF ThreadStep
  <2> QED
    BY <2>1, ThreadTyped
<1>5. CASE UNCHANGED vars
  BY <1>5 DEF vars, ModelsTyped, TypeOK, Known, Programs, Program, About, Mail
<1> QED
  BY <1>1, <1>2, <1>3, <1>4, <1>5 DEF Next

-----------------------------------------------------------------------------
(* Calls that do not write know nothing of the rows.                       *)
Idle(c) ==
    /\ Down(c) /\ TasksRead(c) /\ ModelsRead(c)
    /\ \A m \in Models : ~Changing(c, m)
    /\ \A t \in Tasks : ~Pending(c, t)
    /\ c = Loader => starts = {}

LEMMA NotWriting ==
    ASSUME ModelsTyped, Programs, starts # {} => stage[Loader] \in {"init", "insert"},
           NEW c \in Callers, c \notin Writers
    PROVE  Idle(c)
<1>1. does[c].op = "prompt" \/ stage[c] \in {"idle", "done"}
  BY DEF Writers
<1>2. /\ rest[c] = {} /\ ~About(c, "spawn") /\ ~About(c, "remove") /\ ~About(c, "shutdown")
      /\ stage[c] \notin {"again", "start", "insert", "ready", "list", "next", "fetch", "erase",
                          "read", "init"}
  BY <1>1, OperationAt DEF Programs, Program, About, Asking, Looping
<1>3. stage[c] \in Asking => does[c].op = "prompt"
  BY <1>1 DEF Asking
<1>4. does[c].op \in {"prompt"} \/ stage[c] \in {"idle", "done"}
  BY <1>1
<1>5. ~(stage[c] \in {"ok", "err"} /\ request[c].kind = "shutdown")
  BY <1>2 DEF About, Asking
<1>6. Down(c) /\ TasksRead(c) /\ ModelsRead(c)
  BY <1>2, <1>4, <1>5 DEF Down, TasksRead, ModelsRead
<1>7. c = Loader => starts = {}
  BY <1>2
<1>8. \A m \in Models : ~Changing(c, m)
  BY <1>2, <1>7 DEF Changing
<1>9. \A t \in Tasks : ~Pending(c, t)
  BY <1>2, <1>4 DEF Pending
<1> QED
  BY <1>6, <1>7, <1>8, <1>9 DEF Idle

LEMMA NotWritingLater ==
    ASSUME NEW c \in Callers
    PROVE  (ModelsTyped /\ Programs /\ (starts # {} => stage[Loader] \in {"init", "insert"})
             /\ c \notin Writers)' => Idle(c)'
<1>1. ModelsTyped /\ Programs /\ (starts # {} => stage[Loader] \in {"init", "insert"})
        /\ c \notin Writers => Idle(c)
  BY NotWriting
<1> QED
  BY <1>1, PTL

(* The mail of others is where it was.                                     *)
LEMMA MailStays ==
    ASSUME ModelsTyped, Programs, Mail, MailRight, NEW c \in Callers, stage[c] # "await",
           \A d \in Callers \ {c} : d \notin Writers /\ request'[d] = request[d],
           \/ UNCHANGED channel /\ (lock' = lock \/ lock' = Append(lock, c))
           \/ lock # <<>> /\ Head(lock) = c,
           threads' = threads
    PROVE  MailRight'
<1>1. ASSUME NEW i \in DOMAIN threads, threads[i].inbox # <<>>
      PROVE  Target(Head(lock))' # NoModel /\ i = channel'[Target(Head(lock))']
  <2>0. PICK d \in Callers : d = Head(lock)
    BY <1>1, MailIs
  <2>1. lock # <<>> /\ stage[d] = "await" /\ d # c
    BY <1>1, <2>0, MailIs
  <2>2. UNCHANGED channel /\ Head(lock') = d
    BY <2>0, <2>1, LockMoved, ModelsTypes
  <2>3. does[d].op = "prompt" /\ About(d, request[d].kind)
    BY <2>1 DEF Writers, About, Asking
  <2>4. request[d].kind = "prompt" /\ request'[d] = request[d] /\ request'[d].kind = "prompt"
    BY <2>1, <2>3, OperationAt DEF Looping, About
  <2>5. Target(d) = request[d].on /\ Target(d)' = request[d].on
    BY <2>4 DEF Target
  <2>6. Target(Head(lock))' = Target(d)'
    BY <2>2 DEF Target
  <2> QED
    BY <1>1, <2>0, <2>2, <2>5, <2>6 DEF MailRight
<1> QED
  BY <1>1 DEF MailRight

(* A step of the only call that writes: what it has to show.               *)
LEMMA WriterStep ==
    ASSUME ModelsTyped', Programs', NEW c \in Callers,
           \A d \in Callers \ {c} : /\ d \notin Writers
                                    /\ does'[d] = does[d] /\ stage'[d] = stage[d],
           MailRight', AliveReached', LoadedRight', Loading',
           Down(c)', TasksRead(c)', ModelsRead(c)', \A d \in Callers : StartedBy(d)',
           \A m \in Models : ChannelRight(m)' \/ Changing(c, m)',
           \A t \in (Stored \ unspawned)' : Running(t)' \/ Pending(c, t)'
    PROVE  WritersAlone'
<1>1. \A d \in Callers \ {c} : d \notin Writers'
  BY DEF Writers
<1>2. \A d \in Callers \ {c} : Idle(d)'
  BY <1>1, NotWritingLater DEF Loading
<1>3. OneWriter'
  BY <1>1 DEF OneWriter, Writers
<1>4. CallsAsRead'
  BY <1>2 DEF CallsAsRead, Idle
<1>5. ChannelsRight' /\ TasksSpawned'
  BY DEF ChannelsRight, TasksSpawned
<1> QED
  BY <1>3, <1>4, <1>5 DEF WritersAlone

(* What the only call that writes finds.                                   *)
LEMMA OnlyWriter ==
    ASSUME ModelsTyped, Programs, WritersAlone, NEW c \in Callers,
           \A d \in Callers \ {c} : d \notin Writers
    PROVE  /\ Down(c) /\ TasksRead(c) /\ ModelsRead(c) /\ StartedBy(c)
           /\ \A d \in Callers \ {c} : Idle(d)
           /\ \A m \in Models : ChannelRight(m) \/ Changing(c, m)
           /\ \A t \in Stored \ unspawned : Running(t) \/ Pending(c, t)
           /\ c # Loader => starts = {}
<1>1. \A d \in Callers \ {c} : Idle(d)
  BY NotWriting DEF WritersAlone, Loading
<1>2. c # Loader => starts = {}
  BY <1>1 DEF Idle, Callers
<1>3. \A t \in Stored : t \in Tasks
  BY DEF Stored
<1> QED
  BY <1>1, <1>2, <1>3 DEF Idle, WritersAlone, CallsAsRead, ChannelsRight, TasksSpawned

LEMMA OthersIdle ==
    ASSUME WritersAlone, NEW c \in Writers
    PROVE  c \in Callers /\ \A d \in Callers \ {c} : d \notin Writers
BY DEF WritersAlone, OneWriter, Writers

-----------------------------------------------------------------------------
(* The first step of a call that writes while no other does.               *)
LEMMA CallBegins ==
    ASSUME ModelsTyped, Programs, WritersAlone, NEW c \in Calls, stage[c] = "idle", Quiet
    PROVE  /\ c \in Callers /\ c # Loader /\ \A d \in Callers : d \notin Writers
           /\ rest[c] = {} /\ starts = {} /\ stage[Loader] \notin {"read", "init", "insert"}
           /\ \A i \in DOMAIN threads : threads[i].by # c
           /\ \A m \in Models : ChannelRight(m)
           /\ \A t \in Stored \ unspawned : Running(t)
<1>1. c \in Callers /\ c # Loader /\ \A d \in Callers : d \notin Writers
  BY IdsDiffer DEF Callers, Quiet
<1>2. \A d \in Callers : Idle(d)
  BY <1>1, NotWriting DEF WritersAlone, Loading
<1>3. starts = {} /\ stage[Loader] \notin {"read", "init", "insert"}
  <2>1. Loader \in Callers
    BY DEF Callers
  <2> QED
    BY <1>1, <1>2, <2>1, OperationAt DEF Idle, Writers, Loader
<1>4. rest[c] = {}
  BY <1>1 DEF Programs, Program, About, Asking
<1>5. \A i \in DOMAIN threads : threads[i].by # c
  BY <1>1 DEF WritersAlone, CallsAsRead, StartedBy, About, Asking
<1>6. \A t \in Stored : t \in Tasks
  BY DEF Stored
<1> QED
  BY <1>1, <1>2, <1>3, <1>4, <1>5, <1>6 DEF Idle, WritersAlone, ChannelsRight, TasksSpawned

LEMMA BeginStep ==
    ASSUME ModelsTyped, Programs, Mail, WritersAlone, ModelsTyped', Programs',
           NEW c \in Calls, stage[c] = "idle", Quiet,
           UNCHANGED <<loaded, threads, channel, rest, starts, unspawned>>,
           \A d \in Callers \ {c} : /\ does'[d] = does[d] /\ stage'[d] = stage[d]
                                    /\ request'[d] = request[d],
           lock' = lock \/ lock' = Append(lock, c), stage'[c] \notin {"ok", "err"},
           TasksRead(c)', ModelsRead(c)',
           \A m \in Models : ChannelRight(m)' \/ Changing(c, m)',
           \A t \in (Stored \ unspawned)' : Running(t)' \/ Pending(c, t)'
    PROVE  WritersAlone'
<1>1. /\ c \in Callers /\ c # Loader /\ \A d \in Callers : d \notin Writers
      /\ starts = {} /\ stage[Loader] \notin {"read", "init", "insert"} /\ Loader \in Callers
      /\ \A i \in DOMAIN threads : threads[i].by # c
  BY CallBegins DEF Callers
<1>2. MailRight'
  BY <1>1, MailStays DEF WritersAlone
<1>3. AliveReached' /\ LoadedRight'
  BY DEF WritersAlone, AliveReached, LoadedRight, Begun
<1>4. Loading'
  BY <1>1 DEF Loading
<1>5. Down(c)'
  BY DEF Down
<1>6. \A d \in Callers : StartedBy(d)'
  BY <1>1 DEF WritersAlone, CallsAsRead, StartedBy, About
<1> QED
  BY <1>1, <1>2, <1>3, <1>4, <1>5, <1>6, WriterStep

LEMMA RunningStays ==
    ASSUME NEW t \in Tasks, UNCHANGED <<threads, channel>>, tasks'[t] = tasks[t],
           default' = default \/ tasks[t].on # Default, Running(t)
    PROVE  Running(t)'
BY DEF Running, ThreadOf, Resolve, Stored

LEMMA TasksOf == ModelsTyped => tasks \in [Tasks -> Row]
BY DEF ModelsTyped, TypeOK

LEMMA ThreadOfTask ==
    ASSUME ModelsTyped, NEW t \in Tasks, ThreadOf(t) # 0
    PROVE  /\ t \in Stored /\ Resolve(tasks[t].on) \in Models
           /\ ThreadOf(t) = channel[Resolve(tasks[t].on)] /\ ThreadOf(t) \in DOMAIN threads
           /\ threads[ThreadOf(t)].model = Resolve(tasks[t].on)
BY ModelsTypes, PromptOn DEF ThreadOf

LEMMA AddModelAlone ==
    ASSUME ModelsTyped, Programs, Mail, WritersAlone, ModelsTyped', Programs',
           ~overlapped', NEW c \in Calls, NEW m \in Models, NEW b \in Bodies, AddModel(c, m, b)
    PROVE  WritersAlone'
<1>1. /\ c \in Callers /\ c # Loader /\ rest[c] = {} /\ \A k \in Models : ChannelRight(k)
      /\ \A s \in Stored \ unspawned : Running(s)
      /\ stage[c] = "idle" /\ Quiet
  BY CallBegins DEF AddModel, Call
<1>2. /\ UNCHANGED <<loaded, threads, channel, rest, starts, unspawned>>
      /\ \A d \in Callers \ {c} : /\ does'[d] = does[d] /\ stage'[d] = stage[d]
                               /\ request'[d] = request[d]
      /\ lock' = lock \/ lock' = Append(lock, c)
  BY <1>1, ModelsTypes DEF AddModel, Call, Queue, Go
<1>3. /\ UNCHANGED <<default, tasks>> /\ models[m] = "none" /\ does'[c].op = "addModel"
      /\ models' = [models EXCEPT ![m] = b] /\ does'[c].model = m
      /\ stage'[c] = IF b = "whole" THEN "insert" ELSE "done"
  BY <1>1, ModelsTypes DEF AddModel, Call, Queue, Go, rows
<1>4. TasksRead(c)'
  BY <1>1, <1>2, <1>3, ModelsTypes
     DEF TasksRead, About, Asking, Ask, Stored, ModelsTyped, TypeOK, Known
<1>5. ModelsRead(c)'
  <2>1. \A s \in Stored : Resolve(tasks[s].on) # m
    BY <1>3, IdsDiffer DEF Stored, Resolve, ModelsTyped, Known
  <2>2. channel[m] = 0 /\ models'[m] = b
    BY <1>1, <1>3 DEF ChannelRight, ModelsTyped, TypeOK
  <2>3. \A s \in Stored' : Resolve(tasks[s].on)' # m
    BY <1>3, <2>1 DEF Stored, Resolve
  <2> QED
    BY <1>1, <1>2, <1>3, <2>2, <2>3 DEF ModelsRead, Starting, About, Asking
<1>6. \A k \in Models : ChannelRight(k)' \/ Changing(c, k)'
  BY <1>1, <1>2, <1>3
     DEF ChannelRight, Changing, Starting, About, Asking, Present, Bodies, ModelsTyped, TypeOK
<1>7. \A s \in (Stored \ unspawned)' : Running(s)' \/ Pending(c, s)'
  BY <1>1, <1>2, <1>3, RunningStays DEF Stored
<1> QED
  BY <1>1, <1>2, <1>3, <1>4, <1>5, <1>6, <1>7, BeginStep

LEMMA UpdateModelAlone ==
    ASSUME ModelsTyped, Programs, Mail, WritersAlone, ModelsTyped', Programs',
           ~overlapped', NEW c \in Calls, NEW m \in Models, NEW b \in Bodies, UpdateModel(c, m, b)
    PROVE  WritersAlone'
<1>1. /\ c \in Callers /\ c # Loader /\ rest[c] = {} /\ \A k \in Models : ChannelRight(k)
      /\ \A s \in Stored \ unspawned : Running(s)
      /\ stage[c] = "idle" /\ Quiet
  BY CallBegins DEF UpdateModel, Call
<1>2. /\ UNCHANGED <<loaded, threads, channel, rest, starts, unspawned>>
      /\ \A d \in Callers \ {c} : /\ does'[d] = does[d] /\ stage'[d] = stage[d]
                               /\ request'[d] = request[d]
      /\ lock' = lock \/ lock' = Append(lock, c)
  BY <1>1, ModelsTypes DEF UpdateModel, Call, Go
<1>3. /\ UNCHANGED <<default, tasks>> /\ m \in Present /\ does'[c].op = "updateModel"
      /\ models' = [models EXCEPT ![m] = b] /\ does'[c].model = m /\ stage'[c] = "again"
  BY <1>1, ModelsTypes DEF UpdateModel, Call, Go, rows
<1>4. TasksRead(c)'
  BY <1>1, <1>2, <1>3, ModelsTypes
     DEF TasksRead, About, Asking, Ask, Stored, ModelsTyped, TypeOK, Known
<1>5. ModelsRead(c)'
  BY <1>1, <1>2, <1>3, ModelsTypes
     DEF ModelsRead, About, Asking, Ask, Present, Bodies, Starting, Resolve, ChannelRight,
         ModelsTyped, TypeOK, Known, Stored
<1>6. \A k \in Models : ChannelRight(k)' \/ Changing(c, k)'
  BY <1>1, <1>2, <1>3
     DEF ChannelRight, Changing, Starting, About, Asking, Present, Bodies, ModelsTyped, TypeOK
<1>7. \A s \in (Stored \ unspawned)' : Running(s)' \/ Pending(c, s)'
  BY <1>1, <1>2, <1>3, RunningStays DEF Stored
<1> QED
  BY <1>1, <1>2, <1>3, <1>4, <1>5, <1>6, <1>7, BeginStep

LEMMA RemoveModelAlone ==
    ASSUME ModelsTyped, Programs, Mail, WritersAlone, ModelsTyped', Programs',
           ~overlapped', NEW c \in Calls, NEW m \in Models, RemoveModel(c, m)
    PROVE  WritersAlone'
<1>1. /\ c \in Callers /\ c # Loader /\ rest[c] = {} /\ \A k \in Models : ChannelRight(k)
      /\ \A s \in Stored \ unspawned : Running(s)
      /\ stage[c] = "idle" /\ Quiet
  BY CallBegins DEF RemoveModel, Call
<1>2. /\ UNCHANGED <<loaded, threads, channel, rest, starts, unspawned>>
      /\ \A d \in Callers \ {c} : /\ does'[d] = does[d] /\ stage'[d] = stage[d]
                               /\ request'[d] = request[d]
      /\ lock' = lock \/ lock' = Append(lock, c)
  BY <1>1, ModelsTypes DEF RemoveModel, Call, Asks, Ask, Queue, Go, rows
<1>3. /\ UNCHANGED <<default, tasks, models>> /\ m \in Present /\ does'[c].op = "removeModel"
      /\ does'[c].model = m /\ stage'[c] = "ask" /\ request'[c].kind = "shutdown"
  BY <1>1, ModelsTypes DEF RemoveModel, Call, Asks, Ask, Queue, Go, rows, rows
<1>4. TasksRead(c)'
  BY <1>1, <1>2, <1>3, ModelsTypes
     DEF TasksRead, About, Asking, Ask, Stored, ModelsTyped, TypeOK, Known
<1>5. ModelsRead(c)'
  BY <1>1, <1>2, <1>3, ModelsTypes
     DEF ModelsRead, About, Asking, Ask, Present, Bodies, Starting, Resolve, ChannelRight,
         ModelsTyped, TypeOK, Known, Stored
<1>6. \A k \in Models : ChannelRight(k)' \/ Changing(c, k)'
  BY <1>1, <1>2, <1>3
     DEF ChannelRight, Changing, Starting, About, Asking, Present, Bodies, ModelsTyped, TypeOK
<1>7. \A s \in (Stored \ unspawned)' : Running(s)' \/ Pending(c, s)'
  BY <1>1, <1>2, <1>3, RunningStays DEF Stored
<1> QED
  BY <1>1, <1>2, <1>3, <1>4, <1>5, <1>6, <1>7, BeginStep

LEMMA SetDefaultAlone ==
    ASSUME ModelsTyped, Programs, Mail, WritersAlone, ModelsTyped', Programs',
           ~overlapped', NEW c \in Calls, NEW m \in Models, SetDefault(c, m)
    PROVE  WritersAlone'
<1>1. /\ c \in Callers /\ c # Loader /\ rest[c] = {} /\ \A k \in Models : ChannelRight(k)
      /\ \A s \in Stored \ unspawned : Running(s)
      /\ stage[c] = "idle" /\ Quiet
  BY CallBegins DEF SetDefault, Call
<1>2. /\ UNCHANGED <<loaded, threads, channel, rest, starts, unspawned>>
      /\ \A d \in Callers \ {c} : /\ does'[d] = does[d] /\ stage'[d] = stage[d]
                               /\ request'[d] = request[d]
      /\ lock' = lock \/ lock' = Append(lock, c)
  BY <1>1, ModelsTypes DEF SetDefault, Call, Go
<1>3. /\ UNCHANGED <<models, tasks>> /\ default' = m /\ does'[c].op = "setDefault"
      /\ stage'[c] = "list"
  BY <1>1, ModelsTypes DEF SetDefault, Call, Go, rows
<1>4. TasksRead(c)'
  BY <1>1, <1>2, <1>3, ModelsTypes
     DEF TasksRead, About, Asking, Ask, Stored, ModelsTyped, TypeOK, Known
<1>5. ModelsRead(c)'
  BY <1>1, <1>2, <1>3, ModelsTypes
     DEF ModelsRead, About, Asking, Ask, Present, Bodies, Starting, Resolve, ChannelRight,
         ModelsTyped, TypeOK, Known, Stored
<1>6. \A k \in Models : ChannelRight(k)' \/ Changing(c, k)'
  BY <1>1, <1>2, <1>3
     DEF ChannelRight, Changing, Starting, About, Asking, Present, Bodies, ModelsTyped, TypeOK
<1>7. \A s \in (Stored \ unspawned)' : Running(s)' \/ Pending(c, s)'
  <2>1. ASSUME NEW s \in Stored \ unspawned
        PROVE  Running(s)' \/ Pending(c, s)'
    <3>1. CASE tasks[s].on = Default
      BY <1>1, <1>2, <1>3, <3>1 DEF Pending
    <3>2. CASE tasks[s].on # Default
      BY <1>1, <1>2, <1>3, <3>2, RunningStays DEF Stored
    <3> QED
      BY <3>1, <3>2
  <2> QED
    BY <1>2, <1>3, <2>1 DEF Stored
<1> QED
  BY <1>1, <1>2, <1>3, <1>4, <1>5, <1>6, <1>7, BeginStep

LEMMA AddTaskAlone ==
    ASSUME ModelsTyped, Programs, Mail, WritersAlone, ModelsTyped', Programs',
           ~overlapped', NEW c \in Calls, NEW t \in Tasks, NEW on \in Known \cup {Default}, AddTask(c, t, on)
    PROVE  WritersAlone'
<1>1. /\ c \in Callers /\ c # Loader /\ rest[c] = {} /\ \A k \in Models : ChannelRight(k)
      /\ \A s \in Stored \ unspawned : Running(s)
      /\ stage[c] = "idle" /\ Quiet
  BY CallBegins DEF AddTask, Call
<1>2. /\ UNCHANGED <<loaded, threads, channel, rest, starts, unspawned>>
      /\ \A d \in Callers \ {c} : /\ does'[d] = does[d] /\ stage'[d] = stage[d]
                               /\ request'[d] = request[d]
      /\ lock' = lock \/ lock' = Append(lock, c)
  BY <1>1, ModelsTypes DEF AddTask, Call, Write, Spawns, Asks, Ask, Queue, Go
<1>3. /\ UNCHANGED <<models, default>> /\ does'[c].op = "addTask" /\ stage'[c] = "ask"
      /\ tasks' = [tasks EXCEPT ![t] = [task |-> t, on |-> on, text |-> texts + 1]]
      /\ request'[c] = Ask("spawn", tasks'[t].task, tasks'[t].on, tasks'[t].text)
  BY <1>1, ModelsTypes DEF AddTask, Call, Write, Spawns, Asks, Ask, Queue, Go, rows
<1>4. TasksRead(c)'
  <2>1. on \notin {"none", "gone"} /\ t \in Tasks
    BY IdsDiffer DEF Known, Default
  <2>2. tasks'[t] = [task |-> t, on |-> on, text |-> texts + 1]
    BY <1>3, TasksOf
  <2>3. t \in Stored'
    BY <2>1, <2>2 DEF Stored
  <2> QED
    BY <1>1, <1>2, <1>3, <2>2, <2>3 DEF TasksRead, About, Asking, Ask
<1>5. ModelsRead(c)'
  BY <1>1, <1>2, <1>3, ModelsTypes
     DEF ModelsRead, About, Asking, Ask, Present, Bodies, Starting, Resolve, ChannelRight,
         ModelsTyped, TypeOK, Known, Stored
<1>6. \A k \in Models : ChannelRight(k)' \/ Changing(c, k)'
  BY <1>1, <1>2, <1>3
     DEF ChannelRight, Changing, Starting, About, Asking, Present, Bodies, ModelsTyped, TypeOK
<1>7. \A s \in (Stored \ unspawned)' : Running(s)' \/ Pending(c, s)'
  <2>1. ASSUME NEW s \in (Stored \ unspawned)'
        PROVE  Running(s)' \/ Pending(c, s)'
    <3>1. CASE s = t
      BY <1>3, <3>1, TasksOf DEF Pending, About, Asking, Ask
    <3>2. CASE s # t
      <4>1. s \in Stored \ unspawned /\ tasks'[s] = tasks[s] /\ s \in Tasks
        BY <1>2, <1>3, <2>1, <3>2, ModelsTypes, TasksOf DEF Stored
      <4> QED
        BY <1>1, <1>2, <1>3, <4>1, RunningStays
    <3> QED
      BY <3>1, <3>2
  <2> QED
    BY <2>1
<1> QED
  BY <1>1, <1>2, <1>3, <1>4, <1>5, <1>6, <1>7, BeginStep

LEMMA UpdateTaskAlone ==
    ASSUME ModelsTyped, Programs, Mail, WritersAlone, ModelsTyped', Programs',
           ~overlapped', NEW c \in Calls, NEW t \in Tasks, NEW on \in Known \cup {Default},
           UpdateTask(c, t, on)
    PROVE  WritersAlone'
<1>1. /\ c \in Callers /\ c # Loader /\ rest[c] = {} /\ \A k \in Models : ChannelRight(k)
      /\ \A s \in Stored \ unspawned : Running(s)
      /\ stage[c] = "idle" /\ Quiet
  BY CallBegins DEF UpdateTask, Call
<1>2. /\ UNCHANGED <<loaded, threads, channel, rest, starts, unspawned>>
      /\ \A d \in Callers \ {c} : /\ does'[d] = does[d] /\ stage'[d] = stage[d]
                               /\ request'[d] = request[d]
      /\ lock' = lock \/ lock' = Append(lock, c)
  BY <1>1, ModelsTypes DEF UpdateTask, Call, Write, Asks, Ask, Queue, Go
<1>3. /\ UNCHANGED <<models, default>> /\ does'[c].op = "updateTask" /\ stage'[c] = "ask"
      /\ tasks' = [tasks EXCEPT ![t] = [task |-> t, on |-> on, text |-> texts + 1]]
      /\ request'[c] = Ask("remove", t, on, 0) /\ does'[c].task = t
  BY <1>1, ModelsTypes DEF UpdateTask, Call, Write, Asks, Ask, Queue, Go, rows
<1>4. TasksRead(c)'
  <2>1. on \notin {"none", "gone"} /\ t \in Tasks
    BY IdsDiffer DEF Known, Default
  <2>2. tasks'[t] = [task |-> t, on |-> on, text |-> texts + 1]
    BY <1>3, TasksOf
  <2>3. t \in Stored'
    BY <2>1, <2>2 DEF Stored
  <2> QED
    BY <1>1, <1>2, <1>3, <2>2, <2>3 DEF TasksRead, About, Asking, Ask
<1>5. ModelsRead(c)'
  BY <1>1, <1>2, <1>3, ModelsTypes
     DEF ModelsRead, About, Asking, Ask, Present, Bodies, Starting, Resolve, ChannelRight,
         ModelsTyped, TypeOK, Known, Stored
<1>6. \A k \in Models : ChannelRight(k)' \/ Changing(c, k)'
  BY <1>1, <1>2, <1>3
     DEF ChannelRight, Changing, Starting, About, Asking, Present, Bodies, ModelsTyped, TypeOK
<1>7. \A s \in (Stored \ unspawned)' : Running(s)' \/ Pending(c, s)'
  <2>1. ASSUME NEW s \in (Stored \ unspawned)'
        PROVE  Running(s)' \/ Pending(c, s)'
    <3>1. CASE s = t
      BY <1>3, <3>1, TasksOf DEF Pending, About, Asking, Ask
    <3>2. CASE s # t
      <4>1. s \in Stored \ unspawned /\ tasks'[s] = tasks[s] /\ s \in Tasks
        BY <1>2, <1>3, <2>1, <3>2, ModelsTypes, TasksOf DEF Stored
      <4> QED
        BY <1>1, <1>2, <1>3, <4>1, RunningStays
    <3> QED
      BY <3>1, <3>2
  <2> QED
    BY <2>1
<1> QED
  BY <1>1, <1>2, <1>3, <1>4, <1>5, <1>6, <1>7, BeginStep

LEMMA DeleteTaskAlone ==
    ASSUME ModelsTyped, Programs, Mail, WritersAlone, ModelsTyped', Programs',
           ~overlapped', NEW c \in Calls, NEW t \in Tasks, DeleteTask(c, t)
    PROVE  WritersAlone'
<1>1. /\ c \in Callers /\ c # Loader /\ rest[c] = {} /\ \A k \in Models : ChannelRight(k)
      /\ \A s \in Stored \ unspawned : Running(s)
      /\ stage[c] = "idle" /\ Quiet
  BY CallBegins DEF DeleteTask, Call
<1>2. /\ UNCHANGED <<loaded, threads, channel, rest, starts, unspawned>>
      /\ \A d \in Callers \ {c} : /\ does'[d] = does[d] /\ stage'[d] = stage[d]
                               /\ request'[d] = request[d]
      /\ lock' = lock \/ lock' = Append(lock, c)
  BY <1>1, ModelsTypes DEF DeleteTask, Call, Asks, Ask, Queue, Go, rows
<1>3. /\ UNCHANGED <<models, default, tasks>> /\ does'[c].op = "deleteTask" /\ stage'[c] = "ask"
      /\ t \in Stored /\ request'[c] = Ask("remove", t, tasks[t].on, 0)
  BY <1>1, ModelsTypes DEF DeleteTask, Call, Asks, Ask, Queue, Go, rows, rows
<1>4. TasksRead(c)'
  BY <1>1, <1>2, <1>3, ModelsTypes
     DEF TasksRead, About, Asking, Ask, Stored, ModelsTyped, TypeOK, Known
<1>5. ModelsRead(c)'
  BY <1>1, <1>2, <1>3, ModelsTypes
     DEF ModelsRead, About, Asking, Ask, Present, Bodies, Starting, Resolve, ChannelRight,
         ModelsTyped, TypeOK, Known, Stored
<1>6. \A k \in Models : ChannelRight(k)' \/ Changing(c, k)'
  BY <1>1, <1>2, <1>3
     DEF ChannelRight, Changing, Starting, About, Asking, Present, Bodies, ModelsTyped, TypeOK
<1>7. \A s \in (Stored \ unspawned)' : Running(s)' \/ Pending(c, s)'
  BY <1>1, <1>2, <1>3, RunningStays DEF Stored
<1> QED
  BY <1>1, <1>2, <1>3, <1>4, <1>5, <1>6, <1>7, BeginStep

-----------------------------------------------------------------------------
(* The steps of calls that only ask.                                       *)
LEMMA PrompterStep ==
    ASSUME ModelsTyped, Programs, WritersAlone, ModelsTyped', Programs', NEW c \in Callers,
           does'[c].op = "prompt", does[c].op = "prompt" \/ stage[c] = "idle",
           UNCHANGED <<models, default, tasks, loaded, channel, rest, starts, unspawned>>,
           \A d \in Callers \ {c} : /\ does'[d] = does[d] /\ stage'[d] = stage[d]
                                    /\ request'[d] = request[d],
           DOMAIN threads' = DOMAIN threads,
           \A j \in DOMAIN threads :
               /\ threads'[j].model = threads[j].model /\ threads'[j].by = threads[j].by
               /\ threads'[j].phase = threads[j].phase /\ threads'[j].tasks = threads[j].tasks,
           MailRight'
    PROVE  WritersAlone'
<1>1. c \notin Writers /\ c \notin Writers' /\ c # Loader /\ Loader \in Callers
  BY OperationAt DEF Writers, Programs, Program, Callers
<1>2. Idle(c) /\ (starts # {} => stage[Loader] \in {"init", "insert"})
  BY <1>1, NotWriting DEF WritersAlone, Loading
<1>3. Idle(c)'
  BY <1>1, <1>2, NotWritingLater
<1>4. OneWriter'
  BY <1>1 DEF WritersAlone, OneWriter, Writers
<1>5. /\ \A m \in Models : channel[m] # 0 => channel[m] \in DOMAIN threads
      /\ threads = <<>> => threads' = <<>>
  BY ModelsTypes DEF ModelsTyped, TypeOK
<1>6. AliveReached' /\ LoadedRight'
  BY <1>5 DEF WritersAlone, AliveReached, LoadedRight, Begun
<1>7. \A d \in Callers : Down(d)'
  <2>1. ASSUME NEW d \in Callers \ {c}, stage[d] \in {"ok", "err"}, request[d].kind = "shutdown"
        PROVE  ~Reachable(request[d].on)'
    <3>1. request[d].on \in Models /\ ~Reachable(request[d].on)
      BY <2>1, OperationAt
         DEF WritersAlone, CallsAsRead, Down, About, Asking, Programs, Program, OfModels
    <3> QED
      BY <1>5, <2>1, <3>1 DEF Reachable
  <2> QED
    BY <1>3, <2>1 DEF Down, Idle
<1>8. \A d \in Callers : TasksRead(d)' /\ ModelsRead(d)'
  <2>1. ASSUME NEW d \in Callers \ {c}
        PROVE  TasksRead(d)' /\ ModelsRead(d)'
    BY <2>1
       DEF WritersAlone, CallsAsRead, TasksRead, ModelsRead, About, Stored, Present, Starting,
           Resolve
  <2> QED
    BY <1>3, <2>1 DEF Idle
<1>9. \A d \in Callers : StartedBy(d)'
  <2>1. \A i \in DOMAIN threads : threads[i].by # c
    BY <1>1 DEF WritersAlone, CallsAsRead, StartedBy, About, Asking
  <2> QED
    BY <2>1 DEF WritersAlone, CallsAsRead, StartedBy, About
<1>10. Loading'
  BY <1>1, <1>5 DEF WritersAlone, Loading, Present
<1>11. ChannelsRight'
  <2>1. \A d \in Callers \ {c}, m \in Models : Changing(d, m)' <=> Changing(d, m)
    BY DEF Changing, About, Starting
  <2> QED
    BY <1>2, <2>1 DEF Idle, WritersAlone, ChannelsRight, ChannelRight
<1>12. TasksSpawned'
  <2>1. \A d \in Callers \ {c}, t \in Tasks : Pending(d, t)' <=> Pending(d, t)
    BY DEF Pending, About, Resolve
  <2>2. \A t \in Tasks : Running(t) => Running(t)'
    <3>1. ASSUME NEW t \in Tasks
          PROVE  ThreadOf(t)' = ThreadOf(t) /\ (ThreadOf(t) # 0 => ThreadOf(t) \in DOMAIN threads)
      BY ThreadOfTask DEF ThreadOf, Resolve, Stored
    <3> QED
      BY <3>1 DEF Running
  <2> QED
    BY <1>2, <2>1, <2>2 DEF Idle, WritersAlone, TasksSpawned, Stored
<1> QED
  BY <1>4, <1>6, <1>7, <1>8, <1>9, <1>10, <1>11, <1>12 DEF WritersAlone, CallsAsRead

(* A further step of the only call that writes.                            *)
LEMMA CallGoes ==
    ASSUME ModelsTyped, Programs, Mail, WritersAlone, ModelsTyped', Programs',
           NEW c \in Writers, stage[c] # "await", UNCHANGED <<loaded, threads>>,
           \A d \in Callers \ {c} : /\ does'[d] = does[d] /\ stage'[d] = stage[d]
                                    /\ request'[d] = request[d],
           \/ UNCHANGED channel /\ (lock' = lock \/ lock' = Append(lock, c))
           \/ lock # <<>> /\ Head(lock) = c,
           channel' = channel \/ (AliveReached /\ LoadedRight)',
           \/ Loading'
           \/ starts' = starts /\ stage[c] \notin {"read", "init", "insert"} /\ stage'[c] # "read",
           Down(c)', TasksRead(c)', ModelsRead(c)', StartedBy(c)',
           \A m \in Models : ChannelRight(m)' \/ Changing(c, m)',
           \A t \in (Stored \ unspawned)' : Running(t)' \/ Pending(c, t)'
    PROVE  WritersAlone'
<1>1. c \in Callers /\ \A d \in Callers \ {c} : d \notin Writers
  BY OthersIdle
<1>2. MailRight'
  BY <1>1, MailStays DEF WritersAlone
<1>3. AliveReached' /\ LoadedRight'
  BY DEF WritersAlone, AliveReached, LoadedRight, Begun
<1>4. Loading'
  <2>1. CASE starts' = starts /\ stage[c] \notin {"read", "init", "insert"} /\ stage'[c] # "read"
    <3>1. Loader \in Callers /\ starts = {}
      BY <1>1, <2>1, OnlyWriter DEF Callers, WritersAlone, Loading
    <3>2. stage'[Loader] # "read"
      BY <1>1, <2>1, <3>1 DEF Writers, Programs, Program, Loader
    <3> QED
      BY <2>1, <3>1, <3>2 DEF Loading
  <2> QED
    BY <2>1
<1>5. \A d \in Callers : StartedBy(d)'
  <2>1. ASSUME NEW d \in Callers \ {c}
        PROVE  StartedBy(d)'
    <3>1. stage[d] # "ready"
      BY <1>1, OperationAt DEF Writers
    <3> QED
      BY <3>1 DEF WritersAlone, CallsAsRead, StartedBy, About
  <2> QED
    BY <2>1
<1> QED
  BY <1>1, <1>2, <1>3, <1>4, <1>5, WriterStep

LEMMA AgainAlone ==
    ASSUME ModelsTyped, Programs, Mail, WritersAlone, ModelsTyped', Programs',
           NEW c \in Callers, Again(c)
    PROVE  WritersAlone'
<1>1. c \in Callers /\ c \in Writers
  BY OperationAt DEF Callers, Writers, Again
<1>2. /\ Down(c) /\ TasksRead(c) /\ ModelsRead(c) /\ StartedBy(c)
      /\ \A k \in Models : ChannelRight(k) \/ Changing(c, k)
      /\ \A t \in Stored \ unspawned : Running(t) \/ Pending(c, t)
      /\ c # Loader => starts = {}
  BY <1>1, OthersIdle, OnlyWriter
<1>3. /\ UNCHANGED <<models, default, tasks, channel, starts, rest,
                     unspawned>> /\ stage[c] = "again"
      /\ lock' = lock \/ lock' = Append(lock, c)
      /\ IF does[c].model \in Present
           THEN /\ stage'[c] = "ask" /\ request'[c] = Ask("shutdown", "none", does[c].model, 0)
                /\ does'[c].op = does[c].op /\ does'[c].model = does[c].model
                /\ does'[c].body = models[does[c].model]
           ELSE stage'[c] = "done" /\ does' = does
      /\ UNCHANGED <<loaded, threads>>
  BY <1>1, ModelsTypes DEF Again, Go, Queue, Asks, Ask, Calling, rows, Called
<1>4. does[c].op = "updateModel" /\ rest[c] = {} /\ c # Loader /\ does[c].model \in Present
  BY <1>1, <1>2, <1>3, OperationAt DEF Programs, Program, ModelsRead, About, Asking, Loader
<1>5. Down(c)'
  BY <1>1, <1>2, <1>3, <1>4 DEF Down
<1>6. TasksRead(c)'
  BY <1>1, <1>2, <1>3, <1>4, ModelsTypes DEF TasksRead, About, Asking, Ask, Stored
<1>7. ModelsRead(c)'
  BY <1>1, <1>2, <1>3, <1>4, ModelsTypes
     DEF ModelsRead, Starting, About, Asking, Ask, Loader, Present, Bodies, Resolve, Stored
<1>8. StartedBy(c)'
  BY <1>1, <1>2, <1>3, <1>4 DEF StartedBy, About, Asking, Ask, Loader
<1>9. \A k \in Models : ChannelRight(k)' \/ Changing(c, k)'
  <2> SUFFICES ASSUME NEW k \in Models
               PROVE  ChannelRight(k)' \/ Changing(c, k)'
    OBVIOUS
  <2>1. ChannelRight(k)' <=> ChannelRight(k)
    BY <1>3 DEF ChannelRight
  <2>2. Changing(c, k) => does[c].model = k
    BY <1>2, <1>3, <1>4 DEF Changing, Loader
  <2>3. does[c].model = k => Changing(c, k)'
    BY <1>3, <1>4 DEF Changing, About, Asking, Ask
  <2> QED
    BY <1>2, <2>1, <2>2, <2>3
<1>10. \A t \in (Stored \ unspawned)' : Running(t)' \/ Pending(c, t)'
  BY <1>1, <1>2, <1>3, <1>4 DEF Running, ThreadOf, Pending, Resolve, Stored, About, Asking, Ask
<1>11. \A d \in Callers \ {c} : /\ does'[d] = does[d] /\ stage'[d] = stage[d]
                                /\ request'[d] = request[d]
  BY <1>1, ModelsTypes DEF Again, Go, Queue, Asks, Ask, Calling, rows
<1> QED
  BY <1>1, <1>3, <1>4, <1>5, <1>6, <1>7, <1>8, <1>9, <1>10, <1>11, CallGoes

LEMMA StartAlone ==
    ASSUME ModelsTyped, Programs, Mail, WritersAlone, ModelsTyped', Programs',
           NEW c \in Callers, Start(c)
    PROVE  WritersAlone'
<1>1. c \in Callers /\ c \in Writers
  BY OperationAt DEF Callers, Writers, Start
<1>2. /\ Down(c) /\ TasksRead(c) /\ ModelsRead(c) /\ StartedBy(c)
      /\ \A k \in Models : ChannelRight(k) \/ Changing(c, k)
      /\ \A t \in Stored \ unspawned : Running(t) \/ Pending(c, t)
      /\ c # Loader => starts = {}
  BY <1>1, OthersIdle, OnlyWriter
<1>3. /\ UNCHANGED <<models, default, tasks, channel, starts, rest, unspawned, does,
                     request>> /\ stage[c] = "start"
      /\ lock' = lock \/ lock' = Append(lock, c)
      /\ stage'[c] = IF does[c].body = "whole" THEN "insert" ELSE "done"
      /\ UNCHANGED <<loaded, threads>>
  BY <1>1, ModelsTypes DEF Start, Go, Queue, Calling, rows
<1>4. does[c].op = "updateModel" /\ rest[c] = {} /\ c # Loader
  BY <1>1, <1>3, OperationAt DEF Programs, Program, About, Asking, Loader
<1>5. Down(c)'
  BY <1>1, <1>2, <1>3, <1>4 DEF Down
<1>6. TasksRead(c)'
  BY <1>1, <1>2, <1>3, <1>4, ModelsTypes DEF TasksRead, About, Asking, Ask, Stored
<1>7. ModelsRead(c)'
  BY <1>1, <1>2, <1>3, <1>4, ModelsTypes
     DEF ModelsRead, Starting, About, Asking, Ask, Loader, Present, Bodies, Resolve, Stored
<1>8. StartedBy(c)'
  BY <1>1, <1>2, <1>3, <1>4 DEF StartedBy, About, Asking, Ask, Loader
<1>9. \A k \in Models : ChannelRight(k)' \/ Changing(c, k)'
  <2> SUFFICES ASSUME NEW k \in Models
               PROVE  ChannelRight(k)' \/ Changing(c, k)'
    OBVIOUS
  <2>1. ChannelRight(k)' <=> ChannelRight(k)
    BY <1>3 DEF ChannelRight
  <2>2. Changing(c, k) => does[c].model = k
    BY <1>2, <1>3, <1>4 DEF Changing, Loader
  <2>3. CASE does[c].body = "whole"
    BY <1>2, <1>3, <1>4, <2>1, <2>2, <2>3 DEF Changing, Starting
  <2>4. CASE does[c].body # "whole"
    <3>1. channel[does[c].model] = 0 /\ models[does[c].model] # "whole"
      BY <1>2, <1>3, <1>4, <2>4 DEF ModelsRead
    <3> QED
      BY <1>2, <1>3, <2>1, <2>2, <3>1 DEF ChannelRight
  <2> QED
    BY <2>3, <2>4
<1>10. \A t \in (Stored \ unspawned)' : Running(t)' \/ Pending(c, t)'
  BY <1>1, <1>2, <1>3, <1>4 DEF Running, ThreadOf, Pending, Resolve, Stored, About, Asking, Ask
<1>11. \A d \in Callers \ {c} : /\ does'[d] = does[d] /\ stage'[d] = stage[d]
                                /\ request'[d] = request[d]
  BY <1>1, ModelsTypes DEF Start, Go, Queue, Calling, rows
<1> QED
  BY <1>1, <1>3, <1>4, <1>5, <1>6, <1>7, <1>8, <1>9, <1>10, <1>11, CallGoes

LEMMA ReadyAlone ==
    ASSUME ModelsTyped, Programs, Mail, WritersAlone, ModelsTyped', Programs',
           NEW c \in Callers, Ready(c)
    PROVE  WritersAlone'
<1>1. c \in Callers /\ c \in Writers
  BY OperationAt DEF Callers, Writers, Ready
<1>2. /\ Down(c) /\ TasksRead(c) /\ ModelsRead(c) /\ StartedBy(c)
      /\ \A k \in Models : ChannelRight(k) \/ Changing(c, k)
      /\ \A t \in Stored \ unspawned : Running(t) \/ Pending(c, t)
      /\ c # Loader => starts = {}
  BY <1>1, OthersIdle, OnlyWriter
<1>3. /\ UNCHANGED <<models, default, tasks, channel, starts, rest, unspawned, does, request,
                     lock>> /\ stage[c] = "ready"
      /\ \E i \in DOMAIN threads : /\ threads[i].by = c /\ threads[i].phase \notin {"spawned", "building"}
                                /\ stage'[c] = IF threads[i].phase = "failed" THEN "done" ELSE "list"
      /\ UNCHANGED <<loaded, threads>>
  BY <1>1, ModelsTypes DEF Ready, Go, Calling, rows
<1>4. does[c].op = "updateModel" /\ rest[c] = {} /\ c # Loader
  BY <1>1, <1>3, OperationAt DEF Programs, Program, About, Asking, Loader
<1>5. Down(c)'
  BY <1>1, <1>2, <1>3, <1>4 DEF Down
<1>6. TasksRead(c)'
  BY <1>1, <1>2, <1>3, <1>4, ModelsTypes DEF TasksRead, About, Asking, Ask, Stored
<1>7. ModelsRead(c)'
  BY <1>1, <1>2, <1>3, <1>4, ModelsTypes
     DEF ModelsRead, Starting, About, Asking, Ask, Loader, Present, Bodies, Resolve, Stored
<1>8. StartedBy(c)'
  BY <1>1, <1>2, <1>3, <1>4 DEF StartedBy, About, Asking, Ask, Loader
<1>9. \A k \in Models : ChannelRight(k)' \/ Changing(c, k)'
  BY <1>1, <1>2, <1>3, <1>4 DEF ChannelRight, Changing, Starting, About, Asking, Ask, Loader
<1>10. \A t \in (Stored \ unspawned)' : Running(t)' \/ Pending(c, t)'
  <2> SUFFICES ASSUME NEW t \in (Stored \ unspawned)'
               PROVE  Running(t)' \/ Pending(c, t)'
    OBVIOUS
  <2>1. t \in Stored \ unspawned /\ t \in Tasks
    BY <1>3 DEF Stored
  <2>2. Running(t) => Running(t)'
    BY <1>3 DEF Running, ThreadOf, Resolve, Stored
  <2>3. PICK i \in DOMAIN threads :
            /\ threads[i].by = c /\ threads[i].phase \notin {"spawned", "building"}
            /\ stage'[c] = IF threads[i].phase = "failed" THEN "done" ELSE "list"
    BY <1>3
  <2>4. i = channel[does[c].model]
    BY <1>2, <1>3, <1>4, <2>3 DEF StartedBy
  <2>5. Pending(c, t) => Resolve(tasks[t].on) = does[c].model
    BY <1>3, <1>4 DEF Pending, About, Asking
  <2>6. CASE threads[i].phase = "failed"
    BY <2>2, <1>2, <2>1, <2>4, <2>5, <2>6 DEF Running, ThreadOf, Alive
  <2>7. CASE threads[i].phase # "failed"
    BY <1>2, <1>3, <1>4, <2>1, <2>2, <2>3, <2>5, <2>7 DEF Pending, Resolve
  <2> QED
    BY <2>6, <2>7
<1>11. \A d \in Callers \ {c} : /\ does'[d] = does[d] /\ stage'[d] = stage[d]
                                /\ request'[d] = request[d]
  BY <1>1, ModelsTypes DEF Ready, Go, Calling, rows
<1> QED
  BY <1>1, <1>3, <1>4, <1>5, <1>6, <1>7, <1>8, <1>9, <1>10, <1>11, CallGoes

LEMMA ListAlone ==
    ASSUME ModelsTyped, Programs, Mail, WritersAlone, ModelsTyped', Programs',
           NEW c \in Callers, List(c)
    PROVE  WritersAlone'
<1>1. c \in Callers /\ c \in Writers
  BY OperationAt DEF Callers, Writers, Looping, List
<1>2. /\ Down(c) /\ TasksRead(c) /\ ModelsRead(c) /\ StartedBy(c)
      /\ \A k \in Models : ChannelRight(k) \/ Changing(c, k)
      /\ \A t \in Stored \ unspawned : Running(t) \/ Pending(c, t)
      /\ c # Loader => starts = {}
  BY <1>1, OthersIdle, OnlyWriter
<1>3. /\ UNCHANGED <<models, default, tasks, channel, starts, does, request,
                     lock>> /\ stage[c] = "list"
      /\ stage'[c] = "next" /\ rest'[c] = {tasks[t] : t \in Listed(does[c].op, does[c].model)}
      /\ unspawned' = unspawned \cup {t \in Stored : /\ does[c].op = "updateModel" /\ default = does[c].model
                                                  /\ tasks[t].on = Default}
      /\ UNCHANGED <<loaded, threads>>
  BY <1>1, ModelsTypes DEF List, Go, Calling, rows, GiveUp
<1>4. does[c].op \in Looping /\ (c = Loader => does[c].op = "load")
  BY <1>1, <1>3, OperationAt
<1>5. Down(c)'
  BY <1>1, <1>2, <1>3, <1>4 DEF Down
<1>6. TasksRead(c)'
  <2>1. \A t \in Stored : tasks[t].task = t
    BY RowsAsked
  <2>2. \A r \in rest'[c] : \E t \in Stored : r = tasks[t]
    BY <1>3 DEF Listed
  <2> QED
    BY <1>3, <2>1, <2>2 DEF TasksRead, About, Asking, Stored
<1>7. ModelsRead(c)'
  BY <1>1, <1>2, <1>3, <1>4, ModelsTypes
     DEF ModelsRead, Starting, About, Asking, Ask, Loader, Present, Bodies, Resolve, Stored
<1>8. StartedBy(c)'
  BY <1>1, <1>2, <1>3, <1>4 DEF StartedBy, About, Asking, Ask, Loader
<1>9. \A k \in Models : ChannelRight(k)' \/ Changing(c, k)'
  BY <1>1, <1>2, <1>3, <1>4 DEF ChannelRight, Changing, Starting, About, Asking, Ask, Loader
<1>10. \A t \in (Stored \ unspawned)' : Running(t)' \/ Pending(c, t)'
  <2> SUFFICES ASSUME NEW t \in (Stored \ unspawned)'
               PROVE  Running(t)' \/ Pending(c, t)'
    OBVIOUS
  <2>1. t \in Stored /\ t \notin unspawned /\ t \in Tasks
    BY <1>3 DEF Stored
  <2>2. Running(t) => Running(t)'
    BY <1>3 DEF Running, ThreadOf, Resolve, Stored
  <2>3. Pending(c, t) => t \in Listed(does[c].op, does[c].model)
    BY <1>2, <1>3, <1>4, <2>1
       DEF Pending, Listed, Looping, About, Asking, Resolve, Programs, Program
  <2>4. t \in Listed(does[c].op, does[c].model) => Pending(c, t)'
    BY <1>3 DEF Pending
  <2> QED
    BY <1>2, <2>1, <2>2, <2>3, <2>4
<1>11. \A d \in Callers \ {c} : /\ does'[d] = does[d] /\ stage'[d] = stage[d]
                                /\ request'[d] = request[d]
  BY <1>1, ModelsTypes DEF List, Go, Calling, rows, GiveUp
<1> QED
  BY <1>1, <1>3, <1>4, <1>5, <1>6, <1>7, <1>8, <1>9, <1>10, <1>11, CallGoes

LEMMA SpawnNextAlone ==
    ASSUME ModelsTyped, Programs, Mail, WritersAlone, ModelsTyped', Programs',
           NEW c \in Callers, SpawnNext(c)
    PROVE  WritersAlone'
<1>1. c \in Callers /\ c \in Writers
  BY OperationAt DEF Callers, Writers, Looping, SpawnNext
<1>2. /\ Down(c) /\ TasksRead(c) /\ ModelsRead(c) /\ StartedBy(c)
      /\ \A k \in Models : ChannelRight(k) \/ Changing(c, k)
      /\ \A t \in Stored \ unspawned : Running(t) \/ Pending(c, t)
      /\ c # Loader => starts = {}
  BY <1>1, OthersIdle, OnlyWriter
<1>3. /\ UNCHANGED <<models, default, tasks, channel, starts, unspawned,
                     does>> /\ stage[c] = "next"
      /\ lock' = lock \/ lock' = Append(lock, c)
      /\ \/ rest[c] = {} /\ stage'[c] = "done" /\ rest'[c] = {}
         \/ \E r \in rest[c] : /\ stage'[c] = "ask" /\ rest'[c] = rest[c] \ {r}
                              /\ request'[c] = Ask("spawn", r.task, r.on, r.text)
      /\ UNCHANGED <<loaded, threads>>
  BY <1>1, ModelsTypes DEF SpawnNext, Go, Calling, rows, Spawns, Asks, Ask, Queue
<1>4. does[c].op \in Looping /\ (c = Loader => does[c].op = "load")
  BY <1>1, <1>3, OperationAt
<1>5. Down(c)'
  BY <1>1, <1>2, <1>3, <1>4 DEF Down
<1>6. TasksRead(c)'
  <2>1. CASE stage'[c] = "done" /\ rest'[c] = {}
    BY <2>1 DEF TasksRead, About, Asking
  <2>2. ASSUME NEW r \in rest[c], stage'[c] = "ask", rest'[c] = rest[c] \ {r},
               request'[c] = Ask("spawn", r.task, r.on, r.text)
        PROVE  TasksRead(c)'
    <3>1. \A q \in rest[c] : q.task \in Stored' /\ tasks'[q.task] = q
      BY <1>2, <1>3 DEF TasksRead, Stored
    <3>2. /\ request'[c].kind = "spawn" /\ request'[c].task = r.task /\ request'[c].on = r.on
          /\ request'[c].text = r.text
      BY <2>2 DEF Ask
    <3> QED
      BY <2>2, <3>1, <3>2 DEF TasksRead, About
  <2> QED
    BY <1>3, <2>1, <2>2
<1>7. ModelsRead(c)'
  <2>1. stage'[c] = "done" \/ (stage'[c] = "ask" /\ request'[c].kind = "spawn")
    <3>1. \A r : Ask("spawn", r.task, r.on, r.text).kind = "spawn"
      BY DEF Ask
    <3> QED
      BY <1>3, <3>1
  <2>2. stage'[c] \notin {"start", "insert", "erase"} /\ ~About(c, "shutdown")'
    BY <2>1 DEF About, Asking
  <2>3. does[c].op \in {"updateModel", "removeModel"} => does[c].model \in Present'
    BY <1>2, <1>3 DEF ModelsRead, Present
  <2> QED
    BY <1>3, <2>2, <2>3 DEF ModelsRead
<1>8. StartedBy(c)'
  <2>1. stage'[c] = "done" \/ (stage'[c] = "ask" /\ request'[c].kind = "spawn")
    <3>1. \A r : Ask("spawn", r.task, r.on, r.text).kind = "spawn"
      BY DEF Ask
    <3> QED
      BY <1>3, <3>1
  <2> QED
    BY <1>2, <1>3, <2>1 DEF StartedBy, About, Asking
<1>9. \A k \in Models : ChannelRight(k)' \/ Changing(c, k)'
  BY <1>1, <1>2, <1>3, <1>4 DEF ChannelRight, Changing, Starting, About, Asking, Ask, Loader
<1>10. \A t \in (Stored \ unspawned)' : Running(t)' \/ Pending(c, t)'
  <2> SUFFICES ASSUME NEW t \in (Stored \ unspawned)'
               PROVE  Running(t)' \/ Pending(c, t)'
    OBVIOUS
  <2>1. t \in Stored \ unspawned /\ t \in Tasks
    BY <1>3 DEF Stored
  <2>2. Running(t) => Running(t)'
    BY <1>3 DEF Running, ThreadOf, Resolve, Stored
  <2>3. Pending(c, t) => tasks[t] \in rest[c]
    BY <1>3, <1>4 DEF Pending, About, Asking, Looping
  <2>4. CASE rest[c] = {}
    BY <1>2, <2>1, <2>2, <2>3, <2>4
  <2>5. ASSUME NEW r \in rest[c], stage'[c] = "ask", rest'[c] = rest[c] \ {r},
               request'[c] = Ask("spawn", r.task, r.on, r.text), tasks[t] \in rest[c]
        PROVE  Pending(c, t)'
    <3>1. CASE tasks[t] = r
      <4>1. r.task = t
        BY <2>1, <3>1, RowsAsked
      <4> QED
        BY <2>5, <4>1 DEF Pending, About, Asking, Ask
    <3>2. CASE tasks[t] # r
      BY <1>3, <2>5, <3>2 DEF Pending
    <3> QED
      BY <3>1, <3>2
  <2> QED
    BY <1>2, <1>3, <2>1, <2>2, <2>3, <2>4, <2>5
<1>11. \A d \in Callers \ {c} : /\ does'[d] = does[d] /\ stage'[d] = stage[d]
                                /\ request'[d] = request[d]
  BY <1>1, ModelsTypes DEF SpawnNext, Go, Calling, rows, Spawns, Asks, Ask, Queue
<1> QED
  BY <1>1, <1>3, <1>4, <1>5, <1>6, <1>7, <1>8, <1>9, <1>10, <1>11, CallGoes

LEMMA FetchAlone ==
    ASSUME ModelsTyped, Programs, Mail, WritersAlone, ModelsTyped', Programs',
           NEW c \in Callers, Fetch(c)
    PROVE  WritersAlone'
<1>1. c \in Callers /\ c \in Writers
  BY OperationAt DEF Callers, Writers, Fetch
<1>2. /\ Down(c) /\ TasksRead(c) /\ ModelsRead(c) /\ StartedBy(c)
      /\ \A k \in Models : ChannelRight(k) \/ Changing(c, k)
      /\ \A t \in Stored \ unspawned : Running(t) \/ Pending(c, t)
      /\ c # Loader => starts = {}
  BY <1>1, OthersIdle, OnlyWriter
<1>3. /\ UNCHANGED <<models, default, tasks, channel, starts, rest, unspawned,
                     does>> /\ stage[c] = "fetch"
      /\ lock' = lock \/ lock' = Append(lock, c)
      /\ IF request[c].task \in Stored
           THEN /\ stage'[c] = "ask"
                /\ request'[c] = Ask("spawn", tasks[request[c].task].task, tasks[request[c].task].on,
                                     tasks[request[c].task].text)
           ELSE stage'[c] = "done"
      /\ UNCHANGED <<loaded, threads>>
  BY <1>1, ModelsTypes DEF Fetch, Go, Calling, rows, Spawns, Asks, Ask, Queue
<1>4. does[c].op = "updateTask" /\ rest[c] = {} /\ request[c].task = does[c].task /\ does[c].task \in Stored
      /\ tasks[does[c].task].task = does[c].task /\ c # Loader
  BY <1>1, <1>2, <1>3, OperationAt, RowsAsked
     DEF Programs, Program, TasksRead, About, Asking, Loader
<1>5. Down(c)'
  BY <1>1, <1>2, <1>3, <1>4 DEF Down
<1>6. TasksRead(c)'
  BY <1>1, <1>2, <1>3, <1>4, ModelsTypes DEF TasksRead, About, Asking, Ask, Stored
<1>7. ModelsRead(c)'
  BY <1>1, <1>2, <1>3, <1>4, ModelsTypes
     DEF ModelsRead, Starting, About, Asking, Ask, Loader, Present, Bodies, Resolve, Stored
<1>8. StartedBy(c)'
  BY <1>1, <1>2, <1>3, <1>4 DEF StartedBy, About, Asking, Ask, Loader
<1>9. \A k \in Models : ChannelRight(k)' \/ Changing(c, k)'
  BY <1>1, <1>2, <1>3, <1>4 DEF ChannelRight, Changing, Starting, About, Asking, Ask, Loader
<1>10. ASSUME NEW t \in (Stored \ unspawned)'
       PROVE  Running(t)' \/ Pending(c, t)'
  <2>1. t \in Stored \ unspawned /\ (Running(t) \/ Pending(c, t))
    BY <1>2, <1>3, <1>10 DEF Stored
  <2>2. Running(t) => Running(t)'
    BY <1>3 DEF Running, ThreadOf, Resolve, Stored
  <2>3. Pending(c, t) => t = does[c].task
    BY <1>3, <1>4 DEF Pending, About, Asking
  <2>4. t = does[c].task => Pending(c, t)'
    BY <1>3, <1>4 DEF Pending, About, Asking, Ask
  <2> QED
    BY <2>1, <2>2, <2>3, <2>4
<1>11. \A d \in Callers \ {c} : /\ does'[d] = does[d] /\ stage'[d] = stage[d]
                                /\ request'[d] = request[d]
  BY <1>1, ModelsTypes DEF Fetch, Go, Calling, rows, Spawns, Asks, Ask, Queue
<1> QED
  BY <1>1, <1>3, <1>4, <1>5, <1>6, <1>7, <1>8, <1>9, <1>10, <1>11, CallGoes

LEMMA EraseAlone ==
    ASSUME ModelsTyped, Programs, Mail, WritersAlone, ModelsTyped', Programs',
           NEW c \in Callers, Erase(c)
    PROVE  WritersAlone'
<1>1. c \in Callers /\ c \in Writers
  BY OperationAt DEF Callers, Writers, Erase
<1>2. /\ Down(c) /\ TasksRead(c) /\ ModelsRead(c) /\ StartedBy(c)
      /\ \A k \in Models : ChannelRight(k) \/ Changing(c, k)
      /\ \A t \in Stored \ unspawned : Running(t) \/ Pending(c, t)
      /\ c # Loader => starts = {}
  BY <1>1, OthersIdle, OnlyWriter
<1>3. /\ UNCHANGED <<default, channel, starts, rest, unspawned, does, request,
                     lock>> /\ stage[c] = "erase" /\ stage'[c] = "done"
      /\ IF does[c].op = "removeModel"
           THEN models' = [models EXCEPT ![does[c].model] = "gone"] /\ tasks' = tasks
           ELSE tasks' = [tasks EXCEPT ![does[c].task].on = "gone"] /\ models' = models
      /\ UNCHANGED <<loaded, threads>>
  BY <1>1, ModelsTypes DEF Erase, Go, Calling
<1>4. /\ does[c].op \in {"removeModel", "deleteTask"} /\ rest[c] = {} /\ c # Loader
      /\ does[c].op = "removeModel" => does[c].model \in Models
      /\ does[c].op = "deleteTask" => does[c].task \in Tasks
  BY <1>1, <1>3, OperationAt
     DEF Programs, Program, About, Asking, OfModels, OfTasks, Looping, Loader
<1>5. Down(c)'
  BY <1>1, <1>2, <1>3, <1>4 DEF Down
<1>6. TasksRead(c)'
  BY <1>1, <1>2, <1>3, <1>4, ModelsTypes DEF TasksRead, About, Asking, Ask, Stored
<1>7. ModelsRead(c)'
  BY <1>1, <1>2, <1>3, <1>4, ModelsTypes
     DEF ModelsRead, Starting, About, Asking, Ask, Loader, Present, Bodies, Resolve, Stored
<1>8. StartedBy(c)'
  BY <1>1, <1>2, <1>3, <1>4 DEF StartedBy, About, Asking, Ask, Loader
<1>9. \A k \in Models : ChannelRight(k)' \/ Changing(c, k)'
  <2> SUFFICES ASSUME NEW k \in Models
               PROVE  ChannelRight(k)' \/ Changing(c, k)'
    OBVIOUS
  <2>1. k # does[c].model => ~Changing(c, k)
    BY <1>2, <1>3, <1>4 DEF Changing, About, Asking, Loader
  <2>2. k # does[c].model \/ does[c].op # "removeModel" => models'[k] = models[k]
    BY <1>3, <1>4 DEF ModelsTyped, TypeOK
  <2>3. does[c].op # "removeModel" => ~Changing(c, k)
    BY <1>2, <1>3, <1>4 DEF Changing, About, Asking, Loader
  <2>4. does[c].op = "removeModel" => channel[does[c].model] = 0 /\ models'[does[c].model] = "gone"
    BY <1>2, <1>3, <1>4 DEF ModelsRead, ModelsTyped, TypeOK
  <2> QED
    BY <1>2, <1>3, <2>1, <2>2, <2>3, <2>4 DEF ChannelRight
<1>10. \A t \in (Stored \ unspawned)' : Running(t)' \/ Pending(c, t)'
  <2> SUFFICES ASSUME NEW t \in (Stored \ unspawned)'
               PROVE  Running(t)' \/ Pending(c, t)'
    OBVIOUS
  <2>0. does[c].op = "deleteTask" => tasks'[does[c].task].on = "gone"
    BY <1>3, <1>4, TasksOf DEF Row
  <2>1. t \in Stored \ unspawned /\ t \in Tasks /\ tasks'[t] = tasks[t]
    BY <1>3, <1>4, <2>0, TasksOf DEF Stored
  <2>2. Running(t) => Running(t)'
    BY <1>3, <2>1, RunningStays
  <2>3. Pending(c, t) => does[c].op = "deleteTask" /\ does[c].task = t
    BY <1>3, <1>4 DEF Pending, About, Asking
  <2>4. does[c].op = "deleteTask" /\ does[c].task = t => t \notin Stored'
    BY <1>3, TasksOf DEF Stored, Row
  <2> QED
    BY <1>2, <2>1, <2>2, <2>3, <2>4
<1>11. \A d \in Callers \ {c} : /\ does'[d] = does[d] /\ stage'[d] = stage[d]
                                /\ request'[d] = request[d]
  BY <1>1, ModelsTypes DEF Erase, Go, Calling
<1> QED
  BY <1>1, <1>3, <1>4, <1>5, <1>6, <1>7, <1>8, <1>9, <1>10, <1>11, CallGoes

LEMMA ReadModelsAlone ==
    ASSUME ModelsTyped, Programs, Mail, WritersAlone, ModelsTyped', Programs', ReadModels
    PROVE  WritersAlone'
<1>1. Loader \in Callers /\ Loader \in Writers
  BY OperationAt DEF Callers, Writers, ReadModels
<1>2. /\ Down(Loader) /\ TasksRead(Loader) /\ ModelsRead(Loader) /\ StartedBy(Loader)
      /\ \A k \in Models : ChannelRight(k) \/ Changing(Loader, k)
      /\ \A t \in Stored \ unspawned : Running(t) \/ Pending(Loader, t)
      /\ Loader # Loader => starts = {}
  BY <1>1, OthersIdle, OnlyWriter
<1>3. /\ UNCHANGED <<models, default, tasks, channel, rest, unspawned, does, request, lock>>
      /\ stage[Loader] = "read" /\ stage'[Loader] = "init" /\ starts' = {<<m, models[m]>> : m \in Present}
      /\ UNCHANGED <<loaded, threads>>
  BY <1>1, ModelsTypes DEF ReadModels, Go, rows
<1>4. does[Loader].op = "load" /\ rest[Loader] = {}
  BY <1>1, <1>3, OperationAt DEF Programs, Program, About, Asking, Loader
<1>5. Down(Loader)'
  BY <1>1, <1>2, <1>3, <1>4 DEF Down
<1>6. TasksRead(Loader)'
  BY <1>1, <1>2, <1>3, <1>4, ModelsTypes DEF TasksRead, About, Asking, Ask, Stored
<1>7. ModelsRead(Loader)'
  BY <1>1, <1>2, <1>3, <1>4, ModelsTypes
     DEF ModelsRead, Starting, About, Asking, Ask, Loader, Present, Bodies, Resolve, Stored
<1>8. StartedBy(Loader)'
  BY <1>1, <1>2, <1>3, <1>4 DEF StartedBy, About, Asking, Ask, Loader
<1>9. \A k \in Models : ChannelRight(k)' \/ Changing(Loader, k)'
  <2> SUFFICES ASSUME NEW k \in Models
               PROVE  ChannelRight(k)' \/ Changing(Loader, k)'
    OBVIOUS
  <2>1. channel[k] = 0
    BY <1>3 DEF WritersAlone, Loading
  <2> QED
    BY <1>3, <2>1 DEF ChannelRight, Changing, Present, Bodies
<1>10. \A t \in (Stored \ unspawned)' : Running(t)' \/ Pending(Loader, t)'
  BY <1>1, <1>2, <1>3, <1>4
     DEF Running, ThreadOf, Pending, Resolve, Stored, About, Asking, Ask, Loader
<1>11. \A d \in Callers \ {Loader} : /\ does'[d] = does[d] /\ stage'[d] = stage[d]
                                /\ request'[d] = request[d]
  BY <1>1, ModelsTypes DEF ReadModels, Go, rows
<1>12. Loading'
  BY <1>1, <1>2, <1>3, <1>4, ModelsTypes DEF Loading, WritersAlone, Present
<1> QED
  BY <1>1, <1>3, <1>4, <1>5, <1>6, <1>7, <1>8, <1>9, <1>10, <1>11, CallGoes, <1>12

LEMMA InitModelAlone ==
    ASSUME ModelsTyped, Programs, Mail, WritersAlone, ModelsTyped', Programs',
           NEW m \in Models, NEW b \in Bodies, InitModel(m, b)
    PROVE  WritersAlone'
<1>1. Loader \in Callers /\ Loader \in Writers
  BY OperationAt DEF Callers, Writers, InitModel
<1>2. /\ Down(Loader) /\ TasksRead(Loader) /\ ModelsRead(Loader) /\ StartedBy(Loader)
      /\ \A k \in Models : ChannelRight(k) \/ Changing(Loader, k)
      /\ \A t \in Stored \ unspawned : Running(t) \/ Pending(Loader, t)
      /\ Loader # Loader => starts = {}
  BY <1>1, OthersIdle, OnlyWriter
<1>3. /\ UNCHANGED <<models, default, tasks, channel, rest, unspawned, does>>
      /\ lock' = lock \/ lock' = Append(lock, Loader)
      /\ stage[Loader] = "init" /\ <<m, b>> \in starts /\ starts' = starts \ {<<m, b>>}
      /\ IF b = "whole" THEN stage'[Loader] = "insert" /\ request'[Loader].on = m
                        ELSE stage'[Loader] = "init"
      /\ UNCHANGED <<loaded, threads>>
  BY <1>1, ModelsTypes DEF InitModel, Go, rows, Asks, Ask, Queue
<1>4. does[Loader].op = "load" /\ rest[Loader] = {}
  BY <1>1, <1>3, OperationAt DEF Programs, Program, About, Asking, Loader
<1>5. Down(Loader)'
  BY <1>1, <1>2, <1>3, <1>4 DEF Down
<1>6. TasksRead(Loader)'
  BY <1>1, <1>2, <1>3, <1>4, ModelsTypes DEF TasksRead, About, Asking, Ask, Stored
<1>7. ModelsRead(Loader)'
  BY <1>1, <1>2, <1>3, <1>4, ModelsTypes
     DEF ModelsRead, Starting, About, Asking, Ask, Loader, Present, Bodies, Resolve, Stored,
         Loading, WritersAlone
<1>8. StartedBy(Loader)'
  BY <1>1, <1>2, <1>3, <1>4 DEF StartedBy, About, Asking, Ask, Loader
<1>9. \A k \in Models : ChannelRight(k)' \/ Changing(Loader, k)'
  BY <1>1, <1>2, <1>3, <1>4
     DEF ChannelRight, Changing, Starting, About, Asking, Ask, Loader, Present, Bodies
<1>10. \A t \in (Stored \ unspawned)' : Running(t)' \/ Pending(Loader, t)'
  BY <1>1, <1>2, <1>3, <1>4
     DEF Running, ThreadOf, Pending, Resolve, Stored, About, Asking, Ask, Loader
<1>11. \A d \in Callers \ {Loader} : /\ does'[d] = does[d] /\ stage'[d] = stage[d]
                                /\ request'[d] = request[d]
  BY <1>1, ModelsTypes DEF InitModel, Go, rows, Asks, Ask, Queue
<1>12. Loading'
  BY <1>1, <1>2, <1>3, <1>4, ModelsTypes DEF Loading, WritersAlone, Present
<1> QED
  BY <1>1, <1>3, <1>4, <1>5, <1>6, <1>7, <1>8, <1>9, <1>10, <1>11, CallGoes, <1>12

LEMMA InitialisedAlone ==
    ASSUME ModelsTyped, Programs, Mail, WritersAlone, ModelsTyped', Programs', Initialised
    PROVE  WritersAlone'
<1>1. Loader \in Callers /\ Loader \in Writers
  BY OperationAt DEF Callers, Writers, Initialised
<1>2. /\ Down(Loader) /\ TasksRead(Loader) /\ ModelsRead(Loader) /\ StartedBy(Loader)
      /\ \A k \in Models : ChannelRight(k) \/ Changing(Loader, k)
      /\ \A t \in Stored \ unspawned : Running(t) \/ Pending(Loader, t)
      /\ Loader # Loader => starts = {}
  BY <1>1, OthersIdle, OnlyWriter
<1>3. /\ UNCHANGED <<models, default, tasks, channel, starts, rest, unspawned, does, request,
                     lock>>
      /\ stage[Loader] = "init" /\ starts = {} /\ stage'[Loader] = "list"
      /\ UNCHANGED <<loaded, threads>>
  BY <1>1, ModelsTypes DEF Initialised, Go, Calling, rows
<1>4. does[Loader].op = "load" /\ rest[Loader] = {}
  BY <1>1, <1>3, OperationAt DEF Programs, Program, About, Asking, Loader
<1>5. Down(Loader)'
  BY <1>1, <1>2, <1>3, <1>4 DEF Down
<1>6. TasksRead(Loader)'
  BY <1>1, <1>2, <1>3, <1>4, ModelsTypes DEF TasksRead, About, Asking, Ask, Stored
<1>7. ModelsRead(Loader)'
  BY <1>1, <1>2, <1>3, <1>4, ModelsTypes
     DEF ModelsRead, Starting, About, Asking, Ask, Loader, Present, Bodies, Resolve, Stored
<1>8. StartedBy(Loader)'
  BY <1>1, <1>2, <1>3, <1>4 DEF StartedBy, About, Asking, Ask, Loader
<1>9. \A k \in Models : ChannelRight(k)' \/ Changing(Loader, k)'
  BY <1>1, <1>2, <1>3, <1>4 DEF ChannelRight, Changing, Starting, About, Asking, Ask, Loader
<1>10. \A t \in (Stored \ unspawned)' : Running(t)' \/ Pending(Loader, t)'
  BY <1>1, <1>2, <1>3, <1>4
     DEF Running, ThreadOf, Pending, Resolve, Stored, About, Asking, Ask, Loader
<1>11. \A d \in Callers \ {Loader} : /\ does'[d] = does[d] /\ stage'[d] = stage[d]
                                /\ request'[d] = request[d]
  BY <1>1, ModelsTypes DEF Initialised, Go, Calling, rows
<1>12. Loading'
  BY <1>1, <1>2, <1>3, <1>4, ModelsTypes DEF Loading, WritersAlone
<1> QED
  BY <1>1, <1>3, <1>4, <1>5, <1>6, <1>7, <1>8, <1>9, <1>10, <1>11, CallGoes, <1>12

-----------------------------------------------------------------------------
(* The steps at the lock.                                                  *)
LEMMA MailUntouched ==
    ASSUME ModelsTyped, Mail, MailRight, NEW c \in Callers, stage[c] # "await",
           UNCHANGED <<default, tasks, channel, threads>>,
           \A d \in Callers \ {c} : request'[d] = request[d],
           \/ lock' = lock \/ lock' = Append(lock, c)
           \/ lock # <<>> /\ Head(lock) = c
    PROVE  MailRight'
<1>1. ASSUME NEW i \in DOMAIN threads, threads[i].inbox # <<>>
      PROVE  Target(Head(lock))' # NoModel /\ i = channel'[Target(Head(lock))']
  <2>1. PICK d \in Callers : d = Head(lock)
    BY <1>1, MailIs
  <2>2. lock # <<>> /\ stage[d] = "await" /\ d # c
    BY <1>1, <2>1, MailIs
  <2>3. Head(lock') = d
    BY <2>1, <2>2, LockMoved, ModelsTypes
  <2>4. Target(d)' = Target(d)
    BY <2>2 DEF Target, Resolve, Stored
  <2>5. Target(Head(lock))' = Target(d)'
    BY <2>3 DEF Target
  <2> QED
    BY <1>1, <2>1, <2>4, <2>5 DEF MailRight
<1> QED
  BY <1>1 DEF MailRight

LEMMA PromptAlone ==
    ASSUME ModelsTyped, Programs, Mail, WritersAlone, ModelsTyped', Programs',
           NEW c \in Calls, NEW t \in Tasks, Prompt(c, t)
    PROVE  WritersAlone'
<1>1. c \in Callers /\ stage[c] = "idle" /\ does'[c].op = "prompt"
  BY ModelsTypes DEF Callers, Prompt, Call
<1>2. UNCHANGED <<models, default, tasks, loaded, threads, channel, rest, starts, unspawned>>
  BY DEF Prompt, Call, rows
<1>3. /\ \A d \in Callers \ {c} : /\ does'[d] = does[d] /\ stage'[d] = stage[d]
                                  /\ request'[d] = request[d]
      /\ lock' = Append(lock, c)
  BY <1>1, ModelsTypes DEF Prompt, Call, Asks, Queue, Go
<1>4. MailRight'
  BY <1>1, <1>2, <1>3, MailUntouched DEF WritersAlone
<1> QED
  BY <1>1, <1>2, <1>3, <1>4, PrompterStep

(* Who is at the lock writes or asks.                                      *)
LEMMA AtTheLock ==
    ASSUME ModelsTyped, Programs, NEW c \in Callers, stage[c] \in Asking
    PROVE  does[c].op = "prompt" \/ c \in Writers
BY DEF Writers, Asking

LEMMA SendAlone ==
    ASSUME ModelsTyped, Programs, Mail, WritersAlone, ModelsTyped', Programs',
           NEW c \in Callers, Send(c)
    PROVE  WritersAlone'
<1>1. lock # <<>> /\ Head(lock) = c /\ stage[c] = "ask"
  BY DEF Send, Holds
<1>2. \A j \in DOMAIN threads : threads[j].inbox = <<>>
  BY <1>1 DEF Mail
<1>3. PICK m : m = Target(c)
  OBVIOUS
<1> DEFINE x == [threads[channel[m]] EXCEPT !.inbox = Append(@, [from |-> c, ask |-> request[c]])]
<1>4. /\ m \in Models /\ channel[m] \in DOMAIN threads
      /\ threads' = [threads EXCEPT ![channel[m]] = x] /\ threads[channel[m]] \in Thread
  BY <1>1, <1>3, ModelsTypes, TargetTyped DEF Send, Reachable, Asking
<1>5. /\ UNCHANGED <<models, default, tasks, loaded, channel, lock, does, request, rest, starts,
                     unspawned>>
      /\ stage' = [stage EXCEPT ![c] = "await"]
  BY DEF Send, AtLock, rows, Go
<1>6. /\ x \in Thread /\ x.model = threads[channel[m]].model /\ x.by = threads[channel[m]].by
      /\ x.phase = threads[channel[m]].phase /\ x.tasks = threads[channel[m]].tasks
  <2>1. request[c] \in Request
    BY ModelsTypes
  <2> QED
    BY <1>4, <2>1, MailAdded DEF Thread
<1>7. /\ DOMAIN threads' = DOMAIN threads
      /\ \A j \in DOMAIN threads :
            /\ threads'[j].model = threads[j].model /\ threads'[j].by = threads[j].by
            /\ threads'[j].phase = threads[j].phase /\ threads'[j].tasks = threads[j].tasks
            /\ j # channel[m] => threads'[j].inbox = <<>>
  <2> HIDE DEF x
  <2> QED
    BY <1>2, <1>4, <1>6, ModelsTypes, ThreadChanged
<1>8. MailRight'
  <2>1. Target(c)' = m
    BY <1>3, <1>5 DEF Target, Resolve, Stored
  <2>2. m # NoModel
    BY <1>4, IdsDiffer
  <2>3. Target(Head(lock))' = Target(c)'
    BY <1>1, <1>5 DEF Target
  <2> QED
    BY <1>5, <1>7, <2>1, <2>2, <2>3 DEF MailRight
<1>9. CASE does[c].op = "prompt"
  BY <1>5, <1>7, <1>8, <1>9, PrompterStep, ModelsTypes
<1>10. CASE c \in Writers
  <2>1. /\ \A d \in Callers \ {c} : d \notin Writers /\ does'[d] = does[d] /\ stage'[d] = stage[d]
        /\ stage'[c] = "await" /\ starts = {}
    BY <1>1, <1>5, <1>10, OthersIdle, OnlyWriter, ModelsTypes DEF WritersAlone, Loading
  <2>2. /\ TasksRead(c) /\ ModelsRead(c) /\ StartedBy(c)
        /\ \A k \in Models : ChannelRight(k) \/ Changing(c, k)
        /\ \A t \in Stored \ unspawned : Running(t) \/ Pending(c, t)
    BY <1>10, OthersIdle, OnlyWriter
  <2>3. AliveReached' /\ LoadedRight'
    <3>1. \A k \in Models : channel[k] # 0 => channel[k] \in DOMAIN threads
      BY ModelsTypes
    <3> QED
      BY <1>5, <1>7, <3>1 DEF WritersAlone, AliveReached, LoadedRight, Begun
  <2>4. Loading' /\ Down(c)'
    BY <1>1, <1>5, <1>7, <2>1, ModelsTypes DEF Loading, Down, WritersAlone
  <2>5. TasksRead(c)' /\ ModelsRead(c)'
    BY <1>1, <1>5, <2>1, <2>2
       DEF TasksRead, ModelsRead, About, Asking, Stored, Present, Starting, Resolve
  <2>6. \A d \in Callers : StartedBy(d)'
    BY <1>1, <1>5, <1>7, <2>1 DEF WritersAlone, CallsAsRead, StartedBy, About, Asking
  <2>7. \A k \in Models : ChannelRight(k)' \/ Changing(c, k)'
    BY <1>1, <1>5, <2>1, <2>2 DEF ChannelRight, Changing, Starting, About, Asking
  <2>8. ASSUME NEW t \in (Stored \ unspawned)'
        PROVE  Running(t)' \/ Pending(c, t)'
    <3>1. t \in Stored \ unspawned /\ t \in Tasks
      BY <1>5, <2>8 DEF Stored
    <3>2. Running(t) => Running(t)'
      <4>1. /\ ThreadOf(t)' = ThreadOf(t) /\ (ThreadOf(t) # 0 => ThreadOf(t) \in DOMAIN threads)
        BY <1>5, <3>1, ThreadOfTask DEF ThreadOf, Resolve, Stored
      <4> QED
        BY <1>5, <1>7, <4>1 DEF Running
    <3>3. Pending(c, t) => Pending(c, t)'
      BY <1>1, <1>5, <2>1 DEF Pending, About, Asking, Resolve
    <3> QED
      BY <2>2, <3>1, <3>2, <3>3
  <2> QED
    BY <1>8, <2>1, <2>3, <2>4, <2>5, <2>6, <2>7, <2>8, WriterStep
<1> QED
  BY <1>1, <1>9, <1>10, AtTheLock DEF Asking

LEMMA NotSentAlone ==
    ASSUME ModelsTyped, Programs, Mail, WritersAlone, ModelsTyped', Programs',
           NEW c \in Callers, NotSent(c)
    PROVE  WritersAlone'
<1>1. lock # <<>> /\ Head(lock) = c /\ stage[c] = "ask"
  BY DEF NotSent, Holds
<1>2. /\ UNCHANGED <<models, default, tasks, loaded, threads, channel, lock, does, request,
                     rest,
                     starts, unspawned>>
      /\ stage' = [stage EXCEPT ![c] = IF request[c].kind = "shutdown" THEN "ok" ELSE "err"]
  BY DEF NotSent, AtLock, rows, Go
<1>3. stage'[c] = IF request[c].kind = "shutdown" THEN "ok" ELSE "err"
  BY <1>2, ModelsTypes
<1>4. \A d \in Callers \ {c} : stage'[d] = stage[d] /\ does'[d] = does[d] /\ request'[d] = request[d]
  BY <1>2, ModelsTypes
<1>5. CASE does[c].op = "prompt"
  <2>1. MailRight'
    BY <1>1, <1>2, MailUntouched DEF WritersAlone
  <2> QED
    BY <1>2, <1>4, <1>5, <2>1, PrompterStep
<1>6. CASE c \in Writers
  <2>1. /\ TasksRead(c) /\ ModelsRead(c) /\ StartedBy(c)
        /\ \A k \in Models : ChannelRight(k) \/ Changing(c, k)
        /\ \A t \in Stored \ unspawned : Running(t) \/ Pending(c, t)
        /\ c # Loader => starts = {}
    BY <1>6, OthersIdle, OnlyWriter
  <2>2. Down(c)'
    <3>1. request[c].kind = "shutdown" => ~Reachable(request[c].on)
      BY DEF NotSent, Target
    <3> QED
      BY <1>2, <1>3, <3>1 DEF Down, Reachable
  <2>3. TasksRead(c)' /\ ModelsRead(c)' /\ StartedBy(c)'
    BY <1>1, <1>2, <1>3, <2>1
       DEF TasksRead, ModelsRead, StartedBy, About, Asking, Stored, Present, 
       Starting, Resolve
  <2>4. \A k \in Models : ChannelRight(k)' \/ Changing(c, k)'
    BY <1>1, <1>2, <1>3, <2>1 DEF ChannelRight, Changing, Starting, About, Asking
  <2>5. ASSUME NEW t \in (Stored \ unspawned)'
        PROVE  Running(t)' \/ Pending(c, t)'
    <3>1. t \in Stored \ unspawned
      BY <1>2, <2>5 DEF Stored
    <3>2. Running(t) => Running(t)'
      BY <1>2 DEF Running, ThreadOf, Resolve, Stored
    <3>3. Pending(c, t) => Pending(c, t)'
      <4>1. ~(request[c].kind = "shutdown" /\ request[c].kind = "spawn")
        OBVIOUS
      <4> QED
        BY <1>1, <1>2, <1>3, <4>1 DEF Pending, About, Asking, Resolve
    <3> QED
      BY <2>1, <3>1, <3>2, <3>3
  <2>6. stage[c] \notin {"read", "init", "insert"} /\ stage'[c] # "read"
    BY <1>1, <1>3
  <2> QED
    BY <1>1, <1>2, <1>4, <1>6, <2>2, <2>3, <2>4, <2>5, <2>6, CallGoes
<1> QED
  BY <1>1, <1>5, <1>6, AtTheLock DEF Asking

(* A call that is told that a thread is shut down forgets its channel.     *)
LEMMA Forgotten ==
    ASSUME ModelsTyped, Programs, WritersAlone, NEW m \in Models, ~Reachable(m),
           UNCHANGED <<loaded, threads>>, channel' = [channel EXCEPT ![m] = 0]
    PROVE  /\ (AliveReached /\ LoadedRight)' /\ channel'[m] = 0
           /\ \A k \in Models \ {m} : channel'[k] = channel[k]
<1>1. channel'[m] = 0 /\ \A k \in Models \ {m} : channel'[k] = channel[k]
  BY ModelsTypes
<1>2. m # NoModel
  BY IdsDiffer
<1>3. \A i \in DOMAIN threads : threads[i].phase \in Alive => threads[i].model \in Models \ {m}
  BY <1>2, ModelsTypes DEF WritersAlone, AliveReached, Reachable, Thread
<1>4. ~(loaded[m] /\ Begun(m))
  BY <1>2 DEF WritersAlone, LoadedRight, Reachable, Alive
<1> QED
  BY <1>1, <1>3, <1>4 DEF WritersAlone, AliveReached, LoadedRight, Begun

LEMMA RunningForgotten ==
    ASSUME ModelsTyped, NEW m \in Models, NEW t \in Tasks, UNCHANGED <<default, tasks,
           threads>>,
           channel'[m] = 0, \A k \in Models \ {m} : channel'[k] = channel[k], Running(t)
    PROVE  Running(t)'
<1>1. t \in Stored /\ Resolve(tasks[t].on) # NoModel => Resolve(tasks[t].on) \in Models
  BY PromptOn
<1>2. ThreadOf(t)' = 0 \/ ThreadOf(t)' = ThreadOf(t)
  BY <1>1 DEF ThreadOf, Resolve, Stored
<1> QED
  BY <1>2 DEF Running

LEMMA AnsweredAlone ==
    ASSUME ModelsTyped, Programs, Mail, WritersAlone, ModelsTyped', Programs',
           NEW c \in Callers, Answered(c)
    PROVE  WritersAlone'
<1>1. lock # <<>> /\ Head(lock) = c /\ stage[c] = "ok" /\ About(c, request[c].kind)
  BY DEF Answered, Holds, About, Asking
<1>2. /\ UNCHANGED <<models, default, tasks, loaded, threads, does, request, rest, starts,
                     unspawned>>
      /\ stage'[c] = Following(does[c].op, request[c].kind)
      /\ \A d \in Callers \ {c} : stage'[d] = stage[d] /\ does'[d] = does[d] /\ request'[d] = request[d]
      /\ channel' = IF request[c].kind = "shutdown"
                      THEN [channel EXCEPT ![request[c].on] = 0] ELSE channel
  BY ModelsTypes DEF Answered, AtLock, rows, Go
<1>3. CASE does[c].op = "prompt"
  <2>1. request[c].kind = "prompt"
    BY <1>1, <1>3, OperationAt DEF Asking, About, Looping
  <2>2. channel' = channel
    BY <1>2, <2>1
  <2>3. MailRight'
    BY <1>1, <1>2, <2>2, MailUntouched DEF WritersAlone
  <2> QED
    BY <1>2, <1>3, <2>2, <2>3, PrompterStep
<1>4. CASE c \in Writers
  <2>1. /\ TasksRead(c) /\ ModelsRead(c) /\ StartedBy(c) /\ Down(c)
        /\ \A k \in Models : ChannelRight(k) \/ Changing(c, k)
        /\ \A t \in Stored \ unspawned : Running(t) \/ Pending(c, t)
        /\ c # Loader => starts = {}
    BY <1>4, OthersIdle, OnlyWriter
  <2>2. CASE request[c].kind \in {"spawn", "remove"}
    <3>1. /\ channel' = channel /\ stage'[c] \in {"done", "next", "fetch", "erase"}
          /\ stage'[c] = "next" => request[c].kind = "spawn"
          /\ request[c].kind = "spawn" => stage'[c] \in {"done", "next"}
          /\ stage'[c] = "done" => does[c].op \in {"addTask", "updateTask"}
          /\ stage'[c] = "fetch" => does[c].op = "updateTask"
          /\ stage'[c] = "erase" => does[c].op = "deleteTask"
      BY <1>1, <1>2, <2>2, OperationAt DEF Following, Looping
    <3>2. does[c].op \in OfTasks => request[c].task = does[c].task
      BY <1>1, <2>2 DEF Programs, Program, About
    <3>3. Down(c)'
      BY <3>1 DEF Down
    <3>4. TasksRead(c)'
      BY <1>1, <1>2, <2>1, <2>2, <3>1, <3>2 DEF TasksRead, About, Asking, Stored, OfTasks
    <3>5. ModelsRead(c)'
      BY <1>1, <1>2, <2>1, <2>2, <3>1 DEF ModelsRead, About, Asking, Present
    <3>6. StartedBy(c)'
      BY <1>1, <1>2, <2>1, <2>2, <3>1 DEF StartedBy, About, Asking
    <3>7. ASSUME NEW k \in Models
          PROVE  ChannelRight(k)' \/ Changing(c, k)'
      <4>1. ~Changing(c, k)
        BY <1>1, <2>1, <2>2 DEF Changing, About, Asking, WritersAlone, Loading
      <4> QED
        BY <1>2, <2>1, <3>1, <4>1 DEF ChannelRight
    <3>8. ASSUME NEW t \in (Stored \ unspawned)'
          PROVE  Running(t)' \/ Pending(c, t)'
      <4>1. t \in Stored \ unspawned
        BY <1>2, <3>8 DEF Stored
      <4>2. Running(t) => Running(t)'
        BY <1>2, <3>1 DEF Running, ThreadOf, Resolve, Stored
      <4>3. Pending(c, t) => Pending(c, t)'
        <5>1. CASE request[c].kind = "spawn"
          <6>1. does[c].op # "deleteTask"
            BY <1>1, <5>1, OperationAt DEF Looping
          <6>2. Pending(c, t) => tasks[t] \in rest[c]
            BY <1>1, <5>1, <6>1 DEF Pending, About
          <6> QED
            BY <1>2, <6>2 DEF Pending
        <5>2. CASE request[c].kind = "remove"
          <6>1. does[c].op \in {"updateTask", "deleteTask"}
            BY <1>1, <5>2, OperationAt
          <6>2. rest[c] = {} /\ stage'[c] = IF does[c].op = "updateTask" THEN "fetch" ELSE "erase"
            BY <1>2, <5>2, <6>1 DEF Following, Programs, Program, Looping
          <6>3. Pending(c, t) => does[c].task = t
            BY <1>1, <5>2, <6>1, <6>2 DEF Pending, About
          <6> QED
            BY <1>2, <6>1, <6>2, <6>3 DEF Pending
        <5> QED
          BY <2>2, <5>1, <5>2
      <4> QED
        BY <2>1, <4>1, <4>2, <4>3
    <3>9. stage[c] \notin {"read", "init", "insert"} /\ stage'[c] # "read"
      BY <1>1, <3>1
    <3> QED
      BY <1>1, <1>2, <1>4, <3>1, <3>3, <3>4, <3>5, <3>6, <3>7, <3>8, <3>9, CallGoes
  <2>3. CASE request[c].kind = "shutdown"
    <3> DEFINE m == does[c].model
    <3>1. /\ request[c].on = m /\ m \in Models /\ does[c].op \in {"updateModel", "removeModel"}
          /\ c # Loader /\ rest[c] = {}
      BY <1>1, <2>3, OperationAt DEF Programs, Program, About, OfModels, Loader
    <3>2. ~Reachable(m)
      BY <1>1, <2>1, <2>3, <3>1 DEF Down
    <3>3. /\ (AliveReached /\ LoadedRight)' /\ channel'[m] = 0
          /\ \A k \in Models \ {m} : channel'[k] = channel[k]
      BY <1>2, <2>3, <3>1, <3>2, Forgotten
    <3>4. stage'[c] = IF does[c].op = "updateModel" THEN "start" ELSE "erase"
      BY <1>2, <2>3 DEF Following
    <3>5. Down(c)' /\ TasksRead(c)'
      BY <1>2, <3>1, <3>4 DEF Down, TasksRead, About, Asking
    <3>6. ModelsRead(c)'
      BY <1>1, <1>2, <2>1, <2>3, <3>1, <3>3, <3>4 DEF ModelsRead, About, Asking, Present
    <3>7. StartedBy(c)'
      BY <1>1, <1>2, <2>1, <2>3, <3>1, <3>4 DEF StartedBy, About, Asking
    <3>8. ASSUME NEW k \in Models
          PROVE  ChannelRight(k)' \/ Changing(c, k)'
      <4>1. k = m => Changing(c, k)'
        BY <1>2, <3>1, <3>4 DEF Changing
      <4>2. k # m => ~Changing(c, k) /\ channel'[k] = channel[k]
        BY <1>1, <2>3, <3>1, <3>3 DEF Changing
      <4> QED
        BY <1>2, <2>1, <4>1, <4>2 DEF ChannelRight
    <3>9. ASSUME NEW t \in (Stored \ unspawned)'
          PROVE  Running(t)' \/ Pending(c, t)'
      <4>1. t \in Stored \ unspawned /\ t \in Tasks
        BY <1>2, <3>9 DEF Stored
      <4>2. Running(t) => Running(t)'
        BY <1>2, <3>1, <3>3, <4>1, RunningForgotten
      <4>3. ~Pending(c, t)
        BY <1>1, <2>3, <3>1 DEF Pending, About, Asking
      <4> QED
        BY <2>1, <4>1, <4>2, <4>3
    <3>10. stage[c] \notin {"read", "init", "insert"} /\ stage'[c] # "read"
      BY <1>1, <3>4
    <3> QED
      BY <1>1, <1>2, <1>4, <3>3, <3>5, <3>6, <3>7, <3>8, <3>9, <3>10, CallGoes
  <2>4. CASE request[c].kind = "prompt"
    BY <1>1, <1>4, <2>4, OperationAt DEF Writers
  <2> QED
    BY <1>1, <2>2, <2>3, <2>4, OperationAt DEF About
<1> QED
  BY <1>1, <1>3, <1>4, AtTheLock DEF Asking

LEMMA RefusedAlone ==
    ASSUME ModelsTyped, Programs, Mail, WritersAlone, ModelsTyped', Programs',
           NEW c \in Callers, Refused(c)
    PROVE  WritersAlone'
<1>1. lock # <<>> /\ Head(lock) = c /\ stage[c] = "err" /\ About(c, request[c].kind)
  BY DEF Refused, Holds, About, Asking
<1>2. /\ UNCHANGED <<models, default, tasks, loaded, threads, does, request, starts>>
      /\ \A d \in Callers \ {c} : stage'[d] = stage[d] /\ does'[d] = does[d] /\ request'[d] = request[d]
  BY ModelsTypes DEF Refused, AtLock, rows, Go
<1>3. CASE does[c].op = "prompt"
  <2>1. request[c].kind = "prompt"
    BY <1>1, <1>3, OperationAt DEF Asking, About, Looping
  <2>2. rest[c] = {}
    BY <1>3 DEF Programs, Program, Looping
  <2>3. UNCHANGED <<channel, rest, unspawned>>
    <3>1. UNCHANGED <<channel, unspawned>> /\ rest' = [rest EXCEPT ![c] = {}]
      BY <1>3, <2>1 DEF Refused
    <3> QED
      BY <2>2, <3>1, ModelsTypes
  <2>4. MailRight'
    BY <1>1, <1>2, <2>3, MailUntouched DEF WritersAlone
  <2> QED
    BY <1>2, <1>3, <2>3, <2>4, PrompterStep
<1>4. CASE c \in Writers
  <2>1. /\ TasksRead(c) /\ ModelsRead(c) /\ StartedBy(c) /\ Down(c)
        /\ \A k \in Models : ChannelRight(k) \/ Changing(c, k)
        /\ \A t \in Stored \ unspawned : Running(t) \/ Pending(c, t)
        /\ c # Loader => starts = {}
    BY <1>4, OthersIdle, OnlyWriter
  <2>2. CASE request[c].kind \in {"spawn", "remove"}
    <3>1. channel' = channel /\ stage'[c] = "done" /\ rest'[c] = {}
      BY <2>2, ModelsTypes DEF Refused, Go
    <3>2. /\ unspawned \subseteq unspawned'
          /\ does[c].op # "deleteTask" =>
                request[c].task \in unspawned' /\ {r.task : r \in rest[c]} \subseteq unspawned'
      BY <1>4, <2>2 DEF Refused, GiveUp, Writers
    <3>3. Down(c)' /\ TasksRead(c)' /\ ModelsRead(c)'
      BY <3>1 DEF Down, TasksRead, ModelsRead, About, Asking
    <3>4. StartedBy(c)'
      BY <1>1, <1>2, <2>1, <2>2, <3>1 DEF StartedBy, About, Asking
    <3>5. ASSUME NEW k \in Models
          PROVE  ChannelRight(k)' \/ Changing(c, k)'
      <4>1. ~Changing(c, k)
        BY <1>1, <2>1, <2>2 DEF Changing, About, Asking, WritersAlone, Loading
      <4> QED
        BY <1>2, <2>1, <3>1, <4>1 DEF ChannelRight
    <3>6. ASSUME NEW t \in (Stored \ unspawned)'
          PROVE  Running(t)' \/ Pending(c, t)'
      <4>1. t \in Stored \ unspawned /\ t \notin unspawned'
        BY <1>2, <3>2, <3>6 DEF Stored
      <4>2. Running(t) => Running(t)'
        BY <1>2, <3>1 DEF Running, ThreadOf, Resolve, Stored
      <4>3. ASSUME Pending(c, t)
            PROVE  FALSE
        <5>1. does[c].op # "deleteTask" =>
                  (tasks[t].task # t /\ tasks[t] \in rest[c]) \/ tasks[t] \notin rest[c]
          BY <3>2, <4>1
        <5>2. tasks[t].task = t
          BY <4>1, RowsAsked
        <5>3. does[c].op = "deleteTask" => tasks[t] \notin rest[c]
          BY DEF Programs, Program, Looping
        <5>4. does[c].op = "updateTask" => request[c].task = does[c].task
          BY <1>1, <2>2 DEF Programs, Program, About, OfTasks
        <5> QED
          BY <1>1, <2>2, <3>2, <4>1, <4>3, <5>1, <5>2, <5>3, <5>4, OperationAt
             DEF Pending, About, Asking, Looping
      <4> QED
        BY <2>1, <4>1, <4>2, <4>3
    <3>7. stage[c] \notin {"read", "init", "insert"} /\ stage'[c] # "read"
      BY <1>1, <3>1
    <3> QED
      BY <1>1, <1>2, <1>4, <3>1, <3>3, <3>4, <3>5, <3>6, <3>7, CallGoes
  <2>3. CASE request[c].kind = "shutdown"
    <3> DEFINE m == does[c].model
    <3>1. /\ request[c].on = m /\ m \in Models /\ does[c].op \in {"updateModel", "removeModel"}
          /\ c # Loader /\ rest[c] = {} /\ rest' = rest /\ unspawned' = unspawned
      BY <1>1, <2>3, OperationAt DEF Programs, Program, About, OfModels, Loader, Refused
    <3>2. ~Reachable(m)
      BY <1>1, <2>1, <2>3, <3>1 DEF Down
    <3>3. /\ (AliveReached /\ LoadedRight)' /\ channel'[m] = 0
          /\ \A k \in Models \ {m} : channel'[k] = channel[k]
      BY <1>2, <2>3, <3>1, <3>2, Forgotten DEF Refused
    <3>4. stage'[c] = IF does[c].op = "updateModel" THEN "start" ELSE "erase"
      BY <2>3, ModelsTypes DEF Following, Refused, Go
    <3>5. Down(c)' /\ TasksRead(c)'
      BY <1>2, <3>1, <3>4 DEF Down, TasksRead, About, Asking
    <3>6. ModelsRead(c)'
      BY <1>1, <1>2, <2>1, <2>3, <3>1, <3>3, <3>4 DEF ModelsRead, About, Asking, Present
    <3>7. StartedBy(c)'
      BY <1>1, <1>2, <2>1, <2>3, <3>1, <3>4 DEF StartedBy, About, Asking
    <3>8. ASSUME NEW k \in Models
          PROVE  ChannelRight(k)' \/ Changing(c, k)'
      <4>1. k = m => Changing(c, k)'
        BY <1>2, <3>1, <3>4 DEF Changing
      <4>2. k # m => ~Changing(c, k) /\ channel'[k] = channel[k]
        BY <1>1, <2>3, <3>1, <3>3 DEF Changing
      <4> QED
        BY <1>2, <2>1, <4>1, <4>2 DEF ChannelRight
    <3>9. ASSUME NEW t \in (Stored \ unspawned)'
          PROVE  Running(t)' \/ Pending(c, t)'
      <4>1. t \in Stored \ unspawned /\ t \in Tasks
        BY <1>2, <3>1, <3>9 DEF Stored
      <4>2. Running(t) => Running(t)'
        BY <1>2, <3>1, <3>3, <4>1, RunningForgotten
      <4>3. ~Pending(c, t)
        BY <1>1, <2>3, <3>1 DEF Pending, About, Asking
      <4> QED
        BY <2>1, <4>1, <4>2, <4>3
    <3>10. stage[c] \notin {"read", "init", "insert"} /\ stage'[c] # "read"
      BY <1>1, <3>4
    <3> QED
      BY <1>1, <1>2, <1>4, <3>3, <3>5, <3>6, <3>7, <3>8, <3>9, <3>10, CallGoes
  <2>4. CASE request[c].kind = "prompt"
    BY <1>1, <1>4, <2>4, OperationAt DEF Writers
  <2> QED
    BY <1>1, <2>2, <2>3, <2>4, OperationAt DEF About
<1> QED
  BY <1>1, <1>3, <1>4, AtTheLock DEF Asking

LEMMA InsertAlone ==
    ASSUME ModelsTyped, Programs, Mail, WritersAlone, ModelsTyped', Programs',
           NEW c \in Callers, Insert(c)
    PROVE  WritersAlone'
<1>1. lock # <<>> /\ Head(lock) = c /\ stage[c] = "insert"
  BY DEF Insert, Holds
<1>2. /\ does[c].op \in {"load", "addModel", "updateModel"} /\ c \in Writers
      /\ c = Loader <=> does[c].op = "load"
  BY <1>1, OperationAt DEF Writers
<1>3. /\ \A d \in Callers \ {c} : d \notin Writers
      /\ TasksRead(c) /\ ModelsRead(c) /\ StartedBy(c)
      /\ \A k \in Models : ChannelRight(k) \/ Changing(c, k)
      /\ \A t \in Stored \ unspawned : Running(t) \/ Pending(c, t)
      /\ c # Loader => starts = {}
  BY <1>2, OthersIdle, OnlyWriter
<1>4. PICK m \in Models : m = Starting(c)
  BY <1>1, <1>2 DEF Starting, Programs, Program, OfModels
<1>5. PICK n : n = Len(threads) + 1
  OBVIOUS
<1> DEFINE x == Spawned(c, m)
<1>6. /\ x.model = m /\ x.by = c /\ x.phase = "spawned" /\ x.inbox = <<>>
      /\ x.tasks = [t \in Tasks |-> 0] /\ x \in Thread
  BY <1>4, EmptyInbox DEF Spawned, Thread
<1>7. /\ UNCHANGED <<models, default, tasks, loaded, starts, does, request, rest, unspawned>>
      /\ threads' = Append(threads, x) /\ channel' = [channel EXCEPT ![m] = n]
      /\ stage'[c] = CASE does[c].op = "addModel"    -> "done"
                       [] does[c].op = "updateModel" -> "ready"
                       [] does[c].op = "load"        -> "init"
      /\ \A d \in Callers \ {c} : stage'[d] = stage[d] /\ does'[d] = does[d]
  BY <1>4, <1>5, ModelsTypes DEF Insert, Calling, rows, Go, Fresh, Starting
<1>8. /\ DOMAIN threads' = DOMAIN threads \cup {n} /\ threads'[n] = x /\ n \notin DOMAIN threads
      /\ \A j \in DOMAIN threads : threads'[j] = threads[j]
      /\ channel'[m] = n /\ n # 0 /\ \A k \in Models \ {m} : channel'[k] = channel[k]
  <2> HIDE DEF x
  <2>1. threads \in Seq(Thread) /\ Len(threads) \in Nat /\ DOMAIN threads = 1 .. Len(threads)
    BY ModelsTypes
  <2> QED
    BY <1>5, <1>6, <1>7, <2>1, ThreadAdded, ModelsTypes
<1>9. channel[m] = 0 /\ models[m] = "whole" /\ \A i \in DOMAIN threads : threads[i].by = c => c = Loader
  BY <1>1, <1>3, <1>4 DEF ModelsRead, StartedBy, About, Asking
<1> HIDE DEF x
<1>10. MailRight'
  <2>1. \A j \in DOMAIN threads : threads[j].inbox = <<>>
    BY <1>1 DEF Mail
  <2> QED
    BY <1>6, <1>8, <2>1 DEF MailRight
<1>11. AliveReached'
  <2>1. \A i \in DOMAIN threads : threads[i].phase \in Alive => threads[i].model \in Models \ {m}
    BY <1>9, ModelsTypes DEF WritersAlone, AliveReached, Thread
  <2> QED
    BY <1>6, <1>8, <2>1 DEF WritersAlone, AliveReached
<1>12. LoadedRight'
  <2>1. ~(loaded[m] /\ Begun(m))
    BY <1>9 DEF WritersAlone, LoadedRight
  <2>2. \A k \in Models : Begun(k)' => Begun(k)
    BY <1>6, <1>8 DEF Begun
  <2>3. \A k \in Models : channel[k] # 0 => channel[k] \in DOMAIN threads
    BY ModelsTypes
  <2> QED
    BY <1>7, <1>8, <2>1, <2>2, <2>3 DEF WritersAlone, LoadedRight
<1>13. Loading'
  <2>1. \A s \in starts : s[1] # m
    BY <1>1, <1>3, <1>4, <1>9 DEF WritersAlone, Loading, Starting, Present
  <2>2. /\ starts \subseteq {<<k, models[k]>> : k \in Present} /\ \A s \in starts : channel[s[1]] = 0
    BY DEF WritersAlone, Loading
  <2>3. \A s \in starts : s[1] \in Models
    BY <2>2 DEF Present
  <2>4. stage'[Loader] # "read" /\ stage'[Loader] # "insert" /\ Loader \in Callers
    <3>1. Loader \in Callers
      BY DEF Callers
    <3>2. CASE c = Loader
      BY <1>2, <1>7, <3>1, <3>2
    <3>3. CASE c # Loader
      <4>1. Loader \notin Writers /\ stage'[Loader] = stage[Loader]
        BY <1>3, <1>7, <3>1, <3>3
      <4> QED
        BY <3>1, <4>1, OperationAt DEF Writers
    <3> QED
      BY <3>1, <3>2, <3>3
  <2>5. starts # {} => c = Loader
    BY <1>3
  <2>6. c = Loader => stage'[c] = "init"
    BY <1>2, <1>7
  <2>7. \A s \in starts : channel'[s[1]] = 0
    BY <1>8, <2>1, <2>2, <2>3
  <2>8. Present' = Present /\ starts' = starts
    BY <1>7 DEF Present
  <2>9. starts' \subseteq {<<k, models'[k]>> : k \in Present'}
    BY <1>7, <2>2, <2>8
  <2> QED
    BY <2>4, <2>5, <2>6, <2>7, <2>8, <2>9 DEF Loading
<1>14. Down(c)' /\ TasksRead(c)' /\ ModelsRead(c)'
  <2>1. /\ stage'[c] \in {"done", "ready", "init"}
        /\ stage'[c] = "ready" <=> does[c].op = "updateModel"
    BY <1>2, <1>7
  <2>2. rest[c] = {}
    BY <1>1 DEF Programs, Program, About, Asking
  <2>3. does[c].op = "updateModel" => does[c].model \in Present
    BY <1>1, <1>3 DEF ModelsRead
  <2> QED
    BY <1>2, <1>7, <2>1, <2>2, <2>3 DEF Down, TasksRead, ModelsRead, About, Asking, Present
<1>15. ASSUME NEW d \in Callers
       PROVE  StartedBy(d)'
  <2>1. CASE d = c
    <3>1. c # Loader => does[c].op \in {"addModel", "updateModel"}
      BY <1>2
    <3>2. c # Loader => m = does[c].model
      BY <1>4 DEF Starting
    <3>3. c # Loader => /\ stage'[c] \in {"done", "ready"}
      BY <1>7, <3>1
    <3> QED
      BY <1>7, <1>8, <1>9, <2>1, <3>1, <3>2, <3>3 DEF StartedBy
  <2>2. CASE d # c
    <3>1. stage[d] # "ready"
      BY <1>3, <2>2, OperationAt DEF Writers
    <3>2. StartedBy(d)
      BY DEF WritersAlone, CallsAsRead
    <3> QED
      BY <1>6, <1>7, <1>8, <2>2, <3>1, <3>2 DEF StartedBy, About
  <2> QED
    BY <2>1, <2>2
<1>16. ASSUME NEW k \in Models
       PROVE  ChannelRight(k)' \/ Changing(c, k)'
  <2>1. CASE k = m
    BY <1>7, <1>8, <1>9, <2>1 DEF ChannelRight
  <2>2. CASE k # m
    <3>1. Changing(c, k) => c = Loader /\ <<k, "whole">> \in starts
      BY <1>1, <1>4, <2>2 DEF Changing, About, Asking
    <3>2. Changing(c, k) => Changing(c, k)'
      BY <1>7, <3>1 DEF Changing
    <3> QED
      BY <1>3, <1>7, <1>8, <2>2, <3>2 DEF ChannelRight
  <2> QED
    BY <2>1, <2>2
<1>17. ASSUME NEW t \in (Stored \ unspawned)'
       PROVE  Running(t)' \/ Pending(c, t)'
  <2>1. t \in Stored \ unspawned /\ t \in Tasks
    BY <1>7, <1>17 DEF Stored
  <2>2. CASE Resolve(tasks[t].on) = m
    <3>1. does[c].op = "addModel" => FALSE
      BY <1>1, <1>2, <1>3, <1>4, <2>1, <2>2 DEF ModelsRead, Starting
    <3>2. CASE does[c].op = "updateModel"
      <4>1. stage'[c] = "ready" /\ m = does[c].model
        BY <1>2, <1>4, <1>7, <3>2 DEF Starting
      <4> QED
        BY <1>7, <2>2, <3>2, <4>1 DEF Pending, Resolve
    <3>3. CASE does[c].op = "load"
      BY <1>2, <1>7, <3>3 DEF Pending
    <3> QED
      BY <1>2, <3>1, <3>2, <3>3
  <2>3. CASE Resolve(tasks[t].on) # m
    <3>1. Running(t) => Running(t)'
      <4>1. ThreadOf(t)' = ThreadOf(t)
        BY <1>7, <1>8, <2>1, <2>3, PromptOn DEF ThreadOf, Resolve, Stored
      <4>2. ThreadOf(t) # 0 => ThreadOf(t) \in DOMAIN threads
        BY <2>1, ThreadOfTask
      <4> QED
        BY <1>7, <1>8, <4>1, <4>2 DEF Running
    <3>2. CASE does[c].op = "load"
      BY <1>2, <1>7, <3>2 DEF Pending
    <3>3. CASE does[c].op # "load"
      <4>1. tasks[t] \notin rest[c]
        BY <1>1 DEF Programs, Program, About, Asking
      <4>2. ~Pending(c, t)
        BY <1>1, <1>2, <3>3, <4>1 DEF Pending, About, Asking
      <4> QED
        BY <1>3, <2>1, <3>1, <4>2
    <3> QED
      BY <3>2, <3>3
  <2> QED
    BY <2>2, <2>3
<1> QED
  BY <1>3, <1>7, <1>10, <1>11, <1>12, <1>13, <1>14, <1>15, <1>16, <1>17, WriterStep

-----------------------------------------------------------------------------
(* The threads' steps.                                                     *)
LEMMA ThreadAlone ==
    ASSUME ModelsTyped, Programs, Mail, WritersAlone, ModelsTyped', Programs',
           NEW i \in DOMAIN threads, NEW x, Becomes(i, x),
           x.phase \in Alive => threads[i].phase \in Alive,
           loaded'[x.model] = FALSE \/ x.phase = "ready",
           stage' # stage /\ request[Head(lock)].kind = "shutdown" => x.phase \notin Alive,
           TasksSpawned'
    PROVE  WritersAlone'
<1>1. /\ UNCHANGED <<models, default, tasks, channel, lock, does, request, rest, starts>>
      /\ unspawned' \subseteq unspawned
      /\ x.model = threads[i].model /\ x.by = threads[i].by
      /\ \A m \in Models \ {x.model} : loaded'[m] = loaded[m]
  BY DEF Becomes, Threading, rows
<1>2. /\ DOMAIN threads' = DOMAIN threads /\ threads'[i] = x
      /\ \A j \in DOMAIN threads \ {i} : threads'[j] = threads[j]
  BY ModelsTypes, ThreadChanged DEF Becomes
<1>3. \A d \in Callers :
         \/ stage'[d] = stage[d]
         \/ d = Head(lock) /\ stage[d] = "await" /\ stage'[d] \in {"ok", "err"} /\ stage' # stage
            /\ threads[i].inbox # <<>>
  <2>1. CASE threads[i].inbox # <<>> /\ \E s \in {"ok", "err"} : stage' = [stage EXCEPT ![Head(lock)] = s]
    BY <2>1, MailIs, ModelsTypes
  <2> QED
    BY <2>1 DEF Becomes
<1>4. OneWriter'
  <2>1. Writers' = Writers
    BY <1>1, <1>3 DEF Writers
  <2> QED
    BY <2>1 DEF WritersAlone, OneWriter
<1>5. MailRight'
  <2>1. CASE x.inbox = threads[i].inbox
    <3>1. Target(Head(lock))' = Target(Head(lock))
      BY <1>1 DEF Target, Resolve, Stored
    <3> QED
      BY <1>1, <1>2, <2>1, <3>1 DEF WritersAlone, MailRight
  <2>2. CASE threads[i].inbox # <<>> /\ x.inbox = <<>>
    BY <1>2, <2>2, MailIs DEF MailRight
  <2> QED
    BY <2>1, <2>2 DEF Becomes
<1>6. AliveReached'
  BY <1>1, <1>2 DEF WritersAlone, AliveReached
<1>7. LoadedRight'
  <2>1. ASSUME NEW m \in Models, loaded'[m], Begun(m)'
        PROVE  channel'[m] # 0 /\ threads'[channel'[m]].phase = "ready"
    <3>1. CASE m # x.model
      <4>1. Begun(m) /\ loaded[m]
        BY <1>1, <1>2, <2>1, <3>1 DEF Begun
      <4>2. channel[m] # 0 /\ channel[m] # i /\ channel[m] \in DOMAIN threads
            /\ threads[channel[m]].phase = "ready"
        BY <1>1, <3>1, <4>1, ModelsTypes DEF WritersAlone, LoadedRight
      <4> QED
        BY <1>1, <1>2, <4>2
    <3>2. CASE m = x.model
      <4>1. x.phase = "ready"
        BY <2>1, <3>2
      <4>2. threads[i].phase \in Alive
        BY <4>1 DEF Alive
      <4>3. channel[m] = i /\ i # 0
        BY <1>1, <3>2, <4>2, ModelsTypes DEF WritersAlone, AliveReached
      <4> QED
        BY <1>1, <1>2, <4>1, <4>3
    <3> QED
      BY <3>1, <3>2
  <2> QED
    BY <2>1 DEF LoadedRight
<1>8. CallsAsRead'
  <2> SUFFICES ASSUME NEW d \in Callers
               PROVE  (Down(d) /\ TasksRead(d) /\ ModelsRead(d) /\ StartedBy(d))'
    BY DEF CallsAsRead
  <2>1. Down(d) /\ TasksRead(d) /\ ModelsRead(d) /\ StartedBy(d)
    BY DEF WritersAlone, CallsAsRead
  <2>2. \A k \in {"spawn", "remove", "shutdown"} : About(d, k)' <=> About(d, k)
    BY <1>1, <1>3 DEF About, Asking
  <2>3. \A s \in {"idle", "done", "fetch", "erase", "start", "insert", "ready", "list", "next"} :
            stage'[d] = s <=> stage[d] = s
    BY <1>3
  <2>4. Down(d)'
    <3>1. ASSUME stage'[d] \in {"ok", "err"}, request[d].kind = "shutdown"
          PROVE  ~Reachable(request[d].on)'
      <4>1. \A m : channel[m] # 0 /\ m \in Models => channel[m] \in DOMAIN threads
        BY ModelsTypes
      <4>2. request[d].on \in Models
        BY <1>3, <3>1, OperationAt DEF About, Asking, Programs, Program, OfModels
      <4>3. CASE stage'[d] = stage[d]
        BY <1>1, <1>2, <2>1, <3>1, <4>1, <4>2, <4>3 DEF Down, Reachable
      <4>4. CASE stage'[d] # stage[d]
        <5>1. /\ d = Head(lock) /\ threads[i].inbox # <<>> /\ x.phase \notin Alive
          BY <1>3, <3>1, <4>4
        <5>2. Target(d) = request[d].on
          BY <3>1 DEF Target
        <5>3. i = channel[request[d].on]
          BY <5>1, <5>2 DEF WritersAlone, MailRight
        <5> QED
          BY <1>1, <1>2, <5>1, <5>3 DEF Reachable
      <4> QED
        BY <4>3, <4>4
    <3> QED
      BY <1>1, <3>1 DEF Down
  <2>5. TasksRead(d)'
    BY <1>1, <2>1, <2>2, <2>3 DEF TasksRead, Stored
  <2>6. ModelsRead(d)'
    BY <1>1, <2>1, <2>2, <2>3 DEF ModelsRead, Stored, Present, Starting, Resolve
  <2>7. StartedBy(d)'
    BY <1>1, <1>2, <2>1, <2>2, <2>3 DEF StartedBy
  <2> QED
    BY <2>4, <2>5, <2>6, <2>7
<1>9. Loading'
  <2>1. \A s \in {"read", "init", "insert"} : stage'[Loader] = s <=> stage[Loader] = s
    BY <1>3 DEF Callers
  <2>2. threads # <<>>
    BY ModelsTypes
  <2> QED
    BY <1>1, <2>1, <2>2 DEF WritersAlone, Loading, Present
<1>10. ChannelsRight'
  <2>1. \A d \in Callers, m \in Models : Changing(d, m) => Changing(d, m)'
    BY <1>1, <1>3 DEF Changing, About, Asking, Starting
  <2>2. \A m \in Models : ChannelRight(m)' <=> ChannelRight(m)
    BY <1>1 DEF ChannelRight
  <2> QED
    BY <2>1, <2>2 DEF WritersAlone, ChannelsRight
<1> QED
  BY <1>4, <1>5, <1>6, <1>7, <1>8, <1>9, <1>10 DEF WritersAlone

(* What the tasks of a thread that changes are: for the others nothing     *)
(* changes.                                                                *)
LEMMA TasksKept ==
    ASSUME ModelsTyped, Mail, WritersAlone, NEW i \in DOMAIN threads, NEW x, Becomes(i, x),
           \A t \in Tasks :
               /\ \A d \in Callers : Pending(d, t) => Pending(d, t)' \/ Running(t)'
               /\ ThreadOf(t) = i /\ Running(t)
                     => Running(t)' \/ \E d \in Callers : Pending(d, t)',
           unspawned' = unspawned
    PROVE  TasksSpawned'
<1>1. /\ UNCHANGED <<models, default, tasks, channel>>
  BY DEF Becomes, Threading, rows
<1>2. /\ DOMAIN threads' = DOMAIN threads
      /\ \A j \in DOMAIN threads \ {i} : threads'[j] = threads[j]
  BY ModelsTypes, ThreadChanged DEF Becomes
<1>3. ASSUME NEW t \in (Stored \ unspawned)'
      PROVE  Running(t)' \/ \E d \in Callers : Pending(d, t)'
  <2>1. t \in Stored \ unspawned /\ t \in Tasks
    BY <1>1, <1>3 DEF Stored
  <2>2. Running(t) \/ \E d \in Callers : Pending(d, t)
    BY <2>1 DEF WritersAlone, TasksSpawned
  <2>3. ThreadOf(t)' = ThreadOf(t) /\ (ThreadOf(t) # 0 => ThreadOf(t) \in DOMAIN threads)
    BY <1>1, <2>1, ThreadOfTask DEF ThreadOf, Resolve, Stored
  <2>4. Running(t) /\ ThreadOf(t) # i => Running(t)'
    BY <1>1, <1>2, <2>3 DEF Running
  <2>5. Loader \in Callers
    BY DEF Callers
  <2> QED
    BY <2>1, <2>2, <2>4, <2>5
<1> QED
  BY <1>3 DEF TasksSpawned

(* What is pending stays so, but for what is spawned and for a task that   *)
(* cannot be removed.                                                      *)
LEMMA PendingStays ==
    ASSUME ModelsTyped, Programs, Mail, NEW i \in DOMAIN threads, NEW x, Becomes(i, x),
           NEW d \in Callers, NEW t \in Tasks, Pending(d, t)
    PROVE  \/ Pending(d, t)'
           \/ /\ threads[i].inbox # <<>> /\ d = Head(lock) /\ stage' # stage
              /\ request[d].task = t
              /\ \/ stage'[d] = "ok" /\ request[d].kind = "spawn"
                 \/ stage'[d] = "err" /\ request[d].kind = "remove"
<1>1. UNCHANGED <<default, tasks, does, request, rest>>
  BY DEF Becomes, Threading, rows
<1>2. CASE stage'[d] = stage[d]
  BY <1>1, <1>2 DEF Pending, About, Resolve
<1>3. CASE stage'[d] # stage[d]
  <2>1. /\ threads[i].inbox # <<>> /\ stage' # stage
        /\ \E s \in {"ok", "err"} : stage' = [stage EXCEPT ![Head(lock)] = s]
    BY <1>3 DEF Becomes
  <2>2. d = Head(lock) /\ stage[d] = "await" /\ stage'[d] \in {"ok", "err"}
    BY <1>3, <2>1, MailIs, ModelsTypes
  <2>3. CASE tasks[t] \in rest[d]
    BY <1>1, <2>3 DEF Pending
  <2>4. CASE About(d, "spawn") /\ request[d].task = t
    BY <1>1, <2>1, <2>2, <2>4 DEF Pending, About, Asking
  <2>5. CASE does[d].op = "updateTask" /\ does[d].task = t /\ About(d, "remove")
    BY <1>1, <2>2, <2>5 DEF Pending, About, Asking
  <2>6. CASE does[d].op = "deleteTask" /\ does[d].task = t
    <3>1. request[d].kind = "remove"
      BY <2>2, <2>6 DEF Programs, Program, AskedBy, Asking
    <3>2. request[d].task = t
      BY <2>2, <2>6, <3>1 DEF Programs, Program, About, Asking, OfTasks
    <3> QED
      BY <1>1, <2>1, <2>2, <2>6, <3>1, <3>2 DEF Pending
  <2> QED
    BY <2>2, <2>3, <2>4, <2>5, <2>6 DEF Pending
<1> QED
  BY <1>2, <1>3

(* The task that a thread is asked to spawn or to remove is one of its     *)
(* model, as it is stored.                                                 *)
LEMMA MailOf ==
    ASSUME ModelsTyped, Programs, Mail, WritersAlone, NEW i \in DOMAIN threads,
           threads[i].inbox # <<>>, request[Head(lock)].kind \in {"spawn", "remove"}
    PROVE  /\ request[Head(lock)].task \in Stored /\ request[Head(lock)].task \in Tasks
           /\ ThreadOf(request[Head(lock)].task) = i
           /\ request[Head(lock)].kind = "spawn" =>
                 tasks[request[Head(lock)].task].text = request[Head(lock)].text
<1>1. PICK c \in Callers : c = Head(lock) /\ stage[c] = "await"
  BY MailIs
<1>2. TasksRead(c) /\ About(c, request[c].kind)
  BY <1>1 DEF WritersAlone, CallsAsRead, About, Asking
<1>3. /\ request[c].task \in Stored
      /\ request[c].kind = "spawn" => /\ tasks[request[c].task].on = request[c].on
                                      /\ tasks[request[c].task].text = request[c].text
  BY <1>1, <1>2 DEF TasksRead
<1>4. Target(c) = Resolve(tasks[request[c].task].on)
  BY <1>1, <1>3 DEF Target
<1>5. Target(c) # NoModel /\ i = channel[Target(c)]
  BY <1>1 DEF WritersAlone, MailRight
<1>6. ThreadOf(request[c].task) = i /\ request[c].task \in Tasks
  BY <1>3, <1>4, <1>5 DEF ThreadOf, Stored
<1> QED
  BY <1>1, <1>3, <1>6

(* A thread whose tasks stay, or that is no more alive.                    *)
LEMMA SameTasks ==
    ASSUME ModelsTyped, Programs, Mail, WritersAlone, NEW i \in DOMAIN threads, NEW x,
           Becomes(i, x), unspawned' = unspawned,
           x.phase \in Alive => threads[i].phase \in Alive /\ x.tasks = threads[i].tasks,
           stage' # stage => \/ request[Head(lock)].kind \notin {"spawn", "remove"}
                             \/ x.phase \notin Alive /\ \A d \in Callers : stage'[d] # "ok"
                                                           \/ stage[d] = "ok"
    PROVE  TasksSpawned'
<1>1. UNCHANGED <<default, tasks, channel>>
  BY DEF Becomes, Threading, rows
<1>2. DOMAIN threads' = DOMAIN threads /\ threads'[i] = x
  BY ModelsTypes, ThreadChanged DEF Becomes
<1>3. ASSUME NEW t \in Tasks, ThreadOf(t) = i, x.phase \notin Alive \/ Running(t)
      PROVE  Running(t)'
  <2>1. ThreadOf(t)' = i
    BY <1>1, <1>3 DEF ThreadOf, Resolve, Stored
  <2> QED
    BY <1>1, <1>2, <1>3, <2>1 DEF Running
<1>4. ASSUME NEW t \in Tasks, NEW d \in Callers, Pending(d, t)
      PROVE  Pending(d, t)' \/ Running(t)'
  <2>1. CASE Pending(d, t)'
    BY <2>1
  <2>2. CASE /\ threads[i].inbox # <<>> /\ d = Head(lock) /\ stage' # stage
             /\ request[d].task = t
             /\ \/ stage'[d] = "ok" /\ request[d].kind = "spawn"
                \/ stage'[d] = "err" /\ request[d].kind = "remove"
    <3>1. x.phase \notin Alive
      BY <2>2
    <3>2. ThreadOf(t) = i
      BY <2>2, MailOf
    <3> QED
      BY <1>3, <3>1, <3>2
  <2> QED
    BY <1>4, <2>1, <2>2, PendingStays
<1> QED
  BY <1>3, <1>4, TasksKept

LEMMA BeginAlone ==
    ASSUME ModelsTyped, Programs, Mail, WritersAlone, ModelsTyped', Programs',
           NEW i \in DOMAIN threads, Begin(i)
    PROVE  WritersAlone'
<1> DEFINE x == [threads[i] EXCEPT !.phase = "building"]
<1>1. threads[i] \in Thread /\ loaded \in [Models -> BOOLEAN]
  BY ModelsTypes
<1>2. Becomes(i, x)
  BY BeginBecomes
<1>3. x.phase = "building" /\ x.tasks = threads[i].tasks /\ x.model = threads[i].model
  BY <1>1 DEF Thread
<1>4. threads[i].phase \in Alive /\ x.model \in Models
  BY <1>1, <1>3 DEF Begin, Alive, Thread
<1>5. UNCHANGED <<stage, unspawned>> /\ loaded'[x.model] = FALSE
  BY <1>1, <1>3, <1>4 DEF Begin, Publish
<1> HIDE DEF x
<1>6. TasksSpawned'
  BY <1>2, <1>3, <1>4, <1>5, SameTasks
<1> QED
  BY <1>2, <1>4, <1>5, <1>6, ThreadAlone

LEMMA BuiltAlone ==
    ASSUME ModelsTyped, Programs, Mail, WritersAlone, ModelsTyped', Programs',
           NEW i \in DOMAIN threads, NEW late \in BOOLEAN, Built(i, late)
    PROVE  WritersAlone'
<1> DEFINE x == [threads[i] EXCEPT !.phase = "ready", !.late = late]
<1>1. threads[i] \in Thread
  BY ModelsTypes
<1>2. Becomes(i, x)
  BY BuiltBecomes
<1>3. x.phase = "ready" /\ x.tasks = threads[i].tasks
  BY <1>1 DEF Thread
<1>4. threads[i].phase \in Alive
  BY DEF Built, Alive
<1>5. UNCHANGED <<stage, unspawned>>
  BY DEF Built
<1> HIDE DEF x
<1>6. TasksSpawned'
  BY <1>2, <1>3, <1>4, <1>5, SameTasks
<1> QED
  BY <1>2, <1>3, <1>4, <1>5, <1>6, ThreadAlone

LEMMA LateAlone ==
    ASSUME ModelsTyped, Programs, Mail, WritersAlone, ModelsTyped', Programs',
           NEW i \in DOMAIN threads, Late(i)
    PROVE  WritersAlone'
<1> DEFINE x == [threads[i] EXCEPT !.late = FALSE]
<1>1. threads[i] \in Thread /\ loaded \in [Models -> BOOLEAN]
  BY ModelsTypes
<1>2. Becomes(i, x)
  BY LateBecomes
<1>3. x.phase = threads[i].phase /\ x.tasks = threads[i].tasks /\ x.model = threads[i].model
  BY <1>1 DEF Thread
<1>4. x.model \in Models
  BY <1>1, <1>3 DEF Thread
<1>5. UNCHANGED <<stage, unspawned>> /\ loaded'[x.model] = FALSE
  BY <1>1, <1>3, <1>4 DEF Late, Publish
<1> HIDE DEF x
<1>6. TasksSpawned'
  BY <1>2, <1>3, <1>5, SameTasks
<1> QED
  BY <1>2, <1>3, <1>5, <1>6, ThreadAlone

LEMMA BuildFailedAlone ==
    ASSUME ModelsTyped, Programs, Mail, WritersAlone, ModelsTyped', Programs',
           NEW i \in DOMAIN threads, BuildFailed(i)
    PROVE  WritersAlone'
<1> DEFINE x == [threads[i] EXCEPT !.phase = "failed", !.inbox = <<>>]
<1>1. threads[i] \in Thread /\ loaded \in [Models -> BOOLEAN]
  BY ModelsTypes
<1>2. Becomes(i, x)
  BY BuildFailedBecomes
<1>3. x.phase = "failed" /\ x.phase \notin Alive /\ x.model = threads[i].model
  BY <1>1 DEF Thread, Alive
<1>4. x.model \in Models
  BY <1>1, <1>3 DEF Thread
<1>5. unspawned' = unspawned /\ loaded'[x.model] = FALSE
  BY <1>1, <1>3, <1>4 DEF BuildFailed, Publish
<1>6. \A d \in Callers : stage'[d] # "ok" \/ stage[d] = "ok"
  BY Told, ModelsTypes
<1> HIDE DEF x
<1>7. TasksSpawned'
  BY <1>2, <1>3, <1>5, <1>6, SameTasks
<1> QED
  BY <1>2, <1>3, <1>5, <1>7, ThreadAlone

LEMMA AnswerPromptAlone ==
    ASSUME ModelsTyped, Programs, Mail, WritersAlone, ModelsTyped', Programs',
           NEW i \in DOMAIN threads, AnswerPrompt(i)
    PROVE  WritersAlone'
<1> DEFINE x == [threads[i] EXCEPT !.inbox = <<>>]
<1>1. threads[i] \in Thread
  BY ModelsTypes
<1>2. Becomes(i, x)
  BY AnswerPromptBecomes
<1>3. x.phase = threads[i].phase /\ x.tasks = threads[i].tasks
  BY <1>1 DEF Thread
<1>4. threads[i].phase = "ready" /\ request[Head(lock)].kind = "prompt"
  BY MailIs DEF AnswerPrompt, First
<1>5. unspawned' = unspawned
  BY DEF AnswerPrompt
<1> HIDE DEF x
<1>6. TasksSpawned'
  BY <1>2, <1>3, <1>4, <1>5, SameTasks
<1> QED
  BY <1>2, <1>3, <1>4, <1>6, ThreadAlone

LEMMA ShutdownAlone ==
    ASSUME ModelsTyped, Programs, Mail, WritersAlone, ModelsTyped', Programs',
           NEW i \in DOMAIN threads, Shutdown(i)
    PROVE  WritersAlone'
<1> DEFINE x == [threads[i] EXCEPT !.phase = "over", !.inbox = <<>>, !.late = FALSE]
<1>1. threads[i] \in Thread /\ loaded \in [Models -> BOOLEAN]
  BY ModelsTypes
<1>2. Becomes(i, x)
  BY ShutdownBecomes
<1>3. x.phase \notin Alive /\ x.model = threads[i].model
  BY <1>1 DEF Thread, Alive
<1>4. x.model \in Models
  BY <1>1, <1>3 DEF Thread
<1>5. /\ unspawned' = unspawned /\ loaded'[x.model] = FALSE
      /\ request[Head(lock)].kind = "shutdown"
  BY <1>1, <1>3, <1>4, MailIs DEF Shutdown, Publish, First
<1> HIDE DEF x
<1>6. TasksSpawned'
  BY <1>2, <1>3, <1>5, SameTasks
<1> QED
  BY <1>2, <1>3, <1>5, <1>6, ThreadAlone

(* A task that is removed is one that its call has yet to spawn again or   *)
(* to erase.                                                               *)
LEMMA RemoveTaskAlone ==
    ASSUME ModelsTyped, Programs, Mail, WritersAlone, ModelsTyped', Programs',
           NEW i \in DOMAIN threads, RemoveTask(i)
    PROVE  WritersAlone'
<1> DEFINE x == [threads[i] EXCEPT !.inbox = <<>>, !.tasks[request[Head(lock)].task] = 0]
<1>1. threads[i] \in Thread
  BY ModelsTypes
<1>2. Becomes(i, x)
  BY RemoveTaskBecomes
<1>3. x.phase = threads[i].phase /\ x.tasks = [threads[i].tasks EXCEPT ![request[Head(lock)].task] = 0]
  BY <1>1 DEF Thread
<1>4. /\ threads[i].phase = "ready" /\ threads[i].inbox # <<>> /\ unspawned' = unspawned
      /\ request[Head(lock)].kind = "remove"
  BY MailIs DEF RemoveTask, First
<1>5. PICK c \in Callers : c = Head(lock) /\ stage[c] = "await" /\ stage'[c] = "ok"
  BY <1>4, MailIs, Told, ModelsTypes
<1> HIDE DEF x
<1>6. UNCHANGED <<default, tasks, channel, does, request>>
  BY <1>2 DEF Becomes, Threading, rows
<1>7. DOMAIN threads' = DOMAIN threads /\ threads'[i] = x
  BY <1>2, ModelsTypes, ThreadChanged DEF Becomes
<1>8. PICK t \in Tasks : /\ t = request[c].task /\ t = does[c].task
                         /\ does[c].op \in {"updateTask", "deleteTask"}
  BY <1>4, <1>5, OperationAt DEF Programs, Program, About, Asking, AskedBy, OfTasks
<1>9. Pending(c, t)'
  BY <1>4, <1>5, <1>6, <1>8 DEF Pending, About, Asking
<1>10. ASSUME NEW s \in Tasks, ThreadOf(s) = i, Running(s)
       PROVE  Running(s)' \/ s = t
  <2>1. ThreadOf(s)' = i
    BY <1>6, <1>10 DEF ThreadOf, Resolve, Stored
  <2>2. s # t => x.tasks[s] = threads[i].tasks[s]
    BY <1>1, <1>3, <1>5, <1>8 DEF Thread
  <2> QED
    BY <1>3, <1>6, <1>7, <1>10, <2>1, <2>2 DEF Running
<1>11. \A s \in Tasks, d \in Callers : Pending(d, s) => Pending(d, s)'
  <2>1. ASSUME NEW s \in Tasks, NEW d \in Callers, Pending(d, s)
        PROVE  Pending(d, s)'
    BY <1>2, <1>4, <1>5, <2>1, PendingStays
  <2> QED
    BY <2>1
<1>12. \E d \in Callers : Pending(d, t)'
  BY <1>9
<1>13. TasksSpawned'
  BY <1>2, <1>4, <1>9, <1>10, <1>11, TasksKept
<1> QED
  BY <1>2, <1>3, <1>4, <1>13, ThreadAlone

(* A task that is spawned is as it is stored, and no more missing.         *)
LEMMA SpawnTaskAlone ==
    ASSUME ModelsTyped, Programs, Mail, WritersAlone, ModelsTyped', Programs',
           NEW i \in DOMAIN threads, SpawnTask(i)
    PROVE  WritersAlone'
<1> DEFINE x == [threads[i] EXCEPT !.inbox = <<>>,
                            !.tasks[request[Head(lock)].task] = request[Head(lock)].text]
<1>1. threads[i] \in Thread /\ loaded \in [Models -> BOOLEAN]
  BY ModelsTypes
<1>2. Becomes(i, x)
  BY SpawnTaskBecomes
<1>3. /\ x.phase = threads[i].phase
      /\ x.tasks = [threads[i].tasks EXCEPT ![request[Head(lock)].task] = request[Head(lock)].text]
  BY <1>1 DEF Thread
<1>4. /\ threads[i].phase = "ready" /\ threads[i].inbox # <<>>
      /\ request[Head(lock)].kind = "spawn" /\ unspawned' = unspawned \ {request[Head(lock)].task}
  BY MailIs DEF SpawnTask, First
<1>5. PICK t \in Tasks : /\ t = request[Head(lock)].task /\ t \in Stored /\ ThreadOf(t) = i
                         /\ tasks[t].text = request[Head(lock)].text
  BY <1>4, MailOf
<1>6. PICK c \in Callers : c = Head(lock) /\ stage[c] = "await" /\ stage'[c] = "ok"
  BY <1>4, MailIs, Told, ModelsTypes
<1> HIDE DEF x
<1>7. UNCHANGED <<models, default, tasks, channel, does, request>>
  BY <1>2 DEF Becomes, Threading, rows
<1>8. /\ DOMAIN threads' = DOMAIN threads /\ threads'[i] = x
      /\ \A j \in DOMAIN threads \ {i} : threads'[j] = threads[j]
  BY <1>2, ModelsTypes, ThreadChanged DEF Becomes
<1>9. x.tasks[t] = tasks[t].text /\ \A s \in Tasks \ {t} : x.tasks[s] = threads[i].tasks[s]
  BY <1>1, <1>3, <1>5 DEF Thread
<1>10. \A s \in Tasks : ThreadOf(s)' = ThreadOf(s)
  BY <1>7 DEF ThreadOf, Resolve, Stored
<1>11. Running(t)'
  BY <1>5, <1>7, <1>8, <1>9, <1>10 DEF Running
<1>12. ASSUME NEW s \in Tasks \ {t}, Running(s)
       PROVE  Running(s)'
  <2>1. ThreadOf(s) # 0 => ThreadOf(s) \in DOMAIN threads
    BY ThreadOfTask
  <2>2. ThreadOf(s)' = ThreadOf(s) /\ tasks'[s] = tasks[s]
    BY <1>7, <1>10
  <2>3. CASE ThreadOf(s) = i
    BY <1>3, <1>8, <1>9, <1>12, <2>2, <2>3 DEF Running
  <2>4. CASE ThreadOf(s) # i
    BY <1>8, <1>12, <2>1, <2>2, <2>4 DEF Running
  <2> QED
    BY <2>3, <2>4
<1>13. ASSUME NEW s \in Tasks \ {t}, NEW d \in Callers, Pending(d, s)
       PROVE  Pending(d, s)'
  BY <1>2, <1>4, <1>5, <1>13, PendingStays
<1>14. TasksSpawned'
  <2>1. ASSUME NEW s \in (Stored \ unspawned)', s # t
        PROVE  Running(s)' \/ \E d \in Callers : Pending(d, s)'
    <3>1. s \in Stored \ unspawned /\ s \in Tasks \ {t}
      BY <1>4, <1>5, <1>7, <2>1 DEF Stored
    <3>2. Running(s) \/ \E d \in Callers : Pending(d, s)
      BY <3>1 DEF WritersAlone, TasksSpawned
    <3> QED
      BY <1>12, <1>13, <3>1, <3>2
  <2> QED
    BY <1>11, <2>1 DEF TasksSpawned
<1>15. request[Head(lock)].kind # "shutdown"
  BY <1>4
<1> QED
  BY <1>2, <1>3, <1>4, <1>14, <1>15, ThreadAlone

(* A thread that can still read has its channel.                           *)
LEMMA ClosedAlone ==
    ASSUME ModelsTyped, WritersAlone, NEW i \in DOMAIN threads
    PROVE  ~Closed(i)
BY DEF Closed, Left, Alive, WritersAlone, AliveReached

-----------------------------------------------------------------------------
(* As long as no calls that write overlap, none of the steps does harm.    *)
LEMMA ModelsKept == ModelsInv /\ [Next]_vars => ModelsInv'
<1> SUFFICES ASSUME ModelsInv, [Next]_vars, ~overlapped'
             PROVE  WritersAlone'
  BY ModelsStep DEF ModelsInv
<1>1. ModelsTyped /\ Programs /\ Mail /\ ModelsTyped' /\ Programs' /\ Mail'
  BY ModelsStep DEF ModelsInv
<1>2. overlapped \in BOOLEAN
  BY <1>1 DEF ModelsTyped
<1>3. ASSUME NEW c \in Calls, Begins(c)
      PROVE  WritersAlone'
  <2>1. ~overlapped
    BY <1>2, <1>3
       DEF Begins, AddModel, UpdateModel, RemoveModel, SetDefault, AddTask, UpdateTask, 
                      DeleteTask, Prompt, Call
  <2> QED
    BY <1>1, <1>3, <2>1, AddModelAlone, UpdateModelAlone, RemoveModelAlone, SetDefaultAlone,
       AddTaskAlone, UpdateTaskAlone, DeleteTaskAlone, PromptAlone DEF Begins, ModelsInv
<1>4. ASSUME NEW c \in Callers, CallStep(c)
      PROVE  WritersAlone'
  <2>1. ~overlapped
    BY <1>4 DEF CallStep, Send, NotSent, Answered, Refused, Again, Start, Insert, Ready, List,
                SpawnNext, Fetch, Erase, AtLock, Calling
  <2> QED
    BY <1>1, <1>4, <2>1, SendAlone, NotSentAlone, AnsweredAlone, RefusedAlone, AgainAlone,
       StartAlone, InsertAlone, ReadyAlone, ListAlone, SpawnNextAlone, FetchAlone, EraseAlone
    DEF CallStep, ModelsInv
<1>5. CASE LoadStep
  <2>1. ~overlapped
    BY <1>5 DEF LoadStep, ReadModels, Initialised, InitModel, Calling
  <2> QED
    BY <1>1, <1>5, <2>1, ReadModelsAlone, InitialisedAlone, InitModelAlone
       DEF LoadStep, ModelsInv
<1>6. ASSUME NEW i \in DOMAIN threads, ThreadStep(i) \/ Late(i)
      PROVE  WritersAlone'
  <2>1. ~overlapped
    BY <1>6 DEF ThreadStep, Begin, BuildFailed, Built, SpawnTask, RemoveTask, AnswerPrompt,
                Shutdown, Closed, Late, Threading
  <2> QED
    BY <1>1, <1>6, <2>1, BeginAlone, BuildFailedAlone, BuiltAlone, SpawnTaskAlone,
       RemoveTaskAlone, AnswerPromptAlone, ShutdownAlone, ClosedAlone, LateAlone
    DEF ThreadStep, ModelsInv
<1>7. CASE UNCHANGED vars
  <2>1. WritersAlone
    BY <1>7 DEF vars, ModelsInv
  <2>2. (OneWriter /\ AliveReached /\ LoadedRight /\ Loading)'
    BY <1>7, <2>1 DEF vars, WritersAlone, OneWriter, Writers, AliveReached, LoadedRight, Begun,
                      Loading, Present
  <2>3. MailRight'
    BY <1>7, <2>1 DEF vars, WritersAlone, MailRight, Target, Resolve, Stored
  <2>4. \A c \in Callers : Down(c)' /\ TasksRead(c)' /\ ModelsRead(c)' /\ StartedBy(c)'
    BY <1>7, <2>1 DEF vars, WritersAlone, CallsAsRead, Down, Reachable, TasksRead, ModelsRead,
                      StartedBy, About, Present, Starting, Resolve, Stored
  <2>5. ChannelsRight'
    BY <1>7, <2>1 DEF vars, WritersAlone, ChannelsRight, ChannelRight, Changing, About, Starting
  <2>6. TasksSpawned'
    BY <1>7, <2>1 DEF vars, WritersAlone, TasksSpawned, Running, ThreadOf, Pending, About,
                      Resolve, Stored
  <2> QED
    BY <2>2, <2>3, <2>4, <2>5, <2>6 DEF WritersAlone, CallsAsRead
<1> QED
  BY <1>3, <1>4, <1>5, <1>6, <1>7 DEF Next

LEMMA ModelsRightAtFirst == Init => ModelsInv
<1> SUFFICES ASSUME Init
             PROVE  WritersAlone
  BY ModelsBegin DEF ModelsInv
<1>1. /\ threads = <<>> /\ channel = [m \in Models |-> 0] /\ starts = {} /\ unspawned = {}
      /\ rest = [c \in Callers |-> {}] /\ request = [c \in Callers |-> Nothing] /\ Loader \in Callers
      /\ stage = [c \in Callers |-> IF c = Loader THEN "read" ELSE "idle"]
      /\ \A c \in Callers : does[c].op = "load"
  BY DEF Init, Callers
<1>2. OneWriter
  BY <1>1 DEF OneWriter, Writers
<1>3. MailRight /\ AliveReached /\ LoadedRight
  BY <1>1 DEF MailRight, AliveReached, LoadedRight, Begun
<1>4. CallsAsRead
  BY <1>1 DEF CallsAsRead, Down, TasksRead, ModelsRead, StartedBy, About, Asking
<1>5. Loading
  BY <1>1 DEF Loading
<1>6. ChannelsRight
  BY <1>1 DEF ChannelsRight, Changing
<1>7. TasksSpawned
  <2>1. \A t \in Tasks : ThreadOf(t) = 0
    BY <1>1, ModelsBegin, ThreadOfTask
  <2> QED
    BY <2>1 DEF TasksSpawned, Running, Stored
<1> QED
  BY <1>2, <1>3, <1>4, <1>5, <1>6, <1>7 DEF WritersAlone

LEMMA ModelsImply == ModelsInv => ThreadsAsStored
<1> SUFFICES ASSUME ModelsInv, Quiet, ~overlapped
             PROVE  /\ \A m \in Models : channel[m] # 0 <=> models[m] = "whole"
                    /\ \A t \in Tasks \ unspawned : SpawnedIn(t)
                    /\ \A m \in Models : loaded[m] /\ Begun(m) =>
                           channel[m] # 0 /\ threads[channel[m]].phase = "ready"
  BY DEF ThreadsAsStored
<1>1. ModelsTyped /\ Programs /\ WritersAlone
  BY DEF ModelsInv
<1>2. \A c \in Callers : Idle(c)
  BY <1>1, NotWriting DEF Quiet, WritersAlone, Loading
<1>3. \A m \in Models : ChannelRight(m)
  BY <1>1, <1>2 DEF Idle, WritersAlone, ChannelsRight
<1>4. ASSUME NEW t \in Tasks \ unspawned
      PROVE  SpawnedIn(t)
  <2>1. CASE t \in Stored
    <3>1. Running(t)
      BY <1>1, <1>2, <2>1 DEF Idle, WritersAlone, TasksSpawned
    <3> QED
      BY <3>1 DEF Running, SpawnedIn, Alive
  <2>2. CASE t \notin Stored
    BY <2>2 DEF SpawnedIn, ThreadOf
  <2> QED
    BY <2>1, <2>2
<1> QED
  BY <1>1, <1>3, <1>4 DEF ChannelRight, WritersAlone, LoadedRight

(***************************************************************************)
(* The executor.                                                           *)
(***************************************************************************)

LEMMA ExecutorSteps == [ExecutorNext]_allVars => [R!Next]_registryVars /\ [A!Next]_agentVars
BY DEF ExecutorNext, AskModels, AskedModels, AskAgent, AskRegistry, allVars

LEMMA RegistryInvariance == ExecutorSpec => []RegistryInv
<1>1. ExecutorInit => RegistryInv
  BY RegistryInit DEF ExecutorInit
<1>2. RegistryInv /\ [ExecutorNext]_allVars => RegistryInv'
  BY ExecutorSteps, RegistryStep
<1> QED
  BY <1>1, <1>2, PTL DEF ExecutorSpec

(* For any number of calls, perspectives and restarts, and whatever the    *)
(* calls wait for in between: once no call is between its two stores, the  *)
(* map, the table and the tasks are of the same perspectives, a row is as  *)
(* its instance has it, and both are what the calls made of the handle,    *)
(* unless one was stored while another call had read it; and a             *)
(* neighbourhood has one perspective, unless two calls join it at a time.  *)
THEOREM HandlesAreKept == ExecutorSpec => []HandlesKept
BY RegistryInvariance, RegistryImplies, PTL

LEMMA AgentInvariance == ExecutorSpec => []AgentInv
<1>1. ExecutorInit => AgentInv
  BY AgentInit DEF ExecutorInit
<1>2. AgentInv /\ [ExecutorNext]_allVars => AgentInv'
  BY ExecutorSteps, AgentStep
<1> QED
  BY <1>1, <1>2, PTL DEF ExecutorSpec

(* However unlocks, failures, restarts and changes of the profile follow   *)
(* each other: as long as no two changes raced, the profile is what the    *)
(* calls would have made of it one after the other.                        *)
THEOREM UpdatesAreKept == ExecutorSpec => []UpdatesKept
BY AgentInvariance, AgentImplies, PTL

(* The profile is published as it is once no zome call waits, unless the   *)
(* last change could not be handed over, although calls are answered in    *)
(* the order of the queue and unlocks hand the profile over as well.       *)
THEOREM ProfileIsPublished == ExecutorSpec => []ProfilePublished
BY AgentInvariance, AgentImplies, PTL

LEMMA ExecutorModels == [ExecutorNext]_allVars => [Next]_vars
BY DEF ExecutorNext, AskModels, AskedModels, AskAgent, AskRegistry, allVars

LEMMA ModelsInvariance == ExecutorSpec => []ModelsInv
<1>1. ExecutorInit => Init
  BY DEF ExecutorInit, ModelsInit, NoModels
<1>2. ModelsInv /\ [ExecutorNext]_allVars => ModelsInv'
  BY ExecutorModels, ModelsKept
<1> QED
  BY <1>1, <1>2, ModelsRightAtFirst, PTL DEF ExecutorSpec

(* For any number of models, tasks and calls, whatever fails and in        *)
(* whatever order threads answer: once no call that writes is under way,   *)
(* and unless two of them overlapped, the models with a channel are those  *)
(* with a definition, their threads have the tasks as they are stored, and *)
(* a model that is recorded as loaded is.                                  *)
THEOREM ThreadsMatchRows == ExecutorSpec => []ThreadsAsStored
BY ModelsInvariance, ModelsImply, PTL

(* The three services keep to their types; models, tasks and requests also *)
(* when calls overlap.                                                     *)
THEOREM ExecutorTyped == ExecutorSpec => []TypesOK
<1>1. ModelsInv => TypeOK
  BY DEF ModelsInv, ModelsTyped
<1>2. AgentInv => A!TypeOK
  BY DEF AgentInv
<1>3. RegistryInv => R!TypeOK
  BY DEF RegistryInv
<1>4. ModelsInv /\ AgentInv /\ RegistryInv => TypesOK
  BY <1>1, <1>2, <1>3 DEF TypesOK
<1> QED
  BY <1>4, ModelsInvariance, AgentInvariance, RegistryInvariance, PTL

=============================================================================
