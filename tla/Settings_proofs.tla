-------------------------- MODULE Settings_proofs --------------------------
(***************************************************************************)
(* GUIDs identify metrics, references to deleted metrics are removed, and  *)
(* the form of users is that of the user asked for: for any number of      *)
(* administrators, metrics, partitions and clicks.                         *)
(***************************************************************************)
EXTENDS Settings, FiniteSetTheorems, TLAPS

---------------------------------------------------------------------------
(* The invariant *)

UserForm == [user : Users, roles : Roles]

UsersType ==
    [asked : Users \cup {None}, shown : UserForm \cup {None}, ticked : Roles \cup {{}},
     overlap : BOOLEAN]

PageType ==
    [view : {"General", "Metrics", "Partitions", "Users"},
     known : Configuration \cup {None}, knownOf : Nat,
     local : Configuration \cup {None}, of : Nat,
     shared : SUBSET Fields, forms : SUBSET Parts, users : UsersType]

Request(kind, Body, Of) ==
    [by : Admins, click : Nat, kind : {kind}, body : Body, of : Of, heard : BOOLEAN,
     status : {"sent", "ok"}]

Requests ==
    Request("config", Configuration, Nat) \cup Request("patch", Configuration, Nat)
        \cup Request("user", UserForm, {0})
        \cup Request("load", [user : Users, roles : Roles \cup {{}}], {0})

\* A copy of the configuration, of which g GUIDs were given out: no two metrics have the
\* same.
Distinct(metrics) == \A m, n \in metrics : m # n /\ m.guid # 0 => m.guid # n.guid

Sound(c, g) == c \in Configuration /\ GuidsOf(c) \subseteq 0..g /\ Distinct(c.metrics)

\* In a copy of version v nothing dangles but what is in D.
Fresh(c, of, v, D) == of <= v /\ (of = v => Dangling(c) \subseteq D)

Copy(c, of, v, g, D) == Sound(c, g) /\ Fresh(c, of, v, D)

\* Objects in common have the same contents.
SharedInv(pg) ==
    pg.shared # {} =>
        /\ {"metrics", "parts"} \subseteq pg.shared
        /\ pg.known \in Configuration
        /\ pg.known.metrics = pg.local.metrics /\ pg.known.parts = pg.local.parts
        /\ pg.knownOf = pg.of

\* Copies in pages have the references of the configuration c, if they are of its
\* version v; those of other clients may lack metrics of c too.
PageInv(pg, v, g, c) ==
    /\ pg.knownOf <= v /\ pg.of <= v
    /\ pg.known # None => Copy(pg.known, pg.knownOf, v, g, Dangling(c))
    /\ pg.local # None => Copy(pg.local, pg.of, v, g, Dangling(c))
    /\ SharedInv(pg)
    /\ pg.users.shown # None => pg.users.ticked \in Roles

RequestInv(r, v, g, c) ==
    /\ r.kind = "config" => Copy(r.body, r.of, v, g, Dangling(c))
    /\ r.kind = "patch" => Copy(r.body, r.of, v, g, Dangling(c) \cup GuidsOf(c))
    /\ r.kind = "load" /\ r.status = "ok" => r.body.roles \in Roles

ConfigInv == Sound(config, guids) /\ \A m \in config.metrics : m.guid # 0

PagesInv ==
    /\ page \in [Admins -> PageType]
    /\ \A a \in Admins : PageInv(page[a], version, guids, config)

RequestsInv ==
    /\ requests \subseteq Requests
    /\ \A r \in requests : RequestInv(r, version, guids, config)

Counts == version \in Nat /\ guids \in 1..MaxGuid /\ edits \in Nat /\ lost \in Nat

IInv == Counts /\ roles \in [Users -> Roles] /\ ConfigInv /\ PagesInv /\ RequestsInv

---------------------------------------------------------------------------
(* Finite sets *)

LEMMA MetricsFinite == \A metrics \in SUBSET Metric : IsFiniteSet(metrics)
    <1> DEFINE Triples == Names \X ((0..MaxGuid) \X (SUBSET Categories))
               f == [t \in Triples |-> [name |-> t[1], guid |-> t[2][1], cats |-> t[2][2]]]
    <1>1. IsFiniteSet(0..MaxGuid)
        BY FS_Interval, SettingsAssumption
    <1>2. IsFiniteSet(SUBSET Categories)
        BY FS_SUBSET, SettingsAssumption
    <1>3. IsFiniteSet(Triples)
        BY <1>1, <1>2, FS_Product, SettingsAssumption
    <1>4. f \in Surjection(Triples, Metric)
        <2>1. f \in [Triples -> Metric]
            BY DEF Metric
        <2>2. \A m \in Metric : \E t \in Triples : f[t] = m
            <3> TAKE m \in Metric
            <3>1. <<m.name, <<m.guid, m.cats>>>> \in Triples
                BY DEF Metric
            <3>2. f[<<m.name, <<m.guid, m.cats>>>>] = m
                BY <3>1 DEF Metric
            <3> QED
                BY <3>1, <3>2
        <2> QED
            BY <2>1, <2>2 DEF Surjection
    <1>5. IsFiniteSet(Metric)
        BY <1>3, <1>4, FS_Surjection
    <1> QED
        BY <1>5, FS_Subset

---------------------------------------------------------------------------
(* What the edits do to a copy *)

\* Other categories, same metrics and partitions.
LEMMA CatsSound ==
    ASSUME NEW g, NEW c, Sound(c, g), NEW cats \in SUBSET Categories
    PROVE  /\ Sound([c EXCEPT !.cats = cats], g)
           /\ Dangling([c EXCEPT !.cats = cats]) = Dangling(c)
    BY DEF Sound, Configuration, GuidsOf, Dangling

\* The button on a metric keeps every GUID, and what dangles.
LEMMA DeletedSound ==
    ASSUME NEW g, NEW c, Sound(c, g), NEW m \in c.metrics, NEW cat \in Categories
    PROVE  LET d == [c EXCEPT !.metrics = DeletedFrom(@, m, cat)]
           IN  Sound(d, g) /\ Dangling(d) = Dangling(c)
    <1> DEFINE metrics == DeletedFrom(c.metrics, m, cat)
               d == [c EXCEPT !.metrics = metrics]
    <1>1. CASE m.cats = {cat}
        <2>1. metrics = c.metrics
            BY <1>1 DEF DeletedFrom
        <2>2. d = c
            BY <2>1 DEF Sound, Configuration
        <2> QED
            BY <2>2
    <1>2. CASE m.cats # {cat}
        <2> DEFINE n == [m EXCEPT !.cats = @ \ {cat}]
        <2>1. metrics = (c.metrics \ {m}) \cup {n}
            BY <1>2 DEF DeletedFrom, removeCategoryFromMetric
        <2>2. m \in Metric /\ n \in Metric /\ n.guid = m.guid
            BY DEF Sound, Configuration, Metric
        <2>3. d \in Configuration /\ d.metrics = metrics /\ d.parts = c.parts
            BY <2>1, <2>2 DEF Sound, Configuration
        <2> HIDE DEF d, metrics, n
        <2>4. GuidsOf(d) = GuidsOf(c)
            BY <2>1, <2>2, <2>3 DEF GuidsOf
        <2>5. Distinct(metrics)
            BY <2>1, <2>2 DEF Sound, Distinct
        <2>6. Sound(d, g) /\ Dangling(d) = Dangling(c)
            BY <2>3, <2>4, <2>5 DEF Sound, Dangling
        <2> QED
            BY <2>6 DEF d, metrics
    <1> QED
        BY <1>1, <1>2

\* A metric without a GUID changes no other.
LEMMA AddedSound ==
    ASSUME NEW g \in Nat, NEW c, Sound(c, g), NEW m \in Metric, m.guid = 0
    PROVE  LET d == [c EXCEPT !.metrics = @ \cup {m}]
           IN  Sound(d, g) /\ Dangling(d) \subseteq Dangling(c)
    <1> DEFINE d == [c EXCEPT !.metrics = c.metrics \cup {m}]
    <1>1. d \in Configuration /\ d.metrics = c.metrics \cup {m} /\ d.parts = c.parts
        BY DEF Sound, Configuration
    <1> HIDE DEF d
    <1>2. GuidsOf(d) = GuidsOf(c) \cup {0}
        BY <1>1 DEF GuidsOf
    <1>3. Distinct(d.metrics)
        BY <1>1 DEF Sound, Distinct
    <1>4. Sound(d, g) /\ Dangling(d) \subseteq Dangling(c)
        BY <1>1, <1>2, <1>3 DEF Sound, Dangling
    <1> QED
        BY <1>4 DEF d

\* A partition that lists metrics of the copy, and what it listed before.
LEMMA PartSound ==
    ASSUME NEW g, NEW c, Sound(c, g), NEW p \in Parts, NEW part \in Partition,
           part.metrics \subseteq GuidsOf(c) \cup c.parts[p].metrics
    PROVE  LET d == [c EXCEPT !.parts[p] = part]
           IN  Sound(d, g) /\ Dangling(d) \subseteq Dangling(c)
    <1> DEFINE d == [c EXCEPT !.parts[p] = part]
    <1>1. /\ d \in Configuration /\ d.metrics = c.metrics
          /\ \A q \in Parts : d.parts[q] = IF q = p THEN part ELSE c.parts[q]
        BY DEF Sound, Configuration
    <1> HIDE DEF d
    <1>2. GuidsOf(d) = GuidsOf(c)
        BY <1>1 DEF GuidsOf
    <1>3. Sound(d, g)
        BY <1>1, <1>2 DEF Sound
    <1>4. Dangling(d) \subseteq Dangling(c)
        BY <1>1, <1>2 DEF Dangling
    <1> QED
        BY <1>3, <1>4 DEF d

---------------------------------------------------------------------------
(* The frame of a step of the page *)

\* Requests that are new after a step satisfy their invariant too.
NewRequestsInv(v, g, c) ==
    \A q \in requests' \ requests : q \in Requests /\ RequestInv(q, v, g, c)

LEMMA NoRequest ==
    ASSUME requests' \subseteq requests, NEW v, NEW g, NEW c
    PROVE  NewRequestsInv(v, g, c)
    BY DEF NewRequestsInv

LEMMA OneRequest ==
    ASSUME NEW r \in Requests, NEW v, NEW g, NEW c, RequestInv(r, v, g, c),
           requests' \subseteq requests \cup {r}
    PROVE  NewRequestsInv(v, g, c)
    BY DEF NewRequestsInv

\* A click on the page of a, which may send a request.
LEMMA ClickInv ==
    ASSUME IInv, NEW a \in Admins, NEW pg \in PageType,
           PageInv(pg, version, guids, config),
           page' = [page EXCEPT ![a] = pg],
           NewRequestsInv(version, guids, config),
           edits' = edits \/ edits' = edits + 1,
           UNCHANGED <<config, version, roles, guids, lost>>
    PROVE  IInv'
    <1>1. Counts' /\ roles' \in [Users -> Roles]
        BY DEF IInv, Counts
    <1>2. ConfigInv'
        BY DEF IInv, ConfigInv
    <1>3. PagesInv'
        BY DEF IInv, PagesInv
    <1>4. RequestsInv'
        BY DEF IInv, RequestsInv, NewRequestsInv
    <1> QED
        BY <1>1, <1>2, <1>3, <1>4 DEF IInv

\* What is known of the page of a.
LEMMA PageFacts ==
    ASSUME IInv, NEW a \in Admins
    PROVE  /\ page[a] \in PageType
           /\ PageInv(page[a], version, guids, config)
           /\ guids \in Nat /\ version \in Nat /\ edits \in Nat
    BY DEF IInv, PagesInv, Counts

\* The copy of a tab is changed, and what the page knows may have the change in common.
LEMMA LocalEdit ==
    ASSUME IInv, NEW a \in Admins, page[a].local # None,
           NEW c, Sound(c, guids), Dangling(c) \subseteq Dangling(page[a].local)
    PROVE  Copy(c, page[a].of, version, guids, Dangling(config))
    BY PageFacts DEF PageInv, Copy, Fresh

\* A change in place of metrics or categories.
LEMMA InPlaceInv ==
    ASSUME IInv, NEW a \in Admins, page[a].local # None,
           NEW c, Sound(c, guids), Dangling(c) \subseteq Dangling(page[a].local),
           NEW field \in {"metrics", "cats"},
           c.parts = page[a].local.parts,
           field = "cats" => c.metrics = page[a].local.metrics
    PROVE  /\ InPlace(page[a], field, c) \in PageType
           /\ PageInv(InPlace(page[a], field, c), version, guids, config)
    <1> DEFINE pg == page[a]
               new == InPlace(pg, field, c)
    <1>1. pg \in PageType /\ PageInv(pg, version, guids, config)
        BY PageFacts
    <1>2. Copy(c, pg.of, version, guids, Dangling(config)) /\ c \in Configuration
        BY LocalEdit DEF Sound
    <1>3. CASE field \notin pg.shared
        <2>1. new = [pg EXCEPT !.local = c]
            BY <1>1, <1>3 DEF InPlace, PageType
        <2>2. /\ new \in PageType /\ new.local = c /\ new.known = pg.known
              /\ new.knownOf = pg.knownOf /\ new.of = pg.of /\ new.shared = pg.shared
              /\ new.users = pg.users
            BY <1>1, <1>2, <2>1 DEF PageType
        <2>3. SharedInv(new)
            BY <1>1, <1>3, <2>2 DEF PageInv, SharedInv
        <2> QED
            BY <1>1, <1>2, <2>2, <2>3 DEF PageInv
    <1>4. CASE field \in pg.shared
        <2> DEFINE known == [pg.known EXCEPT ![field] = c[field]]
        <2>1. /\ pg.known \in Configuration /\ {"metrics", "parts"} \subseteq pg.shared
              /\ pg.known.metrics = pg.local.metrics /\ pg.known.parts = pg.local.parts
              /\ pg.knownOf = pg.of
            BY <1>1, <1>4 DEF PageInv, SharedInv
        <2>2. known \in Configuration /\ known.metrics = c.metrics /\ known.parts = c.parts
            BY <1>2, <2>1 DEF Configuration
        <2>3. new = [pg EXCEPT !.local = c, !.known = known]
            BY <1>4 DEF InPlace
        <2> HIDE DEF known
        <2>4. /\ new \in PageType /\ new.local = c /\ new.known = known
              /\ new.knownOf = pg.of /\ new.of = pg.of /\ new.shared = pg.shared
              /\ new.users = pg.users
            BY <1>1, <1>2, <2>1, <2>2, <2>3 DEF PageType
        <2>5. Copy(known, pg.of, version, guids, Dangling(config))
            BY <1>2, <2>2 DEF Copy, Sound, Fresh, GuidsOf, Dangling
        <2>6. SharedInv(new)
            BY <2>1, <2>2, <2>4 DEF SharedInv
        <2> HIDE DEF new
        <2>7. pg.knownOf <= version /\ pg.of <= version
                /\ (pg.users.shown # None => pg.users.ticked \in Roles)
            BY <1>1 DEF PageInv
        <2>8. PageInv(new, version, guids, config)
            BY <1>2, <2>1, <2>4, <2>5, <2>6, <2>7 DEF PageInv
        <2> QED
            BY <2>4, <2>8 DEF new
    <1> QED
        BY <1>3, <1>4

\* The local copy c is sent, and the page knows it.
LEMMA SubmitInv ==
    ASSUME IInv, NEW a \in Admins, page[a].local # None,
           NEW c, Sound(c, guids), Dangling(c) \subseteq Dangling(page[a].local),
           Submit(a, [page[a] EXCEPT !.local = c]), edits' = edits + 1,
           UNCHANGED <<config, version, roles, guids, lost>>
    PROVE  IInv'
    <1> DEFINE pg == page[a]
               new == [pg EXCEPT !.local = c, !.known = c, !.knownOf = pg.of, !.shared = Fields]
               r == [by |-> a, click |-> edits, kind |-> "config", body |-> c,
                     of |-> pg.of, heard |-> TRUE, status |-> "sent"]
    <1>1. pg \in PageType /\ PageInv(pg, version, guids, config) /\ edits \in Nat
        BY PageFacts
    <1>2. Copy(c, pg.of, version, guids, Dangling(config)) /\ c \in Configuration
        BY LocalEdit DEF Sound
    <1>3. page' = [page EXCEPT ![a] = new] /\ requests' = requests \cup {r}
        BY <1>1 DEF Submit, Sends, PageType
    <1>4. /\ new \in PageType /\ new.local = c /\ new.known = c
          /\ new.knownOf = pg.of /\ new.of = pg.of /\ new.shared = Fields
          /\ new.users = pg.users
        BY <1>1, <1>2 DEF PageType
    <1>5. PageInv(new, version, guids, config)
        <2> HIDE DEF new
        <2> QED
            BY <1>1, <1>2, <1>4 DEF PageInv, SharedInv, Fields
    <1>6. r \in Requests /\ RequestInv(r, version, guids, config)
        BY <1>1, <1>2 DEF Requests, Request, RequestInv, PageType
    <1> HIDE DEF new, r
    <1> QED
        BY <1>3, <1>4, <1>5, <1>6, OneRequest, ClickInv

---------------------------------------------------------------------------
(* Steps of the page *)

LEMMA useGetConfigInv ==
    ASSUME IInv, NEW a \in Admins, useGetConfig(a)
    PROVE  IInv'
    <1> DEFINE pg == page[a]
               new == [pg EXCEPT !.known = config, !.knownOf = version]
    <1>1. pg \in PageType /\ PageInv(pg, version, guids, config) /\ version \in Nat
        BY PageFacts
    <1>2. config \in Configuration /\ Copy(config, version, version, guids, Dangling(config))
        BY <1>1 DEF IInv, ConfigInv, Copy, Sound, Fresh
    <1>3. page' = [page EXCEPT ![a] = new]
        BY <1>1 DEF useGetConfig, PageType
    <1>4. /\ new \in PageType /\ new.known = config /\ new.knownOf = version
          /\ new.local = pg.local /\ new.of = pg.of /\ new.shared = pg.shared
          /\ new.users = pg.users
        BY <1>1, <1>2 DEF PageType
    <1>5. SharedInv(new)
        BY <1>1, <1>4, NoConfiguration DEF PageInv, SharedInv, useGetConfig
    <1>6. PageInv(new, version, guids, config)
        <2> HIDE DEF new
        <2> QED
            BY <1>1, <1>2, <1>4, <1>5 DEF PageInv
    <1> HIDE DEF new
    <1> QED
        BY <1>3, <1>4, <1>6, NoRequest, ClickInv DEF useGetConfig

LEMMA setSettingsViewInv ==
    ASSUME IInv, NEW a \in Admins, setSettingsView(a)
    PROVE  IInv'
    <1> DEFINE pg == page[a]
    <1>1. pg \in PageType /\ PageInv(pg, version, guids, config) /\ edits \in Nat
        BY PageFacts
    <1>2. pg.known # None /\ edits' = edits + 1
            /\ UNCHANGED <<config, version, roles, guids, lost>>
        BY DEF setSettingsView, Edits
    <1>3. pg.known \in Configuration /\ Copy(pg.known, pg.knownOf, version, guids, Dangling(config))
        BY <1>1, <1>2 DEF PageType, PageInv
    <1> DEFINE Forms(view) == IF view # "Partitions" THEN {}
                              ELSE {p \in Parts : page[a].known.parts[p].virtual = None}
               Shows(view) == [pg EXCEPT !.view = view,
                                 !.local = IF view = "Users" THEN None ELSE pg.known,
                                 !.of = IF view = "Users" THEN 0 ELSE pg.knownOf,
                                 !.shared = IF view = "Users" THEN {} ELSE Fields,
                                 !.forms = Forms(view), !.users = NoUser]
    <1>4. PICK view \in {"Metrics", "Partitions", "Users"} :
              page' = [page EXCEPT ![a] = Shows(view)]
        BY <1>1 DEF setSettingsView, PageType
    <1> DEFINE forms == Forms(view)
               new == Shows(view)
    <1>5. forms \in SUBSET Parts
        OBVIOUS
    <1>6. page' = [page EXCEPT ![a] = new]
        BY <1>4
    <1> HIDE DEF forms
    <1>7. /\ new \in PageType /\ new.known = pg.known /\ new.knownOf = pg.knownOf
          /\ new.local = IF view = "Users" THEN None ELSE pg.known
          /\ new.of = IF view = "Users" THEN 0 ELSE pg.knownOf
          /\ new.shared = IF view = "Users" THEN {} ELSE Fields
          /\ new.users = NoUser
        <2>1. NoUser \in UsersType
            BY DEF NoUser, UsersType
        <2> QED
            BY <1>1, <1>3, <1>5, <2>1 DEF PageType
    <1>8. PageInv(new, version, guids, config)
        <2> HIDE DEF new
        <2>1. pg.knownOf <= version /\ version \in Nat
            BY <1>1, PageFacts DEF PageInv
        <2>2. new.of <= version /\ (new.local # None => new.local = pg.known /\ new.of = pg.knownOf)
            BY <1>7, <2>1
        <2>3. SharedInv(new)
            BY <1>3, <1>7 DEF SharedInv, Fields
        <2> QED
            BY <1>1, <1>3, <1>7, <2>1, <2>2, <2>3 DEF PageInv, NoUser
    <1>9. NewRequestsInv(version, guids, config)
        <2> SUFFICES ASSUME NEW q \in requests' \ requests
                     PROVE  q \in Requests /\ RequestInv(q, version, guids, config)
            BY DEF NewRequestsInv
        <2>1. PICK r \in requests : r \in AboutUsers(a) /\ q = [r EXCEPT !.heard = FALSE]
            BY DEF setSettingsView, AboutUsers
        <2>2. r \in Requests /\ r.kind \in {"load", "user"} /\ RequestInv(r, version, guids, config)
            BY <2>1 DEF AboutUsers, IInv, RequestsInv
        <2>3. q \in Requests /\ q.kind = r.kind /\ q.status = r.status /\ q.body = r.body
            BY <2>1, <2>2 DEF Requests, Request
        <2> QED
            BY <2>2, <2>3 DEF RequestInv
    <1> HIDE DEF new
    <1> QED
        BY <1>2, <1>6, <1>7, <1>8, <1>9, ClickInv

\* What a tab with a copy has to go by.
LEMMA LocalFacts ==
    ASSUME IInv, NEW a \in Admins, page[a].local # None
    PROVE  /\ page[a].local \in Configuration /\ Sound(page[a].local, guids)
           /\ page[a] \in PageType
    BY PageFacts DEF PageInv, Copy, Sound

LEMMA NewCategoryInputInv ==
    ASSUME IInv, NEW a \in Admins, page[a].local # None, NewCategoryInput(a)
    PROVE  IInv'
    <1>1. PICK c \in Categories : page' = [page EXCEPT ![a] = addCategory(@, c)]
        BY DEF NewCategoryInput
    <1>2. edits' = edits + 1 /\ UNCHANGED <<config, version, roles, guids, requests, lost>>
        BY DEF NewCategoryInput, InView, Edits
    <1> DEFINE cats == page[a].local.cats \cup {c}
               local == [page[a].local EXCEPT !.cats = cats]
    <1>3. page' = [page EXCEPT ![a] = InPlace(page[a], "cats", local)]
        BY <1>1, LocalFacts DEF addCategory, IInv, PagesInv
    <1>4. cats \in SUBSET Categories
        BY LocalFacts DEF Configuration
    <1>5. Sound(local, guids) /\ Dangling(local) = Dangling(page[a].local)
        <2> HIDE DEF cats
        <2> QED
            BY <1>4, LocalFacts, CatsSound
    <1>6. local.parts = page[a].local.parts /\ local.metrics = page[a].local.metrics
        BY LocalFacts DEF Configuration
    <1> HIDE DEF local
    <1>7. /\ InPlace(page[a], "cats", local) \in PageType
          /\ PageInv(InPlace(page[a], "cats", local), version, guids, config)
        BY <1>5, <1>6, InPlaceInv
    <1> QED
        BY <1>2, <1>3, <1>7, NoRequest, ClickInv

LEMMA removeCategoryInv ==
    ASSUME IInv, NEW a \in Admins, page[a].local # None, removeCategory(a)
    PROVE  IInv'
    <1> DEFINE pg == page[a]
    <1>1. PICK c : page' = [page EXCEPT ![a].local.cats = @ \ {c}, ![a].shared = @ \ {"cats"}]
        BY DEF removeCategory
    <1>2. edits' = edits + 1 /\ UNCHANGED <<config, version, roles, guids, requests, lost>>
        BY DEF removeCategory, InView, Edits
    <1> DEFINE cats == pg.local.cats \ {c}
               local == [pg.local EXCEPT !.cats = cats]
               shared == pg.shared \ {"cats"}
               new == [pg EXCEPT !.local = local, !.shared = shared]
    <1>3. pg \in PageType /\ PageInv(pg, version, guids, config)
        BY PageFacts
    <1>4. page' = [page EXCEPT ![a] = new]
        BY <1>1, <1>3, LocalFacts DEF PageType, IInv, PagesInv
    <1>5. cats \in SUBSET Categories /\ shared \in SUBSET Fields
        BY <1>3, LocalFacts DEF Configuration, PageType
    <1>6. Sound(local, guids) /\ Dangling(local) = Dangling(pg.local)
        <2> HIDE DEF cats
        <2> QED
            BY <1>5, LocalFacts, CatsSound
    <1>7. local.parts = pg.local.parts /\ local.metrics = pg.local.metrics
        BY LocalFacts DEF Configuration
    <1> HIDE DEF local
    <1>8. Copy(local, pg.of, version, guids, Dangling(config)) /\ local \in Configuration
        BY <1>6, LocalEdit DEF Sound
    <1>9. /\ new \in PageType /\ new.local = local /\ new.known = pg.known
          /\ new.knownOf = pg.knownOf /\ new.of = pg.of /\ new.shared = shared
          /\ new.users = pg.users
        <2> HIDE DEF shared
        <2> QED
            BY <1>3, <1>5, <1>8 DEF PageType
    <1>10. SharedInv(new)
        BY <1>3, <1>7, <1>9 DEF SharedInv, PageInv
    <1> HIDE DEF new
    <1>11. PageInv(new, version, guids, config)
        BY <1>3, <1>8, <1>9, <1>10 DEF PageInv
    <1> QED
        BY <1>2, <1>4, <1>9, <1>11, NoRequest, ClickInv

LEMMA DeleteMetricInv ==
    ASSUME IInv, NEW a \in Admins, page[a].local # None,
           NEW m \in page[a].local.metrics, NEW c \in Categories, DeleteMetric(a, m, c)
    PROVE  IInv'
    <1> DEFINE local == [page[a].local EXCEPT !.metrics = DeletedFrom(@, m, c)]
    <1>1. page' = [page EXCEPT ![a] = InPlace(page[a], "metrics", local)]
        BY DEF DeleteMetric, deleteMetric
    <1>2. edits' = edits + 1 /\ UNCHANGED <<config, version, roles, guids, requests, lost>>
        BY DEF DeleteMetric, InView, Edits
    <1>3. Sound(local, guids) /\ Dangling(local) = Dangling(page[a].local)
        BY LocalFacts, DeletedSound
    <1>4. local.parts = page[a].local.parts
        BY LocalFacts DEF Configuration
    <1> HIDE DEF local
    <1>5. /\ InPlace(page[a], "metrics", local) \in PageType
          /\ PageInv(InPlace(page[a], "metrics", local), version, guids, config)
        BY <1>3, <1>4, InPlaceInv
    <1> QED
        BY <1>1, <1>2, <1>5, NoRequest, ClickInv

LEMMA SaveConfigInv ==
    ASSUME IInv, NEW a \in Admins, page[a].local # None, SaveConfig(a)
    PROVE  IInv'
    <1>1. page[a] = [page[a] EXCEPT !.local = page[a].local]
        BY LocalFacts DEF PageType
    <1>2. Submit(a, [page[a] EXCEPT !.local = page[a].local])
        BY <1>1 DEF SaveConfig
    <1> QED
        BY <1>2, LocalFacts, SubmitInv DEF SaveConfig, InView, Edits

LEMMA NewMetricInv ==
    ASSUME IInv, NEW a \in Admins, page[a].local # None, NewMetric(a)
    PROVE  IInv'
    <1> DEFINE old == page[a].local
    <1>1. PICK m \in MetricForm(page[a]) :
              Submit(a, [CategorySelect(page[a], m.cats) EXCEPT !.local.metrics = @ \cup {m}])
        BY DEF NewMetric
    <1>2. m \in Metric /\ m.guid = 0 /\ m.cats \in SUBSET Categories
        BY SettingsAssumption DEF MetricForm, Metric
    <1> DEFINE cats == old.cats \cup m.cats
               c == [old EXCEPT !.cats = cats]
               d == [c EXCEPT !.metrics = @ \cup {m}]
    <1>3. old \in Configuration /\ Sound(old, guids) /\ page[a] \in PageType
        BY LocalFacts
    <1>4. cats \in SUBSET Categories
        BY <1>2, <1>3 DEF Configuration
    <1>5. [CategorySelect(page[a], m.cats) EXCEPT !.local.metrics = @ \cup {m}]
              = [page[a] EXCEPT !.local = d]
        BY <1>3 DEF CategorySelect, PageType, Configuration
    <1> HIDE DEF cats
    <1>6. Sound(c, guids) /\ Dangling(c) = Dangling(old)
        BY <1>3, <1>4, CatsSound
    <1> HIDE DEF c
    <1>7. Sound(d, guids) /\ Dangling(d) \subseteq Dangling(c)
        BY <1>2, <1>6, PageFacts, AddedSound
    <1> HIDE DEF d
    <1>8. Submit(a, [page[a] EXCEPT !.local = d])
        BY <1>1, <1>5
    <1> QED
        BY <1>6, <1>7, <1>8, SubmitInv DEF NewMetric, InView, Edits

\* A form of the partitions is saved.
LEMMA PartitionInv ==
    ASSUME IInv, NEW a \in Admins, page[a].local # None, NEW p \in Parts, NEW part \in Partition,
           part.metrics \subseteq GuidsOf(page[a].local) \cup page[a].local.parts[p].metrics,
           Submit(a, [page[a] EXCEPT !.local.parts[p] = part]), edits' = edits + 1,
           UNCHANGED <<config, version, roles, guids, lost>>
    PROVE  IInv'
    <1> DEFINE old == page[a].local
               c == [old EXCEPT !.parts[p] = part]
    <1>1. Sound(old, guids) /\ old \in Configuration /\ page[a] \in PageType
        BY LocalFacts
    <1>2. Sound(c, guids) /\ Dangling(c) \subseteq Dangling(old)
        BY <1>1, PartSound
    <1>3. [page[a] EXCEPT !.local.parts[p] = part] = [page[a] EXCEPT !.local = c]
        BY <1>1 DEF PageType
    <1> HIDE DEF c
    <1> QED
        BY <1>2, <1>3, SubmitInv

\* A partition of the copy.
LEMMA PartitionFacts ==
    ASSUME IInv, NEW a \in Admins, page[a].local # None, NEW p \in Parts
    PROVE  /\ page[a].local.parts[p] \in Partition
           /\ GuidsOf(page[a].local) \subseteq 0..MaxGuid
    <1>1. page[a].local \in Configuration
        BY LocalFacts
    <1>2. GuidsOf(page[a].local) \subseteq 0..MaxGuid
        BY <1>1 DEF Configuration, GuidsOf, Metric
    <1> QED
        BY <1>1, <1>2 DEF Configuration

\* What a form lists are metrics of the copy, and what was listed before.
LEMMA PartitionItemFacts ==
    ASSUME IInv, NEW a \in Admins, page[a].local # None, NEW p \in Parts,
           NEW listed \in SUBSET (0..MaxGuid), NEW metrics \in PartitionItem(a, listed)
    PROVE  /\ metrics \subseteq GuidsOf(page[a].local) \cup listed
           /\ metrics \in SUBSET (0..MaxGuid)
    BY PartitionFacts DEF PartitionItem

LEMMA SavePartitionInv ==
    ASSUME IInv, NEW a \in Admins, page[a].local # None, SavePartition(a)
    PROVE  IInv'
    <1>1. PICK p \in Parts : \E metrics \in PartitionItem(a, page[a].local.parts[p].metrics) :
              Submit(a, [page[a] EXCEPT
                  !.local.parts[p] = [metrics |-> metrics,
                                      virtual |-> IF p \in page[a].forms THEN None ELSE @.virtual]])
        BY DEF SavePartition
    <1>2. PICK metrics \in PartitionItem(a, page[a].local.parts[p].metrics) :
              Submit(a, [page[a] EXCEPT
                  !.local.parts[p] = [metrics |-> metrics,
                                      virtual |-> IF p \in page[a].forms THEN None ELSE @.virtual]])
        BY <1>1
    <1> DEFINE old == page[a].local.parts[p]
               part == [metrics |-> metrics,
                        virtual |-> IF p \in page[a].forms THEN None ELSE old.virtual]
    <1>3. old \in Partition
        BY PartitionFacts
    <1>4. old.metrics \in SUBSET (0..MaxGuid)
        BY <1>3 DEF Partition
    <1>5. metrics \subseteq GuidsOf(page[a].local) \cup old.metrics /\ metrics \in SUBSET (0..MaxGuid)
        <2> HIDE DEF old
        <2> QED
            BY <1>4, PartitionItemFacts DEF old
    <1>6. part \in Partition /\ part.metrics = metrics
        BY <1>3, <1>5 DEF Partition
    <1>7. Submit(a, [page[a] EXCEPT !.local.parts[p] = part])
        BY <1>2
    <1> HIDE DEF part
    <1> QED
        BY <1>5, <1>6, <1>7, PartitionInv DEF SavePartition, InView, Edits

\* Virtual partitions that replace those of a partition.
LEMMA VirtualInv ==
    ASSUME IInv, NEW a \in Admins, page[a].local # None, NEW p \in Parts,
           NEW virtual \in VirtualPartitions,
           Submit(a, [page[a] EXCEPT !.local.parts[p].virtual = virtual]), edits' = edits + 1,
           UNCHANGED <<config, version, roles, guids, lost>>
    PROVE  IInv'
    <1> DEFINE old == page[a].local.parts[p]
               part == [old EXCEPT !.virtual = virtual]
    <1>1. old \in Partition
        BY PartitionFacts
    <1>2. part \in Partition /\ part.metrics = old.metrics
        BY <1>1 DEF Partition
    <1>3. [page[a] EXCEPT !.local.parts[p].virtual = virtual] = [page[a] EXCEPT !.local.parts[p] = part]
        BY LocalFacts DEF PageType, Configuration
    <1> HIDE DEF part
    <1> QED
        BY <1>2, <1>3, PartitionInv

\* The virtual partitions of a partition.
LEMMA VirtualFacts ==
    ASSUME IInv, NEW a \in Admins, page[a].local # None, NEW p \in Parts,
           page[a].local.parts[p].virtual # None
    PROVE  LET virtual == page[a].local.parts[p].virtual IN
           /\ DOMAIN virtual \subseteq Virtual
           /\ \A v \in DOMAIN virtual : virtual[v] \subseteq 0..MaxGuid
    <1>1. page[a].local.parts[p].virtual \in VirtualPartitions
        BY PartitionFacts DEF Partition
    <1> QED
        BY <1>1 DEF VirtualPartitions

LEMMA VirtualType ==
    ASSUME NEW names \in SUBSET Virtual, NEW virtual \in [names -> SUBSET (0..MaxGuid)]
    PROVE  virtual \in VirtualPartitions
    BY DEF VirtualPartitions

LEMMA SaveVirtualInv ==
    ASSUME IInv, NEW a \in Admins, page[a].local # None, SaveVirtual(a)
    PROVE  IInv'
    <1>1. PICK p \in Parts, v \in Virtual :
              \E metrics \in PartitionItem(a, ListedVirtual(page[a].local.parts[p].virtual, v)) :
                  Submit(a, [page[a] EXCEPT !.local.parts[p].virtual =
                      [u \in {v} \cup (IF @ = None THEN {} ELSE DOMAIN @) |->
                          IF u = v THEN metrics ELSE @[u]]])
        BY DEF SaveVirtual
    <1>2. PICK metrics \in PartitionItem(a, ListedVirtual(page[a].local.parts[p].virtual, v)) :
              Submit(a, [page[a] EXCEPT !.local.parts[p].virtual =
                  [u \in {v} \cup (IF @ = None THEN {} ELSE DOMAIN @) |->
                      IF u = v THEN metrics ELSE @[u]]])
        BY <1>1
    <1> DEFINE old == page[a].local.parts[p].virtual
               names == {v} \cup (IF old = None THEN {} ELSE DOMAIN old)
               new == [u \in names |-> IF u = v THEN metrics ELSE old[u]]
    <1>3. ListedVirtual(old, v) \in SUBSET (0..MaxGuid)
        BY VirtualFacts DEF ListedVirtual
    <1>4. metrics \subseteq 0..MaxGuid
        <2> HIDE DEF old
        <2> QED
            BY <1>3, PartitionItemFacts DEF old
    <1>5. names \subseteq Virtual
        BY VirtualFacts
    <1>6. new \in VirtualPartitions
        <2>1. new \in [names -> SUBSET (0..MaxGuid)]
            BY <1>4, VirtualFacts
        <2> HIDE DEF new, names
        <2> QED
            BY <1>5, <2>1, VirtualType
    <1>7. Submit(a, [page[a] EXCEPT !.local.parts[p].virtual = new])
        BY <1>2
    <1> HIDE DEF new
    <1> QED
        BY <1>6, <1>7, VirtualInv DEF SaveVirtual, InView, Edits

LEMMA DeleteVirtualInv ==
    ASSUME IInv, NEW a \in Admins, page[a].local # None, DeleteVirtual(a)
    PROVE  IInv'
    <1>1. PICK p \in Parts, v \in Virtual :
              /\ page[a].local.parts[p].virtual # None
              /\ Submit(a, [page[a] EXCEPT !.local.parts[p].virtual =
                     [u \in DOMAIN @ \ {v} |-> @[u]]])
        BY DEF DeleteVirtual
    <1> DEFINE old == page[a].local.parts[p].virtual
               names == DOMAIN old \ {v}
               new == [u \in names |-> old[u]]
    <1>2. names \subseteq Virtual
        BY <1>1, VirtualFacts
    <1>3. new \in VirtualPartitions
        <2>1. new \in [names -> SUBSET (0..MaxGuid)]
            BY <1>1, VirtualFacts
        <2> HIDE DEF new, names
        <2> QED
            BY <1>2, <2>1, VirtualType
    <1>4. Submit(a, [page[a] EXCEPT !.local.parts[p].virtual = new])
        BY <1>1
    <1> HIDE DEF new
    <1> QED
        BY <1>3, <1>4, VirtualInv DEF DeleteVirtual, InView, Edits

---------------------------------------------------------------------------
(* Steps of UsersView *)

\* Another state of the form of users.
LEMMA UsersInv ==
    ASSUME NEW pg \in PageType, NEW v, NEW g, NEW c, PageInv(pg, v, g, c),
           NEW users \in UsersType,
           users.shown # None => users.ticked \in Roles
    PROVE  LET new == [pg EXCEPT !.users = users] IN new \in PageType /\ PageInv(new, v, g, c)
    <1> DEFINE new == [pg EXCEPT !.users = users]
    <1>1. /\ new \in PageType /\ new.local = pg.local /\ new.known = pg.known
          /\ new.knownOf = pg.knownOf /\ new.of = pg.of /\ new.shared = pg.shared
          /\ new.users = users
        BY DEF PageType
    <1> HIDE DEF new
    <1>2. PageInv(new, v, g, c)
        BY <1>1 DEF PageInv, SharedInv
    <1> QED
        BY <1>1, <1>2 DEF new

LEMMA LoadInv ==
    ASSUME IInv, NEW a \in Admins, Load(a)
    PROVE  IInv'
    <1> DEFINE overlap == AboutUsers(a) # {}
    <1>1. PICK u \in Users :
              /\ page' = [page EXCEPT ![a].users.asked = u, ![a].users.overlap = overlap]
              /\ Sends(a, "load", [user |-> u, roles |-> {}], 0)
        BY DEF Load
    <1> DEFINE pg == page[a]
               users == [pg.users EXCEPT !.asked = u, !.overlap = overlap]
               r == [by |-> a, click |-> edits, kind |-> "load",
                     body |-> [user |-> u, roles |-> {}], of |-> 0, heard |-> TRUE,
                     status |-> "sent"]
    <1>2. pg \in PageType /\ PageInv(pg, version, guids, config) /\ edits \in Nat
        BY PageFacts
    <1>3. overlap \in BOOLEAN
        OBVIOUS
    <1> HIDE DEF overlap
    <1>4. page' = [page EXCEPT ![a] = [pg EXCEPT !.users = users]]
        BY <1>1, <1>2 DEF PageType, UsersType
    <1>5. users \in UsersType /\ (users.shown # None => users.ticked \in Roles)
        BY <1>2, <1>3 DEF PageType, UsersType, PageInv
    <1>6. r \in Requests /\ RequestInv(r, version, guids, config)
        BY <1>2 DEF Requests, Request, RequestInv
    <1>7. requests' = requests \cup {r}
        BY <1>1 DEF Sends
    <1> HIDE DEF users, r
    <1>8. /\ [pg EXCEPT !.users = users] \in PageType
          /\ PageInv([pg EXCEPT !.users = users], version, guids, config)
        BY <1>2, <1>5, UsersInv
    <1> QED
        BY <1>4, <1>6, <1>7, <1>8, OneRequest, ClickInv DEF Load, InView, Edits

LEMMA TickInv ==
    ASSUME IInv, NEW a \in Admins, Tick(a)
    PROVE  IInv'
    <1>1. PICK rs \in Roles : page' = [page EXCEPT ![a].users.ticked = rs]
        BY DEF Tick
    <1> DEFINE pg == page[a]
               users == [pg.users EXCEPT !.ticked = rs]
    <1>2. pg \in PageType /\ PageInv(pg, version, guids, config)
        BY PageFacts
    <1>3. page' = [page EXCEPT ![a] = [pg EXCEPT !.users = users]]
        BY <1>1, <1>2 DEF PageType, UsersType
    <1>4. users \in UsersType /\ (users.shown # None => users.ticked \in Roles)
        BY <1>2 DEF PageType, UsersType
    <1> HIDE DEF users
    <1>5. /\ [pg EXCEPT !.users = users] \in PageType
          /\ PageInv([pg EXCEPT !.users = users], version, guids, config)
        BY <1>2, <1>4, UsersInv
    <1> QED
        BY <1>3, <1>5, NoRequest, ClickInv DEF Tick, InView, Edits

LEMMA updateUserInv ==
    ASSUME IInv, NEW a \in Admins, updateUser(a)
    PROVE  IInv'
    <1> DEFINE pg == page[a]
               overlap == pg.users.overlap \/ AboutUsers(a) # {}
               users == [pg.users EXCEPT !.overlap = overlap]
               r == [by |-> a, click |-> edits, kind |-> "user",
                     body |-> [user |-> pg.users.shown.user, roles |-> pg.users.ticked],
                     of |-> 0, heard |-> TRUE, status |-> "sent"]
    <1>1. pg \in PageType /\ PageInv(pg, version, guids, config) /\ edits \in Nat
        BY PageFacts
    <1>2. pg.users \in UsersType /\ pg.users.shown \in UserForm /\ pg.users.ticked \in Roles
        BY <1>1 DEF updateUser, PageType, UsersType, PageInv
    <1>3. r \in Requests /\ RequestInv(r, version, guids, config)
        BY <1>1, <1>2 DEF Requests, Request, RequestInv, UserForm
    <1>4. requests' = requests \cup {r}
        BY DEF updateUser, Sends
    <1>5. page' = [page EXCEPT ![a] = [pg EXCEPT !.users = users]]
        BY <1>1, <1>2 DEF updateUser, PageType, UsersType
    <1>6. overlap \in BOOLEAN
        BY <1>2 DEF UsersType
    <1> HIDE DEF overlap
    <1>7. users \in UsersType /\ users.ticked \in Roles
        BY <1>2, <1>6 DEF UsersType
    <1> HIDE DEF r, users
    <1>8. /\ [pg EXCEPT !.users = users] \in PageType
          /\ PageInv([pg EXCEPT !.users = users], version, guids, config)
        BY <1>1, <1>7, UsersInv
    <1> QED
        BY <1>3, <1>4, <1>5, <1>8, OneRequest, ClickInv DEF updateUser, InView, Edits

---------------------------------------------------------------------------
(* Other clients *)

LEMMA PatchConfigInv ==
    ASSUME IInv, NEW a \in Admins, PatchConfig(a)
    PROVE  IInv'
    <1>1. PICK metrics \in SUBSET config.metrics :
              Sends(a, "patch", [config EXCEPT !.metrics = @ \ metrics], version)
        BY DEF PatchConfig
    <1> DEFINE c == [config EXCEPT !.metrics = @ \ metrics]
               r == [by |-> a, click |-> edits, kind |-> "patch", body |-> c, of |-> version,
                     heard |-> TRUE, status |-> "sent"]
    <1>2. edits \in Nat /\ version \in Nat /\ Sound(config, guids) /\ config \in Configuration
        BY PageFacts DEF IInv, ConfigInv, Sound
    <1>3. /\ c \in Configuration /\ c.metrics \subseteq config.metrics /\ c.parts = config.parts
        BY <1>2 DEF Configuration
    <1>4. requests' = requests \cup {r}
        BY <1>1 DEF Sends
    <1> HIDE DEF c
    <1>5. Sound(c, guids)
        BY <1>2, <1>3 DEF Sound, GuidsOf, Distinct
    <1>6. Dangling(c) \subseteq Dangling(config) \cup GuidsOf(config)
        BY <1>3 DEF Dangling
    <1>7. r \in Requests /\ RequestInv(r, version, guids, config)
        BY <1>2, <1>3, <1>5, <1>6 DEF Requests, Request, RequestInv, Copy, Fresh
    <1> HIDE DEF r
    <1>8. page' = [page EXCEPT ![a] = page[a]]
        BY DEF PatchConfig, IInv, PagesInv
    <1> QED
        BY <1>4, <1>7, <1>8, PageFacts, OneRequest, ClickInv DEF PatchConfig, Edits

---------------------------------------------------------------------------
(* The backend *)

\* GUIDs that are given to n metrics when g were given out.
LEMMA GivenFacts ==
    ASSUME NEW g \in Nat, NEW metrics \in SUBSET Metric,
           g + Cardinality(metrics) <= MaxGuid, NEW given \in Given(metrics, g)
    PROVE  /\ given \in SUBSET Metric /\ Distinct(given)
           /\ \A m \in given : m.guid \in (g + 1)..(g + Cardinality(metrics))
    <1> DEFINE n == Cardinality(metrics)
    <1>1. n \in Nat /\ MaxGuid \in Nat
        BY MetricsFinite, FS_CardinalityType, SettingsAssumption
    <1>2. PICK f \in [metrics -> 1..n] :
              /\ \A m, k \in metrics : m # k => f[m] # f[k]
              /\ given = {[m EXCEPT !.guid = g + f[m]] : m \in metrics}
        BY DEF Given
    <1> HIDE DEF n
    <1>3. \A m \in metrics : g + f[m] \in 0..MaxGuid /\ g + f[m] \in (g + 1)..(g + n)
        BY <1>1 DEF n
    <1>4. \A m \in metrics : /\ [m EXCEPT !.guid = g + f[m]] \in Metric
                             /\ [m EXCEPT !.guid = g + f[m]].guid = g + f[m]
        BY <1>3 DEF Metric
    <1>5. \A m \in given : \E k \in metrics : m = [k EXCEPT !.guid = g + f[k]] /\ m.guid = g + f[k]
        BY <1>2, <1>4
    <1>6. given \in SUBSET Metric /\ \A m \in given : m.guid \in (g + 1)..(g + n)
        BY <1>3, <1>4, <1>5
    <1>7. Distinct(given)
        <2> SUFFICES ASSUME NEW m \in given, NEW k \in given, m # k PROVE m.guid # k.guid
            BY DEF Distinct
        <2>1. PICK i \in metrics : m = [i EXCEPT !.guid = g + f[i]] /\ m.guid = g + f[i]
            BY <1>5
        <2>2. PICK j \in metrics : k = [j EXCEPT !.guid = g + f[j]] /\ k.guid = g + f[j]
            BY <1>5
        <2>3. i # j
            BY <2>1, <2>2
        <2>4. f[i] # f[j] /\ f[i] \in Nat /\ f[j] \in Nat
            BY <1>1, <1>2, <2>3 DEF n
        <2> QED
            BY <2>1, <2>2, <2>4
    <1> QED
        BY <1>6, <1>7 DEF n

\* A copy whose new metrics are those given, and what is saved of it.
Completed(c, given) == [c EXCEPT !.metrics = (@ \ New(@)) \cup given]
Saved(conf, deleted) == [conf EXCEPT !.parts = RemoveMissingMetrics(@, deleted)]

\* What is saved of a copy is sound, every metric has a GUID, and GUIDs are kept.
SavedWell(c, conf, saved, deleted, h) ==
    /\ Sound(saved, h)
    /\ \A m \in saved.metrics : m.guid # 0
    /\ GuidsOf(saved) = GuidsOf(conf) /\ GuidsOf(c) \subseteq GuidsOf(conf) \cup {0}
    /\ \A p \in Parts : saved.parts[p].metrics = c.parts[p].metrics \ deleted

LEMMA SavedFacts ==
    ASSUME NEW g \in Nat, NEW c, Sound(c, g), NEW deleted,
           g + Cardinality(New(c.metrics)) <= MaxGuid, NEW given \in Given(New(c.metrics), g)
    PROVE  SavedWell(c, Completed(c, given), Saved(Completed(c, given), deleted), deleted,
                     g + Cardinality(New(c.metrics)))
    <1> DEFINE n == Cardinality(New(c.metrics))
               metrics == (c.metrics \ New(c.metrics)) \cup given
               conf == Completed(c, given)
               parts == RemoveMissingMetrics(c.parts, deleted)
               saved == Saved(conf, deleted)
    <1>1. c \in Configuration /\ New(c.metrics) \in SUBSET Metric
        BY DEF Sound, Configuration, New
    <1>2. n \in Nat
        BY <1>1, MetricsFinite, FS_CardinalityType
    <1>3. /\ given \in SUBSET Metric /\ Distinct(given)
          /\ \A m \in given : m.guid \in (g + 1)..(g + n)
        BY <1>1, GivenFacts
    <1>4. /\ parts \in [Parts -> Partition]
          /\ \A p \in Parts : parts[p].metrics = c.parts[p].metrics \ deleted
        <2>1. \A p \in Parts : c.parts[p] \in Partition
            BY <1>1 DEF Configuration
        <2>2. \A p \in Parts : /\ parts[p] \in Partition
                               /\ parts[p].metrics = c.parts[p].metrics \ deleted
            BY <2>1 DEF RemoveMissingMetrics, Partition
        <2> QED
            BY <2>2 DEF RemoveMissingMetrics
    <1> HIDE DEF parts, n
    <1>5. metrics \in SUBSET Metric
        BY <1>1, <1>3 DEF Configuration
    <1>6. /\ saved \in Configuration /\ saved.metrics = metrics /\ saved.parts = parts
          /\ conf.metrics = metrics
        <2>1. conf \in Configuration /\ conf.metrics = metrics /\ conf.parts = c.parts
            BY <1>1, <1>5 DEF Configuration, Completed
        <2> HIDE DEF conf
        <2>2. saved = [conf EXCEPT !.parts = parts]
            BY <2>1 DEF Saved, parts
        <2> QED
            BY <1>4, <2>1, <2>2 DEF Configuration
    <1> HIDE DEF saved, conf
    <1>7. \A m \in c.metrics \ New(c.metrics) : m.guid # 0 /\ m.guid \in 0..g
        BY DEF New, Sound, GuidsOf
    <1>8. \A m \in metrics : m.guid # 0 /\ m.guid \in 0..(g + n)
        BY <1>2, <1>3, <1>7
    <1>9. Distinct(metrics)
        <2> SUFFICES ASSUME NEW m \in metrics, NEW k \in metrics, m # k PROVE m.guid # k.guid
            BY DEF Distinct
        <2>1. CASE m \in given /\ k \in given
            BY <1>2, <1>3, <2>1 DEF Distinct
        <2>2. CASE m \notin given /\ k \notin given
            BY <1>7, <2>2 DEF Sound, Distinct
        <2>3. CASE m \in given /\ k \notin given
            BY <1>2, <1>3, <1>7, <2>3
        <2>4. CASE m \notin given /\ k \in given
            BY <1>2, <1>3, <1>7, <2>4
        <2> QED
            BY <2>1, <2>2, <2>3, <2>4
    <1>10. GuidsOf(saved) = GuidsOf(conf) /\ GuidsOf(c) \subseteq GuidsOf(conf) \cup {0}
        BY <1>6 DEF GuidsOf, New
    <1>11. GuidsOf(saved) \subseteq 0..(g + n)
        BY <1>6, <1>8 DEF GuidsOf
    <1>12. Sound(saved, g + n)
        BY <1>6, <1>9, <1>11 DEF Sound
    <1> QED
        BY <1>4, <1>6, <1>8, <1>10, <1>12 DEF SavedWell, saved, conf, n

\* Copies stay sound while GUIDs are given out, and grow old.
LEMMA CopyAges ==
    ASSUME NEW v \in Nat, NEW g \in Nat, NEW h \in Nat, g <= h, NEW D, NEW E,
           NEW c, NEW of \in Nat, Copy(c, of, v, g, D)
    PROVE  Copy(c, of, v + 1, h, E)
    <1>1. 0..g \subseteq 0..h
        OBVIOUS
    <1>2. Sound(c, h)
        BY <1>1 DEF Copy, Sound
    <1> QED
        BY <1>2 DEF Copy, Fresh

LEMMA PageAges ==
    ASSUME NEW v \in Nat, NEW g \in Nat, NEW h \in Nat, g <= h, NEW c, NEW d,
           NEW pg \in PageType, PageInv(pg, v, g, c)
    PROVE  PageInv(pg, v + 1, h, d)
    <1>1. pg.knownOf \in Nat /\ pg.of \in Nat
        BY DEF PageType
    <1>2. pg.knownOf <= v + 1 /\ pg.of <= v + 1
        BY <1>1 DEF PageInv
    <1>3. pg.known # None => Copy(pg.known, pg.knownOf, v + 1, h, Dangling(d))
        BY <1>1, CopyAges DEF PageInv
    <1>4. pg.local # None => Copy(pg.local, pg.of, v + 1, h, Dangling(d))
        BY <1>1, CopyAges DEF PageInv
    <1> QED
        BY <1>2, <1>3, <1>4 DEF PageInv

LEMMA RequestAges ==
    ASSUME NEW v \in Nat, NEW g \in Nat, NEW h \in Nat, g <= h, NEW c, NEW d,
           NEW r \in Requests, RequestInv(r, v, g, c)
    PROVE  RequestInv(r, v + 1, h, d)
    <1>1. r.of \in Nat
        BY DEF Requests, Request
    <1>2. r.kind = "config" => Copy(r.body, r.of, v + 1, h, Dangling(d))
        BY <1>1, CopyAges DEF RequestInv
    <1>3. r.kind = "patch" => Copy(r.body, r.of, v + 1, h, Dangling(d) \cup GuidsOf(d))
        BY <1>1, CopyAges DEF RequestInv
    <1> QED
        BY <1>2, <1>3 DEF RequestInv

\* The answer of an update.
ConfigAnswer(r, body, of) == [r EXCEPT !.status = "ok", !.body = body, !.of = of]

LEMMA SavedAnswer ==
    ASSUME NEW r \in Request("config", Configuration, Nat), NEW body \in Configuration, NEW of \in Nat
    PROVE  LET q == ConfigAnswer(r, body, of)
           IN  /\ q \in Request("config", Configuration, Nat)
               /\ q.kind = "config" /\ q.body = body /\ q.of = of
    BY DEF ConfigAnswer, Request

\* A new configuration, whose copies are all older but for the one in the answer q.
LEMMA NewVersion ==
    ASSUME IInv, NEW h \in Nat, guids <= h, h <= MaxGuid,
           NEW c, Sound(c, h), \A m \in c.metrics : m.guid # 0,
           config' = c, version' = version + 1, guids' = h,
           UNCHANGED <<roles, page, edits, lost>>,
           NewRequestsInv(version + 1, h, c)
    PROVE  IInv'
    <1>1. /\ guids \in Nat /\ guids >= 1 /\ version \in Nat
          /\ page \in [Admins -> PageType] /\ requests \subseteq Requests
        BY DEF IInv, Counts, PagesInv, RequestsInv
    <1>2. Counts' /\ roles' \in [Users -> Roles]
        BY <1>1, SettingsAssumption DEF IInv, Counts
    <1>3. ConfigInv'
        BY DEF ConfigInv
    <1>4. PagesInv'
        <2>1. \A a \in Admins : PageInv(page[a], version + 1, h, c)
            BY <1>1, PageAges DEF IInv, PagesInv
        <2> QED
            BY <1>1, <2>1 DEF PagesInv
    <1>5. RequestsInv'
        <2>1. \A q \in requests : RequestInv(q, version + 1, h, c)
            BY <1>1, RequestAges DEF IInv, RequestsInv
        <2> QED
            BY <1>1, <2>1 DEF RequestsInv, NewRequestsInv
    <1> QED
        BY <1>2, <1>3, <1>4, <1>5 DEF IInv

\* The updated configuration, of a request r: nothing dangles that did not before, if
\* the copy sent is of the version of now, but what has a new GUID.
LEMMA UpdateConfigInv ==
    ASSUME IInv, NEW r \in requests, UpdateConfig(r)
    PROVE  /\ IInv'
           /\ r.of = version =>
                 Dangling(config') \subseteq Dangling(config) \cup {m.guid : m \in New(r.body.metrics)}
    <1> DEFINE n == Cardinality(New(r.body.metrics))
    <1>1. guids \in Nat /\ version \in Nat /\ requests \subseteq Requests
        BY DEF IInv, Counts, RequestsInv
    <1>2. /\ r.kind \in {"config", "patch"} /\ guids' = guids + n /\ guids' <= MaxGuid
          /\ version' = version + 1 /\ UNCHANGED <<roles, page, edits, lost>>
        BY DEF UpdateConfig
    <1>3. Copy(r.body, r.of, version, guids, Dangling(config) \cup GuidsOf(config))
        BY <1>2 DEF IInv, RequestsInv, RequestInv, Copy, Fresh
    <1>4. Sound(r.body, guids) /\ r.body \in Configuration /\ New(r.body.metrics) \in SUBSET Metric
        BY <1>3 DEF Copy, Sound, Configuration, New
    <1>5. n \in Nat
        BY <1>4, MetricsFinite, FS_CardinalityType
    <1>6. PICK given \in Given(New(r.body.metrics), guids) :
              LET conf == [r.body EXCEPT !.metrics = (@ \ New(@)) \cup given]
                  saved == [conf EXCEPT !.parts =
                                RemoveMissingMetrics(@, GetDeletedMetrics(conf, config))]
              IN /\ config' = saved
                 /\ requests' = (requests \ {r}) \cup
                        (IF r.kind = "patch" THEN {}
                         ELSE {[r EXCEPT !.status = "ok", !.body = saved, !.of = version + 1]})
        BY DEF UpdateConfig
    <1> DEFINE conf == Completed(r.body, given)
               deleted == GetDeletedMetrics(conf, config)
               saved == Saved(conf, deleted)
               answer == ConfigAnswer(r, saved, version + 1)
    <1>7. /\ config' = saved
          /\ requests' = (requests \ {r}) \cup (IF r.kind = "patch" THEN {} ELSE {answer})
        BY <1>6 DEF ConfigAnswer, Completed, Saved
    <1>8. /\ Sound(saved, guids + n)
          /\ \A m \in saved.metrics : m.guid # 0
          /\ GuidsOf(saved) = GuidsOf(conf) /\ GuidsOf(r.body) \subseteq GuidsOf(conf) \cup {0}
          /\ \A p \in Parts : saved.parts[p].metrics = r.body.parts[p].metrics \ deleted
        <2>1. guids + Cardinality(New(r.body.metrics)) <= MaxGuid
            BY <1>2
        <2> HIDE DEF deleted
        <2>2. SavedWell(r.body, conf, saved, deleted, guids + n)
            BY <1>1, <1>4, <2>1, SavedFacts
        <2> HIDE DEF conf, saved, n
        <2> QED
            BY <2>2 DEF SavedWell
    <1> HIDE DEF saved, n, conf
    <1>9. Copy(saved, version + 1, version + 1, guids + n, Dangling(saved)) /\ saved \in Configuration
        BY <1>1, <1>8 DEF Copy, Fresh, Sound
    <1>10. r.kind = "config" =>
               answer \in Requests /\ RequestInv(answer, version + 1, guids + n, saved)
        <2> SUFFICES ASSUME r.kind = "config"
                     PROVE  answer \in Requests /\ RequestInv(answer, version + 1, guids + n, saved)
            OBVIOUS
        <2>1. r \in Request("config", Configuration, Nat)
            BY <1>1 DEF Requests, Request
        <2>2. /\ answer \in Request("config", Configuration, Nat)
              /\ answer.kind = "config" /\ answer.body = saved /\ answer.of = version + 1
            <3>1. version + 1 \in Nat /\ saved \in Configuration
                BY <1>1, <1>9
            <3> QED
                BY <2>1, <3>1, SavedAnswer
        <2> HIDE DEF answer
        <2> QED
            BY <1>9, <2>2 DEF Requests, RequestInv
    <1> HIDE DEF answer
    <1>11. guids + n \in Nat /\ guids <= guids + n
        BY <1>1, <1>5
    <1>12. NewRequestsInv(version + 1, guids + n, saved)
        BY <1>2, <1>7, <1>10, NoRequest, OneRequest
    <1>13. IInv'
        BY <1>2, <1>7, <1>8, <1>11, <1>12, NewVersion
    <1>14. ASSUME r.of = version, NEW g \in Dangling(saved)
           PROVE  g \in Dangling(config) \cup {m.guid : m \in New(r.body.metrics)}
        <2>1. g \notin GuidsOf(conf) /\ g \notin deleted
                /\ \E p \in Parts : g \in r.body.parts[p].metrics
            BY <1>8, <1>14 DEF Dangling
        <2>2. CASE g \in GuidsOf(r.body)
            BY <1>8, <2>1, <2>2 DEF GuidsOf, New
        <2>3. CASE g \notin GuidsOf(r.body)
            <3>1. g \in Dangling(r.body)
                BY <2>1, <2>3 DEF Dangling
            <3>2. g \in Dangling(config) \cup GuidsOf(config)
                BY <1>3, <1>14, <3>1 DEF Copy, Fresh
            <3>3. g \notin GuidsOf(config)
                BY <2>1 DEF GetDeletedMetrics
            <3> QED
                BY <3>2, <3>3
        <2> QED
            BY <2>2, <2>3
    <1> QED
        BY <1>7, <1>13, <1>14

\* A request changes otherwise: it is answered, or goes away with its answer.
LEMMA AnswerInv ==
    ASSUME IInv, NEW a \in Admins, NEW pg \in PageType,
           PageInv(pg, version, guids, config),
           page' = [page EXCEPT ![a] = pg],
           NewRequestsInv(version, guids, config),
           roles' \in [Users -> Roles], lost' \in Nat,
           UNCHANGED <<config, version, guids, edits>>
    PROVE  IInv'
    <1>1. Counts' /\ ConfigInv'
        BY DEF IInv, Counts, ConfigInv
    <1>2. PagesInv'
        BY DEF IInv, PagesInv
    <1>3. RequestsInv'
        BY DEF IInv, RequestsInv, NewRequestsInv
    <1> QED
        BY <1>1, <1>2, <1>3 DEF IInv

\* What is known of a request.
LEMMA RequestFacts ==
    ASSUME IInv, NEW r \in requests
    PROVE  /\ r \in Requests /\ RequestInv(r, version, guids, config) /\ r.by \in Admins
           /\ page = [page EXCEPT ![r.by] = page[r.by]]
    BY DEF IInv, PagesInv, RequestsInv, Requests, Request

LEMMA SetUserConfigInv ==
    ASSUME IInv, NEW r \in requests, SetUserConfig(r)
    PROVE  IInv'
    <1> DEFINE q == [r EXCEPT !.status = "ok"]
    <1>1. r.kind = "user" /\ roles' = [roles EXCEPT ![r.body.user] = r.body.roles]
            /\ requests' = (requests \ {r}) \cup {q} /\ UNCHANGED <<config, version, guids, page, edits, lost>>
        BY DEF SetUserConfig
    <1>2. r \in Request("user", UserForm, {0})
        BY <1>1, RequestFacts DEF Requests, Request
    <1>3. q \in Requests /\ RequestInv(q, version, guids, config)
        BY <1>2 DEF Requests, Request, RequestInv
    <1>4. roles' \in [Users -> Roles]
        BY <1>1, <1>2 DEF IInv, Request, UserForm
    <1> HIDE DEF q
    <1> QED
        BY <1>1, <1>3, <1>4, RequestFacts, PageFacts, OneRequest, AnswerInv DEF IInv, Counts

LEMMA GetUserConfigInv ==
    ASSUME IInv, NEW r \in requests, GetUserConfig(r)
    PROVE  IInv'
    <1> DEFINE body == [r.body EXCEPT !.roles = roles[r.body.user]]
               q == [r EXCEPT !.status = "ok", !.body.roles = roles[r.body.user]]
    <1>1. r.kind = "load" /\ requests' = (requests \ {r}) \cup {q}
            /\ UNCHANGED <<config, version, roles, guids, page, edits, lost>>
        BY DEF GetUserConfig
    <1>2. r \in Request("load", [user : Users, roles : Roles \cup {{}}], {0})
        BY <1>1, RequestFacts DEF Requests, Request
    <1>3. /\ q = [r EXCEPT !.status = "ok", !.body = body]
          /\ body \in UserForm /\ body \in [user : Users, roles : Roles \cup {{}}]
        BY <1>2 DEF Request, IInv, UserForm
    <1> HIDE DEF body
    <1>4. q \in Requests /\ RequestInv(q, version, guids, config)
        BY <1>2, <1>3 DEF Requests, Request, RequestInv, UserForm
    <1> HIDE DEF q
    <1> QED
        BY <1>1, <1>4, RequestFacts, PageFacts, OneRequest, AnswerInv DEF IInv, Counts

---------------------------------------------------------------------------
(* Answers *)

LEMMA ConfigAnsweredInv ==
    ASSUME IInv, NEW r \in requests, ConfigAnswered(r)
    PROVE  IInv'
    <1> DEFINE a == r.by
               pg == page[a]
               new == [pg EXCEPT !.known = r.body, !.knownOf = r.of, !.shared = {}]
    <1>1. r.kind = "config" /\ requests' = requests \ {r} /\ UNCHANGED <<config, version, roles, guids, edits, lost>>
        BY DEF ConfigAnswered
    <1>2. a \in Admins /\ pg \in PageType /\ PageInv(pg, version, guids, config)
        BY RequestFacts, PageFacts
    <1>3. /\ Copy(r.body, r.of, version, guids, Dangling(config))
          /\ r.body \in Configuration /\ r.of \in Nat
        BY <1>1, RequestFacts DEF RequestInv, Requests, Request
    <1>4. page' = [page EXCEPT ![a] = new]
        BY <1>2 DEF ConfigAnswered, PageType
    <1>5. /\ new \in PageType /\ new.known = r.body /\ new.knownOf = r.of /\ new.shared = {}
          /\ new.local = pg.local /\ new.of = pg.of /\ new.users = pg.users
        BY <1>2, <1>3 DEF PageType
    <1> HIDE DEF new
    <1>6. PageInv(new, version, guids, config)
        BY <1>2, <1>3, <1>5 DEF PageInv, SharedInv, Copy, Fresh
    <1> QED
        BY <1>1, <1>2, <1>4, <1>5, <1>6, NoRequest, AnswerInv DEF IInv, Counts

LEMMA UserAnsweredInv ==
    ASSUME IInv, NEW r \in requests, UserAnswered(r)
    PROVE  IInv'
    <1> DEFINE a == r.by
               pg == page[a]
               ticked == Reinitialized(pg.users, r.body)
               users == [pg.users EXCEPT !.shown = r.body, !.ticked = ticked]
    <1>1. r.kind \in {"load", "user"} /\ r.status = "ok" /\ requests' = requests \ {r}
            /\ UNCHANGED <<config, version, roles, guids, edits, lost>>
        BY DEF UserAnswered
    <1>2. /\ a \in Admins /\ pg \in PageType /\ PageInv(pg, version, guids, config)
          /\ page = [page EXCEPT ![a] = pg]
        BY RequestFacts, PageFacts
    <1>3. CASE ~r.heard
        BY <1>1, <1>2, <1>3, NoRequest, AnswerInv DEF UserAnswered, IInv, Counts
    <1>4. CASE r.heard
        <2>1. r.body \in UserForm
            BY <1>1, RequestFacts DEF Requests, Request, RequestInv, UserForm
        <2>2. ticked \in Roles
            BY <1>2, <2>1 DEF Reinitialized, PageInv, UserForm
        <2>3. page' = [page EXCEPT ![a] = [pg EXCEPT !.users = users]]
            BY <1>2, <1>4 DEF UserAnswered, PageType, UsersType
        <2> HIDE DEF ticked
        <2>4. /\ users \in UsersType
              /\ users.ticked \in Roles
            BY <1>2, <2>1, <2>2 DEF PageType, UsersType
        <2> HIDE DEF users
        <2>5. /\ [pg EXCEPT !.users = users] \in PageType
              /\ PageInv([pg EXCEPT !.users = users], version, guids, config)
            BY <1>2, <2>4, UsersInv
        <2> QED
            BY <1>1, <1>2, <2>3, <2>5, NoRequest, AnswerInv DEF IInv, Counts
    <1> QED
        BY <1>3, <1>4

LEMMA RequestFailsInv ==
    ASSUME IInv, NEW r \in requests, RequestFails(r)
    PROVE  IInv'
    <1> DEFINE a == r.by
               pg == page[a]
               users == WithoutUser(pg.users)
    <1>1. requests' = requests \ {r} /\ lost' = lost + 1
            /\ UNCHANGED <<config, version, roles, guids, edits>>
        BY DEF RequestFails
    <1>2. /\ a \in Admins /\ pg \in PageType /\ PageInv(pg, version, guids, config)
          /\ page = [page EXCEPT ![a] = pg] /\ lost' \in Nat /\ roles' \in [Users -> Roles]
        BY <1>1, RequestFacts, PageFacts DEF IInv, Counts
    <1>3. CASE page' = page
        BY <1>1, <1>2, <1>3, NoRequest, AnswerInv
    <1>4. CASE page' = [page EXCEPT ![a].users = WithoutUser(@)]
        <2>1. page' = [page EXCEPT ![a] = [pg EXCEPT !.users = users]]
            BY <1>2, <1>4 DEF PageType
        <2>2. users \in UsersType /\ users.shown = None
            BY <1>2 DEF PageType, UsersType, WithoutUser
        <2> HIDE DEF users
        <2>3. /\ [pg EXCEPT !.users = users] \in PageType
              /\ PageInv([pg EXCEPT !.users = users], version, guids, config)
            BY <1>2, <2>2, UsersInv
        <2> QED
            BY <1>1, <1>2, <2>1, <2>3, NoRequest, AnswerInv
    <1> QED
        BY <1>3, <1>4 DEF RequestFails

---------------------------------------------------------------------------
(* The theorems *)

LEMMA InitInv ==
    ASSUME Init
    PROVE  IInv
    <1>1. PICK name \in Names, c \in Categories :
              config = [metrics |-> {[name |-> name, guid |-> 1, cats |-> {c}]}, cats |-> {c},
                        parts |-> [p \in Parts |-> [metrics |-> {1}, virtual |-> None]]]
        BY DEF Init
    <1>2. 1 \in 0..MaxGuid /\ 1 \in 1..MaxGuid
        BY SettingsAssumption
    <1>3. config \in Configuration
        BY <1>1, <1>2 DEF Configuration, Metric, Partition
    <1>4. ConfigInv
        <2>1. GuidsOf(config) = {1} /\ guids = 1
            BY <1>1 DEF GuidsOf, Init
        <2>2. Distinct(config.metrics) /\ \A m \in config.metrics : m.guid # 0
            <3> DEFINE first == [name |-> name, guid |-> 1, cats |-> {c}]
            <3>1. config.metrics = {first} /\ first.guid = 1
                BY <1>1
            <3> HIDE DEF first
            <3> QED
                BY <3>1 DEF Distinct
        <2> QED
            BY <1>3, <2>1, <2>2 DEF ConfigInv, Sound
    <1>5. PagesInv
        <2>1. EmptyPage \in PageType
            BY DEF EmptyPage, PageType, NoUser, UsersType
        <2>2. PageInv(EmptyPage, 0, guids, config)
            BY DEF EmptyPage, NoUser, PageInv, SharedInv
        <2> QED
            BY <2>1, <2>2 DEF Init, PagesInv
    <1>6. Counts /\ roles \in [Users -> Roles] /\ RequestsInv
        BY <1>2 DEF Init, Counts, RequestsInv
    <1> QED
        BY <1>4, <1>5, <1>6 DEF IInv

LEMMA NextInv ==
    ASSUME IInv, [Next]_vars
    PROVE  IInv'
    <1>1. CASE UNCHANGED vars
        BY <1>1 DEF vars, IInv, Counts, ConfigInv, PagesInv, RequestsInv
    <1>2. ASSUME NEW a \in Admins, useGetConfig(a) \/ setSettingsView(a) \/ PatchConfig(a)
          PROVE  IInv'
        BY <1>2, useGetConfigInv, setSettingsViewInv, PatchConfigInv
    <1>3. ASSUME NEW a \in Admins, EditsUsers(a) PROVE IInv'
        BY <1>3, LoadInv, TickInv, updateUserInv DEF EditsUsers
    <1>4. ASSUME NEW a \in Admins, page[a].local # None, EditsConfig(a) PROVE IInv'
        <2>1. CASE NewCategoryInput(a) \/ removeCategory(a)
            BY <1>4, <2>1, NewCategoryInputInv, removeCategoryInv
        <2>2. CASE NewMetric(a) \/ SaveConfig(a)
            BY <1>4, <2>2, NewMetricInv, SaveConfigInv
        <2>3. CASE \E m \in Metric, c \in Categories : m \in page[a].local.metrics /\ DeleteMetric(a, m, c)
            BY <1>4, <2>3, DeleteMetricInv
        <2>4. CASE SavePartition(a) \/ SaveVirtual(a) \/ DeleteVirtual(a)
            BY <1>4, <2>4, SavePartitionInv, SaveVirtualInv, DeleteVirtualInv
        <2> QED
            BY <1>4, <2>1, <2>2, <2>3, <2>4 DEF EditsConfig
    <1>5. ASSUME NEW r \in requests, UpdateConfig(r) \/ SetUserConfig(r) \/ GetUserConfig(r) PROVE IInv'
        BY <1>5, UpdateConfigInv, SetUserConfigInv, GetUserConfigInv
    <1>6. ASSUME NEW r \in requests, ConfigAnswered(r) \/ UserAnswered(r) \/ RequestFails(r) PROVE IInv'
        BY <1>6, ConfigAnsweredInv, UserAnsweredInv, RequestFailsInv
    <1> QED
        BY <1>1, <1>2, <1>3, <1>4, <1>5, <1>6 DEF Next

\* The invariant of configuration, copies and requests holds in every behaviour.
THEOREM Invariance == Spec => []IInv
    BY InitInv, NextInv, PTL DEF Spec

\* Every metric of the backend has a GUID of its own, in whatever order administrators
\* save copies of whatever age, with the page or without.
THEOREM SettingsCorrect == Spec => []Inv
    <1>1. ASSUME IInv PROVE Inv
        <2>1. config \in Configuration /\ GuidsAreUnique
            BY <1>1 DEF IInv, ConfigInv, Sound, Distinct, GuidsAreUnique
        <2>2. \A a \in Admins :
                 /\ {page[a].known, page[a].local} \subseteq Configuration \cup {None}
                 /\ page[a].of <= version /\ page[a].knownOf <= version
            BY <1>1, PageFacts DEF PageType, PageInv
        <2>3. TypeOK
            BY <1>1, <2>1, <2>2 DEF TypeOK, IInv, Counts
        <2> QED
            BY <2>1, <2>3 DEF Inv
    <1> QED
        BY Invariance, <1>1, PTL

\* Who saves a copy of the configuration of now leaves no reference to a metric it lacks.
THEOREM ReferencesCorrect == Spec => ReferencesAreRemoved
    <1>1. ASSUME IInv, [Next]_vars
          PROVE  [\A r \in requests :
                     UpdateConfig(r) /\ r.of = version =>
                         Dangling(config')
                           \subseteq Dangling(config) \cup {m.guid : m \in New(r.body.metrics)}]_vars
        BY <1>1, UpdateConfigInv
    <1> QED
        BY Invariance, <1>1, PTL DEF Spec, ReferencesAreRemoved

---------------------------------------------------------------------------
(* The form of users *)

\* While answers do not overlap, the tab waits for one at most. It is about the user asked
\* for last, and so is the form, unless that user is being loaded.
FormInv(a) ==
    LET users == page[a].users IN
    ~users.overlap =>
        /\ \A q, r \in AboutUsers(a) : q = r
        /\ \A r \in AboutUsers(a) : r.body.user = users.asked
        /\ users.shown # None /\ (\A r \in AboutUsers(a) : r.kind # "load") =>
               users.shown.user = users.asked

FormsInv == \A a \in Admins : FormInv(a)

\* Requests of other kinds do not matter.
LEMMA SameAbout ==
    ASSUME NEW a,
           \A q : q.kind \in {"load", "user"} => (q \in requests' <=> q \in requests)
    PROVE  AboutUsers(a)' = AboutUsers(a)
    BY DEF AboutUsers

LEMMA SameForm ==
    ASSUME NEW a \in Admins, FormInv(a), page'[a].users = page[a].users,
           AboutUsers(a)' = AboutUsers(a)
    PROVE  FormInv(a)'
    BY DEF FormInv

LEMMA SubmitForm ==
    ASSUME page \in [Admins -> PageType], NEW b \in Admins, NEW pg, Submit(b, pg),
           "users" \in DOMAIN pg, pg.users = page[b].users, NEW a \in Admins
    PROVE  page'[a].users = page[a].users /\ AboutUsers(a)' = AboutUsers(a)
    <1>1. page'[a].users = page[a].users
        BY DEF Submit
    <1>2. PICK r : r.kind = "config" /\ requests' = requests \cup {r}
        BY DEF Submit, Sends
    <1> QED
        BY <1>1, <1>2, SameAbout

\* Edits of the configuration.
LEMMA EditsConfigForm ==
    ASSUME page \in [Admins -> PageType], NEW b \in Admins, EditsConfig(b), NEW a \in Admins
    PROVE  page'[a].users = page[a].users /\ AboutUsers(a)' = AboutUsers(a)
    <1>1. page[b] \in PageType /\ "users" \in DOMAIN page[b]
        BY DEF PageType
    <1>2. CASE NewCategoryInput(b)
        <2>1. page'[a].users = page[a].users
            BY <1>1, <1>2 DEF NewCategoryInput, addCategory, InPlace
        <2> QED
            BY <1>2, <2>1, SameAbout DEF NewCategoryInput
    <1>3. CASE removeCategory(b)
        <2>1. page'[a].users = page[a].users
            BY <1>1, <1>3 DEF removeCategory
        <2> QED
            BY <1>3, <2>1, SameAbout DEF removeCategory
    <1>4. CASE \E m \in Metric, c \in Categories : m \in page[b].local.metrics /\ DeleteMetric(b, m, c)
        <2>1. page'[a].users = page[a].users
            BY <1>1, <1>4 DEF DeleteMetric, deleteMetric, InPlace
        <2> QED
            BY <1>4, <2>1, SameAbout DEF DeleteMetric
    <1>5. ASSUME NEW pg, Submit(b, pg), "users" \in DOMAIN pg, pg.users = page[b].users
          PROVE  page'[a].users = page[a].users /\ AboutUsers(a)' = AboutUsers(a)
        BY <1>5, SubmitForm
    <1>6. CASE NewMetric(b)
        <2>1. PICK m \in MetricForm(page[b]) :
                  Submit(b, [CategorySelect(page[b], m.cats) EXCEPT !.local.metrics = @ \cup {m}])
            BY <1>6 DEF NewMetric
        <2> DEFINE pg == [CategorySelect(page[b], m.cats) EXCEPT !.local.metrics = @ \cup {m}]
        <2>2. "users" \in DOMAIN pg /\ pg.users = page[b].users
            BY <1>1 DEF CategorySelect
        <2> HIDE DEF pg
        <2> QED
            BY <1>5, <2>1, <2>2 DEF pg
    <1>7. CASE SaveConfig(b)
        BY <1>1, <1>5, <1>7 DEF SaveConfig
    <1>8. ASSUME NEW local, Submit(b, [page[b] EXCEPT !.local = local])
          PROVE  page'[a].users = page[a].users /\ AboutUsers(a)' = AboutUsers(a)
        <2> DEFINE pg == [page[b] EXCEPT !.local = local]
        <2>1. "users" \in DOMAIN pg /\ pg.users = page[b].users
            BY <1>1
        <2> QED
            BY <1>5, <1>8, <2>1
    <1>9. CASE SavePartition(b)
        BY <1>8, <1>9 DEF SavePartition
    <1>10. CASE SaveVirtual(b)
        BY <1>8, <1>10 DEF SaveVirtual
    <1>11. CASE DeleteVirtual(b)
        BY <1>8, <1>11 DEF DeleteVirtual
    <1> QED
        BY <1>2, <1>3, <1>4, <1>6, <1>7, <1>9, <1>10, <1>11 DEF EditsConfig

\* Clicks in the tab of users, and on other tabs.
LEMMA LoadForm ==
    ASSUME IInv, NEW b \in Admins, Load(b), NEW a \in Admins, FormInv(a)
    PROVE  FormInv(a)'
    <1> DEFINE overlap == AboutUsers(b) # {}
    <1>1. PICK u \in Users :
              /\ page' = [page EXCEPT ![b].users.asked = u, ![b].users.overlap = overlap]
              /\ Sends(b, "load", [user |-> u, roles |-> {}], 0)
        BY DEF Load
    <1> DEFINE r == [by |-> b, click |-> edits, kind |-> "load",
                     body |-> [user |-> u, roles |-> {}], of |-> 0, heard |-> TRUE,
                     status |-> "sent"]
    <1>2. requests' = requests \cup {r}
        BY <1>1 DEF Sends
    <1>3. r.by = b /\ r.kind = "load" /\ r.heard = TRUE /\ r.body.user = u
        OBVIOUS
    <1>4. page[a] \in PageType /\ page[b] \in PageType /\ page \in [Admins -> PageType]
        BY PageFacts DEF IInv, PagesInv
    <1> HIDE DEF r
    <1>5. CASE a # b
        <2>1. page'[a].users = page[a].users
            BY <1>1, <1>4, <1>5
        <2>2. AboutUsers(a)' = AboutUsers(a)
            BY <1>2, <1>3, <1>5 DEF AboutUsers
        <2> QED
            BY <2>1, <2>2, SameForm
    <1>6. CASE a = b
        <2>1. AboutUsers(a)' = AboutUsers(a) \cup {r}
            BY <1>2, <1>3, <1>6 DEF AboutUsers
        <2>2. page'[a].users.asked = u /\ (page'[a].users.overlap <=> overlap)
            BY <1>1, <1>4, <1>6 DEF PageType, UsersType
        <2>3. CASE overlap
            BY <2>2, <2>3 DEF FormInv
        <2>4. CASE ~overlap
            <3>1. AboutUsers(a)' = {r}
                BY <1>6, <2>1, <2>4
            <3> QED
                BY <1>3, <2>2, <3>1 DEF FormInv
        <2> QED
            BY <2>3, <2>4
    <1> QED
        BY <1>5, <1>6

LEMMA updateUserForm ==
    ASSUME IInv, NEW b \in Admins, updateUser(b), NEW a \in Admins, FormInv(a)
    PROVE  FormInv(a)'
    <1> DEFINE overlap == page[b].users.overlap \/ AboutUsers(b) # {}
               u == page[b].users.shown.user
               r == [by |-> b, click |-> edits, kind |-> "user",
                     body |-> [user |-> u, roles |-> page[b].users.ticked],
                     of |-> 0, heard |-> TRUE, status |-> "sent"]
    <1>1. /\ page[b].users.shown # None /\ page' = [page EXCEPT ![b].users.overlap = overlap]
          /\ requests' = requests \cup {r}
        BY DEF updateUser, Sends
    <1>2. r.by = b /\ r.kind = "user" /\ r.heard = TRUE /\ r.body.user = u
        OBVIOUS
    <1>3. page[a] \in PageType /\ page[b] \in PageType /\ page \in [Admins -> PageType]
        BY PageFacts DEF IInv, PagesInv
    <1> HIDE DEF r
    <1>4. CASE a # b
        <2>1. page'[a].users = page[a].users
            BY <1>1, <1>3, <1>4
        <2>2. AboutUsers(a)' = AboutUsers(a)
            BY <1>1, <1>2, <1>4 DEF AboutUsers
        <2> QED
            BY <2>1, <2>2, SameForm
    <1>5. CASE a = b
        <2>1. AboutUsers(a)' = AboutUsers(a) \cup {r}
            BY <1>1, <1>2, <1>5 DEF AboutUsers
        <2>2. /\ page'[a].users.asked = page[a].users.asked
              /\ page'[a].users.shown = page[a].users.shown
              /\ (page'[a].users.overlap <=> overlap)
            BY <1>1, <1>3, <1>5 DEF PageType, UsersType
        <2>3. CASE overlap
            BY <2>2, <2>3 DEF FormInv
        <2>4. CASE ~overlap
            <3>1. AboutUsers(a) = {} /\ AboutUsers(a)' = {r} /\ ~page[a].users.overlap
                BY <1>5, <2>1, <2>4
            <3>2. u = page[a].users.asked
                BY <1>1, <1>5, <3>1 DEF FormInv
            <3> QED
                BY <1>2, <1>5, <2>2, <3>1, <3>2 DEF FormInv
        <2> QED
            BY <2>3, <2>4
    <1> QED
        BY <1>4, <1>5

LEMMA setSettingsViewForm ==
    ASSUME IInv, NEW b \in Admins, setSettingsView(b), NEW a \in Admins, FormInv(a)
    PROVE  FormInv(a)'
    <1>1. requests' = (requests \ AboutUsers(b)) \cup
                          {[r EXCEPT !.heard = FALSE] : r \in AboutUsers(b)}
        BY DEF setSettingsView
    <1>2. \A r \in AboutUsers(b) : /\ r \in requests /\ r.by = b
                                   /\ [r EXCEPT !.heard = FALSE].by = b
                                   /\ [r EXCEPT !.heard = FALSE].heard = FALSE
        BY DEF AboutUsers, IInv, RequestsInv, Requests, Request
    <1>3. page \in [Admins -> PageType]
        BY DEF IInv, PagesInv
    <1>4. CASE a # b
        <2>1. page'[a].users = page[a].users
            BY <1>3, <1>4 DEF setSettingsView
        <2>2. AboutUsers(a)' = AboutUsers(a)
            BY <1>1, <1>2, <1>4 DEF AboutUsers
        <2> QED
            BY <2>1, <2>2, SameForm
    <1>5. CASE a = b
        <2>1. page'[a].users.shown = None
            BY <1>3, <1>5 DEF setSettingsView, PageType, NoUser
        <2>2. AboutUsers(a)' = {}
            BY <1>1, <1>2, <1>5 DEF AboutUsers
        <2> QED
            BY <2>1, <2>2 DEF FormInv
    <1> QED
        BY <1>4, <1>5

\* The backend answers a request: the answer is about the same user.
LEMMA AnsweredForm ==
    ASSUME NEW r \in requests, NEW q, requests' = (requests \ {r}) \cup {q}, page' = page,
           q.by = r.by, q.kind = r.kind, q.heard = r.heard,
           r.kind \in {"load", "user"} => q.body.user = r.body.user,
           NEW a \in Admins, FormInv(a)
    PROVE  FormInv(a)'
    <1>1. CASE r \notin AboutUsers(a)
        <2>1. AboutUsers(a)' = AboutUsers(a)
            BY <1>1 DEF AboutUsers
        <2> QED
            BY <2>1, SameForm
    <1>2. CASE r \in AboutUsers(a)
        <2>1. AboutUsers(a)' = (AboutUsers(a) \ {r}) \cup {q} /\ r.kind \in {"load", "user"}
            BY <1>2 DEF AboutUsers
        <2>2. CASE page[a].users.overlap
            BY <2>2 DEF FormInv
        <2>3. CASE ~page[a].users.overlap
            <3>1. AboutUsers(a) = {r} /\ AboutUsers(a)' = {q}
                BY <1>2, <2>1, <2>3 DEF FormInv
            <3> QED
                BY <2>1, <2>3, <3>1 DEF FormInv
        <2> QED
            BY <2>2, <2>3
    <1> QED
        BY <1>1, <1>2

LEMMA BackendForm ==
    ASSUME IInv, NEW r \in requests, UpdateConfig(r) \/ SetUserConfig(r) \/ GetUserConfig(r),
           NEW a \in Admins, FormInv(a)
    PROVE  FormInv(a)'
    <1>1. r \in Requests
        BY RequestFacts
    <1>2. CASE UpdateConfig(r)
        <2>1. PICK saved : requests' = (requests \ {r}) \cup
                  (IF r.kind = "patch" THEN {}
                   ELSE {[r EXCEPT !.status = "ok", !.body = saved, !.of = version + 1]})
            BY <1>2 DEF UpdateConfig
        <2> DEFINE q == [r EXCEPT !.status = "ok", !.body = saved, !.of = version + 1]
        <2>2. r.kind \in {"config", "patch"} /\ page' = page /\ (r.kind # "patch" => q.kind = "config")
            BY <1>1, <1>2 DEF UpdateConfig, Requests, Request
        <2> HIDE DEF q
        <2>3. AboutUsers(a)' = AboutUsers(a)
            BY <2>1, <2>2 DEF q, AboutUsers
        <2> QED
            BY <2>2, <2>3, SameForm
    <1>3. CASE SetUserConfig(r)
        <2> DEFINE q == [r EXCEPT !.status = "ok"]
        <2>1. q.by = r.by /\ q.kind = r.kind /\ q.heard = r.heard /\ q.body = r.body
            BY <1>1 DEF Requests, Request
        <2>2. requests' = (requests \ {r}) \cup {q} /\ page' = page
            BY <1>3 DEF SetUserConfig
        <2> HIDE DEF q
        <2> QED
            BY <2>1, <2>2, AnsweredForm
    <1>4. CASE GetUserConfig(r)
        <2> DEFINE q == [r EXCEPT !.status = "ok", !.body.roles = roles[r.body.user]]
        <2>1. r \in Request("load", [user : Users, roles : Roles \cup {{}}], {0})
            BY <1>1, <1>4 DEF GetUserConfig, Requests, Request
        <2>2. q.by = r.by /\ q.kind = r.kind /\ q.heard = r.heard /\ q.body.user = r.body.user
            BY <2>1 DEF Request
        <2>3. requests' = (requests \ {r}) \cup {q} /\ page' = page
            BY <1>4 DEF GetUserConfig
        <2> HIDE DEF q
        <2> QED
            BY <2>2, <2>3, AnsweredForm
    <1> QED
        BY <1>2, <1>3, <1>4

LEMMA UserAnsweredForm ==
    ASSUME IInv, NEW r \in requests, UserAnswered(r), NEW a \in Admins, FormInv(a)
    PROVE  FormInv(a)'
    <1>1. page \in [Admins -> PageType] /\ r.by \in Admins /\ requests' = requests \ {r}
        BY RequestFacts DEF IInv, PagesInv, UserAnswered
    <1>2. CASE r \notin AboutUsers(a)
        <2>1. page'[a].users = page[a].users
            BY <1>1, <1>2 DEF UserAnswered, AboutUsers
        <2>2. AboutUsers(a)' = AboutUsers(a)
            BY <1>1, <1>2 DEF AboutUsers
        <2> QED
            BY <2>1, <2>2, SameForm
    <1>3. CASE r \in AboutUsers(a)
        <2>1. r.by = a /\ r.heard
            BY <1>3 DEF AboutUsers
        <2>2. /\ page'[a].users.shown = r.body
              /\ page'[a].users.asked = page[a].users.asked
              /\ page'[a].users.overlap = page[a].users.overlap
            BY <1>1, <2>1 DEF UserAnswered, PageType, UsersType
        <2>3. CASE page[a].users.overlap
            BY <2>2, <2>3 DEF FormInv
        <2>4. CASE ~page[a].users.overlap
            <3>1. AboutUsers(a) = {r} /\ r.body.user = page[a].users.asked
                BY <1>3, <2>4 DEF FormInv
            <3>2. AboutUsers(a)' = {}
                BY <1>1, <3>1 DEF AboutUsers
            <3> QED
                BY <2>2, <3>1, <3>2 DEF FormInv
        <2> QED
            BY <2>3, <2>4
    <1> QED
        BY <1>2, <1>3

LEMMA RequestFailsForm ==
    ASSUME IInv, NEW r \in requests, RequestFails(r), NEW a \in Admins, FormInv(a)
    PROVE  FormInv(a)'
    <1>1. page \in [Admins -> PageType] /\ r.by \in Admins /\ requests' = requests \ {r}
        BY RequestFacts DEF IInv, PagesInv, RequestFails
    <1>2. CASE r \notin AboutUsers(a)
        <2>1. page'[a].users = page[a].users
            BY <1>1, <1>2 DEF RequestFails, AboutUsers
        <2>2. AboutUsers(a)' = AboutUsers(a)
            BY <1>1, <1>2 DEF AboutUsers
        <2> QED
            BY <2>1, <2>2, SameForm
    <1>3. CASE r \in AboutUsers(a)
        <2>1. r.by = a /\ r.heard /\ r.kind \in {"load", "user"}
            BY <1>3 DEF AboutUsers
        <2>2. /\ page'[a].users.overlap = page[a].users.overlap
              /\ r.kind = "load" => page'[a].users.shown = None
              /\ r.kind # "load" => page'[a].users = page[a].users
            BY <1>1, <2>1 DEF RequestFails, WithoutUser, PageType, UsersType
        <2>3. CASE page[a].users.overlap
            BY <2>2, <2>3 DEF FormInv
        <2>4. CASE ~page[a].users.overlap
            <3>1. AboutUsers(a) = {r}
                BY <1>3, <2>4 DEF FormInv
            <3>2. AboutUsers(a)' = {}
                BY <1>1, <3>1 DEF AboutUsers
            <3>3. r.kind # "load" /\ page[a].users.shown # None =>
                      page[a].users.shown.user = page[a].users.asked
                BY <2>4, <3>1 DEF FormInv
            <3> QED
                BY <2>2, <3>2, <3>3 DEF FormInv
        <2> QED
            BY <2>3, <2>4
    <1> QED
        BY <1>2, <1>3

LEMMA NextForm ==
    ASSUME IInv, [Next]_vars, FormsInv
    PROVE  FormsInv'
    <1> SUFFICES ASSUME NEW a \in Admins PROVE FormInv(a)'
        BY DEF FormsInv
    <1>1. FormInv(a) /\ page \in [Admins -> PageType]
        BY DEF FormsInv, IInv, PagesInv
    <1>2. CASE UNCHANGED vars
        BY <1>1, <1>2, SameForm, SameAbout DEF vars
    <1>3. ASSUME NEW b \in Admins,
                 useGetConfig(b) \/ PatchConfig(b) \/ Tick(b) \/ (page[b].local # None /\ EditsConfig(b))
          PROVE  FormInv(a)'
        <2>1. CASE useGetConfig(b)
            <3>1. page'[a].users = page[a].users
                BY <1>1, <2>1 DEF useGetConfig, PageType
            <3> QED
                BY <1>1, <2>1, <3>1, SameForm, SameAbout DEF useGetConfig
        <2>2. CASE PatchConfig(b)
            <3>1. PICK r : r.kind = "patch" /\ requests' = requests \cup {r}
                BY <2>2 DEF PatchConfig, Sends
            <3>2. AboutUsers(a)' = AboutUsers(a)
                BY <3>1, SameAbout
            <3> QED
                BY <1>1, <2>2, <3>2, SameForm DEF PatchConfig
        <2>3. CASE Tick(b)
            <3>1. /\ page'[a].users.asked = page[a].users.asked
                  /\ page'[a].users.shown = page[a].users.shown
                  /\ page'[a].users.overlap = page[a].users.overlap
                BY <1>1, <2>3 DEF Tick, PageType, UsersType
            <3>2. AboutUsers(a)' = AboutUsers(a)
                BY <2>3, SameAbout DEF Tick
            <3> QED
                BY <1>1, <3>1, <3>2 DEF FormInv
        <2>4. CASE page[b].local # None /\ EditsConfig(b)
            BY <1>1, <2>4, EditsConfigForm, SameForm
        <2> QED
            BY <1>3, <2>1, <2>2, <2>3, <2>4
    <1>4. ASSUME NEW b \in Admins, setSettingsView(b) \/ Load(b) \/ updateUser(b)
          PROVE  FormInv(a)'
        BY <1>1, <1>4, setSettingsViewForm, LoadForm, updateUserForm
    <1>5. ASSUME NEW r \in requests, UpdateConfig(r) \/ SetUserConfig(r) \/ GetUserConfig(r)
          PROVE  FormInv(a)'
        BY <1>1, <1>5, BackendForm
    <1>6. ASSUME NEW r \in requests, ConfigAnswered(r)
          PROVE  FormInv(a)'
        <2>1. page'[a].users = page[a].users
            BY <1>1, <1>6, RequestFacts DEF ConfigAnswered, PageType
        <2>2. AboutUsers(a)' = AboutUsers(a)
            BY <1>6, SameAbout DEF ConfigAnswered
        <2> QED
            BY <1>1, <2>1, <2>2, SameForm
    <1>7. ASSUME NEW r \in requests, UserAnswered(r) \/ RequestFails(r)
          PROVE  FormInv(a)'
        BY <1>1, <1>7, UserAnsweredForm, RequestFailsForm
    <1> QED
        BY <1>2, <1>3, <1>4, <1>5, <1>6, <1>7 DEF Next, EditsUsers

\* Whose answers were waited for has the form of the user asked for last, whatever other
\* administrators do and whichever requests fail.
THEOREM FormCorrect == Spec => []FormShowsUserAsked
    <1>1. Init => FormsInv
        BY DEF Init, FormsInv, FormInv, EmptyPage, NoUser, AboutUsers
    <1>2. FormsInv => FormShowsUserAsked
        BY DEF FormsInv, FormInv, FormShowsUserAsked
    <1>3. IInv /\ FormsInv /\ [Next]_vars => FormsInv'
        BY NextForm
    <1> QED
        BY Invariance, <1>1, <1>2, <1>3, PTL DEF Spec

===========================================================================
