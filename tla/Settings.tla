------------------------------ MODULE Settings ------------------------------
(***************************************************************************)
(* The settings page of several administrators, and the configuration of   *)
(* the backend they change: metrics in their categories, partitions that   *)
(* list metrics, and the roles of users. A tab of the page copies what the *)
(* page knows when it is opened; JavaScript copies objects, not what they  *)
(* hold, so that most changes of the copy change what the page knows too.  *)
(* Administrators may also use the API of the backend without the page.    *)
(*                                                                         *)
(* Metrics are told apart by their names and GUIDs. A page is not loaded   *)
(* anew: the page of another administrator does as well.                   *)
(***************************************************************************)
EXTENDS Naturals, FiniteSets

CONSTANTS
    Admins,         \* administrators with the page open
    Names,          \* names for metrics
    Categories,     \* names of categories
    Parts, Virtual, \* names of partitions and of virtual partitions
    Users, Roles,   \* users, and sets of roles they may be given
    None,
    MaxGuid,        \* bound: GUIDs
    MaxEdits,       \* bound: clicks
    MaxLost         \* bound: requests that fail

ASSUME SettingsAssumption ==
    /\ IsFiniteSet(Names) /\ IsFiniteSet(Categories)
    /\ {MaxGuid, MaxEdits, MaxLost} \subseteq Nat /\ MaxGuid >= 1

VARIABLES
    config,         \* the configuration of the backend
    version,        \* how often it was updated
    roles,          \* [Users -> roles in the store]
    guids,          \* GUIDs given out so far
    page,           \* [Admins -> what the page knows and shows]
    requests,       \* requests under way
    edits, lost

vars == <<config, version, roles, guids, page, requests, edits, lost>>

---------------------------------------------------------------------------
(* Data *)

\* A metric that is new to the backend has no GUID yet, here 0.
Metric == [name : Names, guid : 0..MaxGuid, cats : SUBSET Categories]

VirtualPartitions == UNION {[names -> SUBSET (0..MaxGuid)] : names \in SUBSET Virtual}

Partition == [metrics : SUBSET (0..MaxGuid), virtual : VirtualPartitions \cup {None}]

Configuration ==
    [metrics : SUBSET Metric, cats : SUBSET Categories, parts : [Parts -> Partition]]

ASSUME NoConfiguration == None \notin Configuration

GuidsOf(c) == {m.guid : m \in c.metrics}

\* Metrics that a partition lists and that are not there: the backend does not start with
\* a configuration that has any (config.go:297-303). Virtual partitions are not examined.
Dangling(c) == (UNION {c.parts[p].metrics : p \in Parts}) \ GuidsOf(c)

\* known: config of the page; local: lConfig of the tab; shared: the fields whose objects
\* the two have in common; of: the version of the backend's configuration local stems
\* from; forms: partitions whose form was opened when they had no virtual partitions;
\* users: the user asked for last, the one whose form is shown and its boxes; and, as a
\* history, whether a request of the tab was sent before another was answered, since the
\* last user was asked for.
NoUser == [asked |-> None, shown |-> None, ticked |-> {}, overlap |-> FALSE]
EmptyPage == [view |-> "General", known |-> None, knownOf |-> 0, local |-> None, of |-> 0,
              shared |-> {}, forms |-> {}, users |-> NoUser]

Fields == {"metrics", "cats", "parts"}

---------------------------------------------------------------------------
(* The page *)

Edits == edits < MaxEdits /\ edits' = edits + 1

\* Requests are told apart by the click that sent them. The answers to those about users
\* are for the tab that sent them.
Sends(a, kind, body, of) ==
    requests' = requests \cup {[by |-> a, click |-> edits, kind |-> kind, body |-> body,
                                of |-> of, heard |-> TRUE, status |-> "sent"]}

AboutUsers(a) == {r \in requests : r.by = a /\ r.kind \in {"load", "user"} /\ r.heard}

\* What the page knows first.
useGetConfig(a) ==
    /\ page[a].known = None
    /\ page' = [page EXCEPT ![a].known = config, ![a].knownOf = version]
    /\ UNCHANGED <<config, version, roles, guids, requests, edits, lost>>

\* A tab is opened: MetricsView and PartitionsView start from what the page knows. Nobody
\* waits any more for the answers to the tab that is closed.
setSettingsView(a) ==
    /\ page[a].known # None /\ Edits
    /\ requests' = (requests \ AboutUsers(a)) \cup
                       {[r EXCEPT !.heard = FALSE] : r \in AboutUsers(a)}
    /\ \E view \in {"Metrics", "Partitions", "Users"} \ {page[a].view} :
          page' = [page EXCEPT ![a] = [@ EXCEPT
              !.view = view,
              !.local = IF view = "Users" THEN None ELSE page[a].known,
              !.of = IF view = "Users" THEN 0 ELSE page[a].knownOf,
              !.shared = IF view = "Users" THEN {} ELSE Fields,
              !.forms = IF view # "Partitions" THEN {}
                        ELSE {p \in Parts : page[a].known.parts[p].virtual = None},
              !.users = NoUser]]
    /\ UNCHANGED <<config, version, roles, guids, lost>>

\* local becomes c. What the page knows shares the fields that were changed in place.
InPlace(pg, field, c) ==
    [pg EXCEPT !.local = c,
               !.known = IF field \in pg.shared THEN [pg.known EXCEPT ![field] = c[field]]
                         ELSE pg.known]

\* setAndSubmit: the page knows c, which is the local copy itself, and sends it.
Submit(a, pg) ==
    /\ page' = [page EXCEPT ![a] = [pg EXCEPT !.known = pg.local, !.knownOf = pg.of,
                                              !.shared = Fields]]
    /\ Sends(a, "config", pg.local, pg.of)

InView(a, view) == page[a].view = view /\ Edits

\* MetricsView. Adding a category is local, and changes the array in place.
addCategory(pg, c) == InPlace(pg, "cats", [pg.local EXCEPT !.cats = @ \cup {c}])

NewCategoryInput(a) ==
    /\ InView(a, "Metrics")
    /\ \E c \in Categories \ page[a].local.cats :
          page' = [page EXCEPT ![a] = addCategory(@, c)]
    /\ UNCHANGED <<config, version, roles, guids, requests, lost>>

\* Removing one makes another array.
removeCategory(a) ==
    /\ InView(a, "Metrics")
    /\ \E c \in page[a].local.cats :
          page' = [page EXCEPT ![a].local.cats = @ \ {c}, ![a].shared = @ \ {"cats"}]
    /\ UNCHANGED <<config, version, roles, guids, requests, lost>>

removeCategoryFromMetric(metrics, m, c) == (metrics \ {m}) \cup {[m EXCEPT !.cats = @ \ {c}]}

\* The button deletes a metric of one category, and then sets its entry in the list as
\* it was before: the list keeps it. Any other metric leaves the category.
DeletedFrom(metrics, m, c) ==
    IF m.cats = {c} THEN metrics ELSE removeCategoryFromMetric(metrics, m, c)

deleteMetric(pg, m, c) ==
    InPlace(pg, "metrics", [pg.local EXCEPT !.metrics = DeletedFrom(@, m, c)])

DeleteMetric(a, m, c) ==
    /\ InView(a, "Metrics")
    /\ c \in page[a].local.cats \cap m.cats
    /\ page' = [page EXCEPT ![a] = deleteMetric(@, m, c)]
    /\ UNCHANGED <<config, version, roles, guids, requests, lost>>

\* The categories in a form: any of those offered may go, and others be created.
CategorySelect(pg, cats) == [pg EXCEPT !.local.cats = @ \cup cats]

\* What may be in the form for a new metric.
MetricForm(pg) ==
    {[name |-> name, guid |-> 0, cats |-> cats] :
        name \in Names \ {m.name : m \in pg.local.metrics}, cats \in SUBSET Categories}

\* The form that every category has pushes the metric and saves at once.
NewMetric(a) ==
    /\ InView(a, "Metrics") /\ page[a].local.cats # {}
    /\ \E m \in MetricForm(page[a]) :
          Submit(a, [CategorySelect(page[a], m.cats) EXCEPT !.local.metrics = @ \cup {m}])
    /\ UNCHANGED <<config, version, roles, guids, lost>>

SaveConfig(a) ==
    /\ InView(a, "Metrics")
    /\ Submit(a, page[a])
    /\ UNCHANGED <<config, version, roles, guids, lost>>

\* The form of a partition that lists some metrics: there is a box for each of the metrics
\* of the tab, and what is listed without a box stays. (A metric just added has a box
\* too. Its value is empty; whether Formik lists it then is left open.)
PartitionItem(a, listed) ==
    {ticked \cup (listed \ GuidsOf(page[a].local)) : ticked \in SUBSET GuidsOf(page[a].local)}

\* PartitionsView: every form saves at once. One opened without virtual partitions
\* takes away those the partition was given since.
SavePartition(a) ==
    /\ InView(a, "Partitions")
    /\ \E p \in Parts : \E metrics \in PartitionItem(a, page[a].local.parts[p].metrics) :
          Submit(a, [page[a] EXCEPT
              !.local.parts[p] = [metrics |-> metrics,
                                  virtual |-> IF p \in page[a].forms THEN None ELSE @.virtual]])
    /\ UNCHANGED <<config, version, roles, guids, lost>>

\* Metrics that the virtual partition v lists, if there is one.
ListedVirtual(virtual, v) ==
    IF virtual # None /\ v \in DOMAIN virtual THEN virtual[v] ELSE {}

\* A virtual partition is added to p, by way of a new one that is made virtual, or saved.
SaveVirtual(a) ==
    /\ InView(a, "Partitions")
    /\ \E p \in Parts, v \in Virtual :
       \E metrics \in PartitionItem(a, ListedVirtual(page[a].local.parts[p].virtual, v)) :
          Submit(a, [page[a] EXCEPT !.local.parts[p].virtual =
              [u \in {v} \cup (IF @ = None THEN {} ELSE DOMAIN @) |->
                  IF u = v THEN metrics ELSE @[u]]])
    /\ UNCHANGED <<config, version, roles, guids, lost>>

DeleteVirtual(a) ==
    /\ InView(a, "Partitions")
    /\ \E p \in Parts, v \in Virtual :
          /\ page[a].local.parts[p].virtual # None /\ v \in DOMAIN page[a].local.parts[p].virtual
          /\ Submit(a, [page[a] EXCEPT !.local.parts[p].virtual =
                 [u \in DOMAIN @ \ {v} |-> @[u]]])
    /\ UNCHANGED <<config, version, roles, guids, lost>>

---------------------------------------------------------------------------
(* UsersView *)

\* A user's name is entered: the tab asks for the user.
Load(a) ==
    /\ InView(a, "Users")
    /\ \E u \in Users \ {page[a].users.asked} :
          /\ page' = [page EXCEPT ![a].users.asked = u,
                                  ![a].users.overlap = AboutUsers(a) # {}]
          /\ Sends(a, "load", [user |-> u, roles |-> {}], 0)
    /\ UNCHANGED <<config, version, roles, guids, lost>>

\* The boxes of the form.
Tick(a) ==
    /\ InView(a, "Users") /\ page[a].users.shown # None
    /\ \E rs \in Roles \ {page[a].users.ticked} : page' = [page EXCEPT ![a].users.ticked = rs]
    /\ UNCHANGED <<config, version, roles, guids, requests, lost>>

\* The form sends the user it shows; the address names the one asked for last, which
\* the backend does not look at.
updateUser(a) ==
    /\ InView(a, "Users") /\ page[a].users.shown # None
    /\ page' = [page EXCEPT ![a].users.overlap = @ \/ AboutUsers(a) # {}]
    /\ Sends(a, "user", [user |-> page[a].users.shown.user,
                         roles |-> page[a].users.ticked], 0)
    /\ UNCHANGED <<config, version, roles, guids, lost>>

---------------------------------------------------------------------------
(* Other clients of the API *)

\* An administrator takes the configuration from the backend and sends it back without
\* some of the metrics, but not without the references to them.
PatchConfig(a) ==
    /\ Edits
    /\ \E metrics \in (SUBSET config.metrics) \ {{}} :
          Sends(a, "patch", [config EXCEPT !.metrics = @ \ metrics], version)
    /\ UNCHANGED <<config, version, roles, guids, page, lost>>

---------------------------------------------------------------------------
(* The backend *)

\* The ways to give each of the metrics a GUID of its own.
Given(metrics, first) ==
    LET places == {f \in [metrics -> 1..Cardinality(metrics)] :
                      \A m, n \in metrics : m # n => f[m] # f[n]}
    IN {{[m EXCEPT !.guid = first + f[m]] : m \in metrics} : f \in places}

\* Mutant of New: the loop over the metrics gives GUIDs to copies of them.
NewInCopies(metrics) == {}

\* Metrics that are given a GUID.
New(metrics) == {m \in metrics : m.guid = 0}

GetDeletedMetrics(new, old) == GuidsOf(old) \ GuidsOf(new)

\* Mutant of RemoveMissingMetrics: the partitions are changed in copies.
RemovedInCopies(parts, deleted) == parts

\* References of partitions to deleted metrics are removed; not those of virtual ones.
RemoveMissingMetrics(parts, deleted) ==
    [p \in Parts |-> [parts[p] EXCEPT !.metrics = @ \ deleted]]

\* Nobody here waits for the answer to another client.
UpdateConfig(r) ==
    /\ r.kind \in {"config", "patch"} /\ r.status = "sent"
    /\ guids' = guids + Cardinality(New(r.body.metrics)) /\ guids' <= MaxGuid
    /\ \E given \in Given(New(r.body.metrics), guids) :
          LET conf == [r.body EXCEPT !.metrics = (@ \ New(@)) \cup given]
              deleted == GetDeletedMetrics(conf, config)
              saved == [conf EXCEPT !.parts = RemoveMissingMetrics(@, deleted)]
          IN /\ config' = saved /\ version' = version + 1
             /\ requests' = (requests \ {r}) \cup
                    (IF r.kind = "patch" THEN {}
                     ELSE {[r EXCEPT !.status = "ok", !.body = saved, !.of = version + 1]})
    /\ UNCHANGED <<roles, page, edits, lost>>

SetUserConfig(r) ==
    /\ r.kind = "user" /\ r.status = "sent"
    /\ roles' = [roles EXCEPT ![r.body.user] = r.body.roles]
    /\ requests' = (requests \ {r}) \cup {[r EXCEPT !.status = "ok"]}
    /\ UNCHANGED <<config, version, guids, page, edits, lost>>

GetUserConfig(r) ==
    /\ r.kind = "load" /\ r.status = "sent"
    /\ requests' = (requests \ {r}) \cup
           {[r EXCEPT !.status = "ok", !.body.roles = roles[r.body.user]]}
    /\ UNCHANGED <<config, version, roles, guids, page, edits, lost>>

---------------------------------------------------------------------------
(* Answers *)

\* The page knows what the backend has; the tab keeps its copy.
ConfigAnswered(r) ==
    /\ r.kind = "config" /\ r.status = "ok"
    /\ requests' = requests \ {r}
    /\ page' = [page EXCEPT ![r.by].known = r.body, ![r.by].knownOf = r.of, ![r.by].shared = {}]
    /\ UNCHANGED <<config, version, roles, guids, edits, lost>>

\* Formik starts anew when the roles it is given are others than before.
Reinitialized(users, shown) ==
    IF users.shown # None /\ users.shown.roles = shown.roles THEN users.ticked ELSE shown.roles

\* A user that was loaded or saved is shown, also when another was asked for meanwhile.
UserAnswered(r) ==
    /\ r.kind \in {"load", "user"} /\ r.status = "ok"
    /\ requests' = requests \ {r}
    /\ page' = IF ~r.heard THEN page
               ELSE [page EXCEPT ![r.by].users.shown = r.body,
                                 ![r.by].users.ticked = Reinitialized(page[r.by].users, r.body)]
    /\ UNCHANGED <<config, version, roles, guids, edits, lost>>

\* Mutant of WithoutUser: the form of the user before stays.
WithUserBefore(users) == users

\* Without a user there is no form.
WithoutUser(users) == [users EXCEPT !.shown = None, !.ticked = {}]

\* A request that fails shows a message; nothing else is undone.
RequestFails(r) ==
    /\ lost < MaxLost /\ lost' = lost + 1
    /\ r.status = "sent"
    /\ requests' = requests \ {r}
    /\ page' = IF r.kind = "load" /\ r.heard
               THEN [page EXCEPT ![r.by].users = WithoutUser(@)] ELSE page
    /\ UNCHANGED <<config, version, roles, guids, edits>>

---------------------------------------------------------------------------

\* One metric in a category, and partitions that list it.
Init ==
    /\ \E name \in Names, c \in Categories :
          config = [metrics |-> {[name |-> name, guid |-> 1, cats |-> {c}]}, cats |-> {c},
                    parts |-> [p \in Parts |-> [metrics |-> {1}, virtual |-> None]]]
    /\ version = 0 /\ guids = 1
    /\ roles \in [Users -> Roles]
    /\ page = [a \in Admins |-> EmptyPage]
    /\ requests = {} /\ edits = 0 /\ lost = 0

EditsConfig(a) ==
    \/ NewCategoryInput(a) \/ removeCategory(a) \/ NewMetric(a) \/ SaveConfig(a)
    \/ \E m \in Metric, c \in Categories : m \in page[a].local.metrics /\ DeleteMetric(a, m, c)
    \/ SavePartition(a) \/ SaveVirtual(a) \/ DeleteVirtual(a)

EditsUsers(a) == Load(a) \/ Tick(a) \/ updateUser(a)

Next ==
    \/ \E a \in Admins :
          useGetConfig(a) \/ setSettingsView(a) \/ EditsUsers(a) \/ PatchConfig(a)
    \/ \E a \in Admins : page[a].local # None /\ EditsConfig(a)
    \/ \E r \in requests :
          \/ UpdateConfig(r) \/ SetUserConfig(r) \/ GetUserConfig(r)
          \/ ConfigAnswered(r) \/ UserAnswered(r) \/ RequestFails(r)

Spec == Init /\ [][Next]_vars

---------------------------------------------------------------------------
(* Properties *)

\* The configuration and what pages know are well-formed; no copy is of a later version
\* than the configuration.
TypeOK ==
    /\ config \in Configuration
    /\ guids \in 1..MaxGuid
    /\ roles \in [Users -> Roles]
    /\ \A a \in Admins :
          /\ {page[a].known, page[a].local} \subseteq Configuration \cup {None}
          /\ page[a].of <= version /\ page[a].knownOf <= version

\* Every metric of the backend has a GUID of its own, whatever copies are saved: also one
\* whose metric was given a GUID meanwhile, and one that brings back a metric.
GuidsAreUnique ==
    \A m, n \in config.metrics : m.guid # 0 /\ (m # n => m.guid # n.guid)

\* The state is well-formed, and GUIDs identify metrics.
Inv == TypeOK /\ GuidsAreUnique

\* Who saves a copy of the configuration of now leaves no partition with a metric that
\* is not there, whatever the page did to the copy and whichever metrics it lacks;
\* except a new metric, which is listed without the GUID it is given now. (An older copy
\* may: see SavedConfigurationLoads.)
ReferencesAreRemoved ==
    [][\A r \in requests :
          UpdateConfig(r) /\ r.of = version =>
              Dangling(config')
                \subseteq Dangling(config) \cup {m.guid : m \in New(r.body.metrics)}]_vars

\* When the tab waits for nothing, its form is that of the user asked for last, so that
\* the user in the address of a save is the one in its body; or there is no form, also
\* when there was one of another user before a request failed. This is so whenever the
\* administrator waited for the answers since that user was asked for: answers are put
\* on the form in the order they come.
FormShowsUserAsked ==
    \A a \in Admins :
        LET users == page[a].users IN
        AboutUsers(a) = {} /\ ~users.overlap =>
            users.shown = None \/ users.shown.user = users.asked

---------------------------------------------------------------------------
(* What a comment of the code claims *)

\* MetricsView.tsx:369: "If the metric belongs to a single category it will be removed from
\* the metric configuration."
DeleteRemovesMetric ==
    [][\A a \in Admins : \A m \in Metric : \A c \in Categories :
          page[a].local # None /\ m \in page[a].local.metrics /\ m.cats = {c}
            /\ DeleteMetric(a, m, c) => m \notin page[a]'.local.metrics]_vars

\* config.go:292: "Check for each partition and radar chart that all used metric GUIDs are
\* configured". What UpdateConfig writes to the file need not pass this check.
SavedConfigurationLoads == Dangling(config) = {}

===========================================================================
