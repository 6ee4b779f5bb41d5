---------------------------- MODULE ConfigEdits -----------------------------
(***************************************************************************)
(* The configuration and the two copies the web client edits: the one of     *)
(* App (sidebar, model switch) and the one of the settings panel.  An edit    *)
(* changes a copy and posts the whole of it; passwords and keys never reach   *)
(* a copy, so the server puts them back (core_lib config.rs, main.rs).        *)
(* An item is a connection or an AI profile: a user, a secret and the rest.   *)
(***************************************************************************)
EXTENDS Integers, FiniteSets, Functions

CONSTANTS Items,     \* ids of the items, integers
          MaxPosts   \* bound on the posts

Users == 1..2
Mask == 0            \* ****** in a url, no key in a profile
Clients == {"app", "settings"}

VARIABLES cfServer,      \* config: the items, the active one, or 0
          cfCopy,        \* configData of each client; NotLoaded before it is read
          cfPosts,       \* POST /config under way
          cfGets,        \* GET /config under way
          cfOnboarding,  \* showOnboarding
          cfCount,
          cfMeant,       \* marks of the model: the configuration the edits ask for,
          cfCopied,      \* the items that come from "duplicate" or from an older copy,
          cfDoubt        \* the clients that saw an error, a failed load or an older answer last

cfVars == <<cfServer, cfCopy, cfPosts, cfGets, cfOnboarding, cfCount, cfMeant, cfCopied, cfDoubt>>
marks  == <<cfMeant, cfCopied>>

NotLoaded == [active |-> -1]
Nobody == [i \in {} |-> 0]

(* redacted_for_client *)
Redacted(config) == [config EXCEPT !.items = [i \in DOMAIN config.items |-> [config.items[i] EXCEPT !.secret = Mask]]]

(* Mutant: what is posted is stored. *)
PostedSecrets(config, prev) == config

(* merge_secrets_from: a mask becomes the secret of the item of that id, if its user is the same. *)
MergeSecrets(config, prev) ==
    LET known(i) == i \in DOMAIN prev.items /\ prev.items[i].user = config.items[i].user
        item(i) == IF config.items[i].secret = Mask /\ known(i)
                   THEN [config.items[i] EXCEPT !.secret = prev.items[i].secret] ELSE config.items[i]
    IN  [config EXCEPT !.items = [i \in DOMAIN config.items |-> item(i)]]

(* What an edit makes of a copy; an id the copy does not have is the id of a new item. *)
Put(config, i, x) ==
    [config EXCEPT !.items = [j \in DOMAIN config.items \cup {i} |-> IF j = i THEN x ELSE config.items[j]]]
First(ids) == IF ids = {} THEN 0 ELSE CHOOSE i \in ids : \A j \in ids : i <= j

Added(config, i)        == Put(config, i, [user |-> 1, secret |-> 1, rest |-> 0])
AddedActive(config, i)  == [Added(config, i) EXCEPT !.active = i]
RestSet(config, i)      == Put(config, i, [config.items[i] EXCEPT !.rest = 1 - @])
Regrouped(config)       == [config EXCEPT !.items = [i \in DOMAIN @ |-> [@[i] EXCEPT !.rest = 0]]]
UrlSet(config, i, user) == Put(config, i, [user |-> user, secret |-> 2, rest |-> config.items[i].rest])
UserSet(config, i)      == Put(config, i, [config.items[i] EXCEPT !.user = 3 - @])
Duplicated(config, i, j) == Put(config, i, config.items[j])
Activated(config, i)    == [config EXCEPT !.active = i]
Deleted(config, i) ==
    LET left == DOMAIN config.items \ {i}
    IN  [items |-> Restrict(config.items, left), active |-> IF config.active = i THEN First(left) ELSE config.active]

Edited(config, e) ==
    CASE e.do = "add"    -> Added(config, e.id)      [] e.do = "connect" -> AddedActive(config, e.id)
      [] e.do = "rest"   -> RestSet(config, e.id)    [] e.do = "group"   -> Regrouped(config)
      [] e.do = "url"    -> UrlSet(config, e.id, e.user) [] e.do = "user" -> UserSet(config, e.id)
      [] e.do = "delete" -> Deleted(config, e.id)    [] e.do = "active"  -> Activated(config, e.id)
      [] e.do = "duplicate" -> Duplicated(config, e.id, e.of)

Edit(do, i, of, user) == [do |-> do, id |-> i, of |-> of, user |-> user]

(* The sidebar: the menu of a connection, its dialogs, and those of the groups. *)
MenuEdits(config) ==
    LET here == DOMAIN config.items
    IN  {Edit(do, i, i, 1) : do \in {"rest", "delete"}, i \in here}
        \cup {Edit("duplicate", i, j, 1) : i \in Items \ here, j \in here}
        \cup {Edit("active", i, i, 1) : i \in (here \cup {0}) \ {config.active}}
AddDialog(config)  == {Edit("connect", i, i, 1) : i \in Items \ DOMAIN config.items}
EditDialog(config) ==
    {Edit("url", i, i, u) : i \in DOMAIN config.items, u \in Users}
    \cup {Edit("user", i, i, 1) : i \in DOMAIN config.items}
GroupDialogs(config) == {Edit("group", 0, 0, 1)}

SidebarEdits(config) == MenuEdits(config) \cup AddDialog(config) \cup EditDialog(config) \cup GroupDialogs(config)

(* The settings panel: the lists of connections and of profiles wait for the last edit ... *)
ListEdits(config) ==
    LET here == DOMAIN config.items
    IN  {Edit("delete", i, i, 1) : i \in here}
        \cup {Edit("active", i, i, 1) : i \in here \ {config.active}}
NewItems(config) == {Edit("add", i, i, 1) : i \in Items \ DOMAIN config.items}
(* ... the profile editor and the check boxes do not. *)
ProfileEdits(config) == {Edit("url", i, i, u) : i \in DOMAIN config.items, u \in Users}
CheckBoxes(config)   == {Edit("rest", i, i, 1) : i \in DOMAIN config.items}

IsLoading == \E p \in cfPosts : p.of = "settings" /\ p.edit.do \notin {"url"}

PanelEdits(config) ==
    ProfileEdits(config) \cup CheckBoxes(config)
    \cup (IF IsLoading THEN {} ELSE ListEdits(config) \cup NewItems(config))

EditsOf(c) == IF c = "app" THEN SidebarEdits(cfCopy[c]) ELSE PanelEdits(cfCopy[c])

Init ==
    /\ cfServer = [items |-> [i \in {1} |-> [user |-> 1, secret |-> 1, rest |-> 0]], active |-> 1]
    /\ cfCopy = [c \in Clients |-> NotLoaded]
    /\ cfPosts = {} /\ cfGets = {[of |-> "app", answer |-> NotLoaded, late |-> FALSE]}
    /\ cfOnboarding = FALSE /\ cfCount = 0
    /\ cfMeant = cfServer /\ cfCopied = {} /\ cfDoubt = {}

-----------------------------------------------------------------------------
(* Loads. *)

Get(c) == [of |-> c, answer |-> NotLoaded, late |-> FALSE]
Loads(c) == cfGets' = cfGets \cup {Get(c)}

(* A store makes the answers that are on their way old. *)
Old(answers, unread) == {[a EXCEPT !.late = @ \/ a.answer # unread] : a \in answers}

ServerReads(g) ==
    /\ g.answer = NotLoaded
    /\ cfGets' = (cfGets \ {g}) \cup {[g EXCEPT !.answer = Redacted(cfServer)]}
    /\ UNCHANGED <<cfServer, cfCopy, cfPosts, cfOnboarding, cfCount, marks, cfDoubt>>

(* initData, refreshConfigOnly, loadConfig: the answer becomes the copy. *)
Loaded(g) ==
    /\ g.answer # NotLoaded /\ cfGets' = cfGets \ {g}
    /\ cfCopy' = [cfCopy EXCEPT ![g.of] = g.answer]
    /\ cfDoubt' = IF g.late THEN cfDoubt \cup {g.of} ELSE cfDoubt \ {g.of}
    /\ cfOnboarding' = (g.of = "app" /\ g.answer.active = 0)
    /\ UNCHANGED <<cfServer, cfPosts, cfCount, marks>>

(* A load fails, or in initData the schema that is read after it. *)
LoadFails(g) ==
    /\ cfGets' = cfGets \ {g}
    /\ cfOnboarding' = (cfOnboarding \/ g.of = "app")
    /\ cfDoubt' = cfDoubt \cup {g.of}
    /\ UNCHANGED <<cfServer, cfCopy, cfPosts, cfCount, marks>>

OpenSettings ==
    /\ cfCopy["settings"] = NotLoaded /\ Loads("settings")
    /\ \A g \in cfGets : g.of # "settings"
    /\ UNCHANGED <<cfServer, cfCopy, cfPosts, cfOnboarding, cfCount, marks, cfDoubt>>
CloseSettings ==
    /\ cfCopy["settings"] # NotLoaded
    /\ cfCopy' = [cfCopy EXCEPT !["settings"] = NotLoaded]
    /\ cfDoubt' = cfDoubt \ {"settings"}
    /\ UNCHANGED <<cfServer, cfPosts, cfGets, cfOnboarding, cfCount, marks>>

-----------------------------------------------------------------------------
(* Edits. *)

(* Each handler posts its whole copy; little keeps a second edit from starting. *)
Post(c, e) ==
    /\ cfCopy[c] # NotLoaded /\ cfCount < MaxPosts /\ cfCount' = cfCount + 1
    /\ cfPosts' = cfPosts \cup {[of |-> c, base |-> cfCopy[c], edit |-> e, body |-> Edited(cfCopy[c], e),
                                 answer |-> "none", late |-> FALSE]}
    /\ UNCHANGED <<cfServer, cfCopy, cfGets, cfOnboarding, marks, cfDoubt>>

(* Onboarding.handleSave posts a configuration of its own, without items. *)
FinishOnboarding ==
    /\ cfOnboarding /\ cfCount < MaxPosts /\ cfCount' = cfCount + 1
    /\ cfPosts' = cfPosts \cup {[of |-> "app", base |-> NotLoaded, edit |-> Edit("add", 0, 0, 1),
                                 body |-> [items |-> Nobody, active |-> 0], answer |-> "none", late |-> FALSE]}
    /\ cfOnboarding' = FALSE
    /\ UNCHANGED <<cfServer, cfCopy, cfGets, marks, cfDoubt>>

(* update_config: the file and the memory are written before the active connection is tried. *)
ServerStores(p) ==
    LET stored == MergeSecrets(p.body, cfServer)
    IN  /\ p.answer = "none" /\ cfServer' = stored
        /\ \E answer \in IF stored.active = 0 THEN {"saved"} ELSE {"saved", "failed"} :
             cfPosts' = Old(cfPosts \ {p}, "none") \cup {[p EXCEPT !.answer = answer, !.body = Redacted(stored)]}
        /\ cfGets' = Old(cfGets, NotLoaded)
        /\ IF p.base = Redacted(cfServer)
           THEN /\ cfMeant' = Edited(cfMeant, p.edit)
                /\ cfCopied' = IF p.edit.do \in {"duplicate", "user"} THEN cfCopied \cup {p.edit.id}
                               ELSE IF p.edit.do \in {"url", "add", "connect"} THEN cfCopied \ {p.edit.id} ELSE cfCopied
           ELSE cfMeant' = stored /\ cfCopied' = cfCopied
        /\ UNCHANGED <<cfCopy, cfOnboarding, cfCount, cfDoubt>>
StoreRefused(p) ==
    /\ p.answer = "none"
    /\ cfPosts' = (cfPosts \ {p}) \cup {[p EXCEPT !.answer = "failed"]}
    /\ UNCHANGED <<cfServer, cfCopy, cfGets, cfOnboarding, cfCount, marks, cfDoubt>>

(* Mutant: App keeps its copy. *)
AppKeepsCopy(p) ==
    /\ p.of = "app" /\ p.answer = "saved" /\ cfPosts' = cfPosts \ {p}
    /\ UNCHANGED <<cfServer, cfCopy, cfGets, cfOnboarding, cfCount, marks, cfDoubt>>

(* App reads the configuration again after a success ... *)
AppSaved(p) ==
    /\ p.of = "app" /\ p.answer = "saved" /\ cfPosts' = cfPosts \ {p}
    /\ Loads("app")
    /\ cfDoubt' = IF cfCopy["settings"] = NotLoaded THEN cfDoubt ELSE cfDoubt \cup {"settings"}
    /\ UNCHANGED <<cfServer, cfCopy, cfOnboarding, cfCount, marks>>

(* ... the panel takes the answer, and has App read it again. *)
SettingsSaved(p) ==
    /\ p.of = "settings" /\ p.answer = "saved" /\ cfPosts' = cfPosts \ {p}
    /\ cfCopy' = IF cfCopy["settings"] = NotLoaded THEN cfCopy ELSE [cfCopy EXCEPT !["settings"] = p.body]
    /\ Loads("app")
    /\ cfDoubt' = IF p.late THEN cfDoubt \cup {"settings"} ELSE cfDoubt
    /\ UNCHANGED <<cfServer, cfOnboarding, cfCount, marks>>

(* An error leaves the copy, whether the server stored the edit or not. *)
NotSaved(p) ==
    /\ p.answer = "failed" /\ cfPosts' = cfPosts \ {p}
    /\ cfDoubt' = cfDoubt \cup Clients
    /\ UNCHANGED <<cfServer, cfCopy, cfGets, cfOnboarding, cfCount, marks>>

Next ==
    \/ OpenSettings \/ CloseSettings \/ FinishOnboarding
    \/ \E g \in cfGets : ServerReads(g) \/ Loaded(g) \/ LoadFails(g)
    \/ \E c \in Clients : cfCopy[c] # NotLoaded /\ \E e \in EditsOf(c) : Post(c, e)
    \/ \E p \in cfPosts : ServerStores(p) \/ StoreRefused(p) \/ AppSaved(p) \/ SettingsSaved(p) \/ NotSaved(p)

-----------------------------------------------------------------------------

(* An edit made on the newest configuration changes what it is about and keeps the rest, the   *)
(* secrets the client never saw included; only a duplicate, and an item whose user was edited  *)
(* under the mask, are stored without their secret (merge_secrets_from, App, SettingsPanel).   *)
EditsKeepTheRest ==
    /\ cfServer.active = cfMeant.active /\ DOMAIN cfServer.items = DOMAIN cfMeant.items
    /\ \A i \in DOMAIN cfServer.items :
         /\ cfServer.items[i].user = cfMeant.items[i].user /\ cfServer.items[i].rest = cfMeant.items[i].rest
         /\ i \in cfCopied \/ cfServer.items[i].secret = cfMeant.items[i].secret

(* When no request is under way a client shows what the server has, after posts of both        *)
(* clients in any order; only an error, a failed load, answers that came in another order, or  *)
(* a panel opened during a save leave an old copy (initData, refreshConfigOnly).               *)
CopiesAgreeWhenQuiet ==
    cfPosts = {} /\ cfGets = {} =>
        \A c \in Clients \ cfDoubt : cfCopy[c] \in {NotLoaded, Redacted(cfServer)}
=============================================================================
