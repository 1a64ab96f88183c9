--------------------------- MODULE RuleManagement ---------------------------
(***************************************************************************)
(* The rule console: browser tabs that show KrakenWAF's CMC modules        *)
(* (setupCmcRules in view/static/app.js) or edit one of its rule lists     *)
(* (view/static/regex_editor.js), the handlers behind them                 *)
(* (controllers/rule_management.rs) and the client that forwards a save    *)
(* with a Rorschach token (services/rule_management.rs).                   *)
(*                                                                         *)
(* The rules live in KrakenWAF, which is not in this repository: it is     *)
(* modelled by what the client assumes of it.  A save travels: it may be   *)
(* lost, refused, or applied after its handler has given up on it, since   *)
(* the five second timeout of the client ends the wait and not the         *)
(* request.  A form the handler turns away (403, 503, 400) reaches nobody  *)
(* and changes nothing, so it is not a step; what a handler lets through   *)
(* is in the guards of SubmitAll and UpdateRule.  Without the endpoint or  *)
(* its secrets every handler answers 503: the console is configured here.  *)
(***************************************************************************)
EXTENDS Naturals, Sequences, FiniteSets

CONSTANTS Tabs,        \* browser tabs of operators and administrators
          Modules,     \* the CMC modules of the WAF
          ValidNames,  \* those whose name is_valid_module_name accepts
          MaxModules,  \* MAX_MODULES
          Searches,    \* the sets of modules the search box may be narrowed to
          RuleNames,   \* names a URL may carry in ?rule=
          Contents,    \* texts an editor may hold
          Installed,   \* the text of each list at the start
          MaxCalls     \* bound: saves ever sent to the WAF

VARIABLES waf,         \* KrakenWAF: the state of each module, the text of each list
          tab,         \* what each browser tab holds
          wire,        \* the saves on their way to the WAF
          log          \* what became of each save, in the order they were sent

vars == <<waf, tab, wire, log>>

-----------------------------------------------------------------------------
(***************************************************************************)
(* regex_rules.rs.  A text is told apart as far as a codec looks at it:    *)
(* blank, not JSON, JSON but no object, an object without a rules array,   *)
(* or a bundle of rules.  A rule is an object or not, has all its required *)
(* fields or lacks one or has a null, and its rule_match is a non-empty    *)
(* string or not.                                                          *)
(***************************************************************************)
Rule == [object : BOOLEAN, fields : {"all", "missing", "null"}, match : BOOLEAN]
Forms == {"blank", "text", "json", "object", "bundle"}

RegexRuleList == {"body_regex", "path_regex", "header_regex", "vectorscan_list", "scanners"}
Lists == RuleNames \cap RegexRuleList

\* parse_rules_array: an object with a rules array that is not empty.
ParseRulesArray(c) == c.form = "bundle" /\ c.rules # <<>>

RegexBundleCodec(c) ==
    /\ ParseRulesArray(c)
    /\ \A n \in DOMAIN c.rules :
         c.rules[n].object /\ c.rules[n].fields = "all" /\ c.rules[n].match

KeywordBundleCodec(c) == ParseRulesArray(c)

\* The lines that are left after trimming and dropping the empty ones.
LineListCodec(c) == c.form # "blank"

\* codec_for and build_update_body: does the text become a body for this list?
BuildUpdateBody(list, c) ==
    CASE list \in {"body_regex", "path_regex", "header_regex"} -> RegexBundleCodec(c)
      [] list = "vectorscan_list" -> KeywordBundleCodec(c)
      [] list = "scanners" -> LineListCodec(c)

\* validateLocally in the browser: not blank, and JSON unless it is the text list.
ValidateLocally(list, c) == c.form # "blank" /\ (list # "scanners" => c.form # "text")

ASSUME RuleConstants ==
    /\ \A c \in Contents : /\ c.form \in Forms /\ c.rules \in Seq(Rule)
                           /\ c.rules # <<>> => c.form = "bundle"
    /\ Installed \in [Lists -> Contents] /\ \A l \in Lists : BuildUpdateBody(l, Installed[l])
    /\ ValidNames \subseteq Modules /\ Searches \subseteq SUBSET Modules
    /\ MaxModules \in Nat /\ MaxCalls \in Nat

-----------------------------------------------------------------------------
\* A partial map from modules to their state; the empty one is a table without rows.
Settings == UNION {[S -> BOOLEAN] : S \in SUBSET Modules}
NoRows == [m \in {} |-> FALSE]

\* A tab.  all: the answer of the last load; filter: the modules the search box
\* lets through.  id: the save under way.
Closed == [page |-> "none"]
CmcTab == [page : {"cmc"}, phase : {"idle", "loading", "saving"}, id : 0..MaxCalls,
           filter : SUBSET Modules, all : Settings]
EditTab == [page : {"edit"}, phase : {"idle", "saving"}, id : 0..MaxCalls, list : Lists]

\* A save on its way: path is "cmc" or the list.  base and ticked (history): the
\* rows its form was made from and the modules its operator switched.
Message == [id : 1..MaxCalls, path : {"cmc"} \cup Lists, body : Settings \cup Contents,
            base : Settings, ticked : SUBSET Modules]

\* A save in the log.  at (history): its place among the saves that were applied,
\* 0 if it was not.  told: what its tab heard.  audited: the entry in audit.jsonl.
Entry == [tab : Tabs, at : 0..MaxCalls, audited : BOOLEAN,
          told : {"pending", "success", "error", "gone"}]

Become(t, new) == tab' = [tab EXCEPT ![t] = new]
Saving(t) == tab[t].page # "none" /\ tab[t].phase = "saving"

\* renderRows: one checkbox per module that passes the search box, set to what
\* the last load said.  The rows are drawn anew at every load and search, which
\* drops ticks that were not saved.
Rows(t) == [m \in DOMAIN tab[t].all \cap tab[t].filter |-> tab[t].all[m]]

\* Mutant: a row is drawn unticked whatever the state of its module.
FormUnticked(t, ticked) == [m \in DOMAIN Rows(t) |-> m \in ticked]

\* The checkboxes when "Submit all" is clicked: the operator has switched the
\* modules ticked since the rows were drawn.
Form(t, ticked) == [m \in DOMAIN Rows(t) |-> IF m \in ticked THEN ~Rows(t)[m] ELSE Rows(t)[m]]

\* is_valid_module_name and the other conditions of cmc_update.
Acceptable(modules) ==
    /\ modules # {} /\ Cardinality(modules) <= MaxModules
    /\ modules \subseteq ValidNames

\* Mutant: saves are numbered from zero.
SendFromZero(t, path, body, base, ticked) ==
    LET id == Len(log)
    IN /\ id <= MaxCalls
       /\ wire' = wire \cup {[id |-> id, path |-> path, body |-> body, base |-> base,
                              ticked |-> ticked]}
       /\ log' = Append(log, [tab |-> t, at |-> 0, audited |-> FALSE, told |-> "pending"])
       /\ Become(t, [tab[t] EXCEPT !.phase = "saving", !.id = id])
       /\ UNCHANGED waf

\* update_regex, like update_cmc, up to the moment the request is on its way, with a
\* token made for this method, path and body in this time step.
Send(t, path, body, base, ticked) ==
    LET id == Len(log) + 1
    IN /\ id <= MaxCalls
       /\ wire' = wire \cup {[id |-> id, path |-> path, body |-> body, base |-> base,
                              ticked |-> ticked]}
       /\ log' = Append(log, [tab |-> t, at |-> 0, audited |-> FALSE, told |-> "pending"])
       /\ Become(t, [tab[t] EXCEPT !.phase = "saving", !.id = id])
       /\ UNCHANGED waf

\* update_cmc: every row of the page is a module of the patch.
UpdateCmc(t, ticked) == Send(t, "cmc", Form(t, ticked), Rows(t), ticked)

-----------------------------------------------------------------------------
Init ==
    /\ waf \in [cmc : [Modules -> BOOLEAN], list : {Installed}]
    /\ tab = [t \in Tabs |-> Closed]
    /\ wire = {} /\ log = <<>>

\* cmc_page; the script starts its first load.
CmcPage(t) ==
    /\ tab[t] = Closed
    /\ Become(t, [page |-> "cmc", phase |-> "loading", id |-> 0, filter |-> Modules,
                  all |-> NoRows])
    /\ UNCHANGED <<waf, wire, log>>

\* list_cmc: the WAF's live state if it answers in time and its answer is readable.
\* Asking and being answered are one step: an answer that was overtaken on its way
\* gives the page the rows it has here if nobody uses it until then.
ListCmc == {waf.cmc, NoRows}

\* api_cmc_list; without an answer the table has no rows.
ApiCmcList(t) ==
    /\ tab[t].page = "cmc" /\ tab[t].phase = "loading"
    /\ \E all \in ListCmc :
         Become(t, [tab[t] EXCEPT !.phase = "idle", !.all = all])
    /\ UNCHANGED <<waf, wire, log>>

\* The search box changes which rows are on the page.  Typed during a save or a
\* load it has the same effect as after it: rows are only read by SubmitAll.
ApplyFilter(t, f) ==
    /\ tab[t].page = "cmc" /\ tab[t].phase = "idle"
    /\ Become(t, [tab[t] EXCEPT !.filter = f])
    /\ UNCHANGED <<waf, wire, log>>

\* "Submit all": every checkbox on the page is posted, switched or not.  The button
\* is disabled until the answer, and the reload after it, are there.  cmc_update
\* forwards an acceptable set.
SubmitAll(t, ticked) ==
    /\ tab[t].page = "cmc" /\ tab[t].phase = "idle"
    /\ ticked \subseteq DOMAIN Rows(t)
    /\ Acceptable(DOMAIN Form(t, ticked))
    /\ UpdateCmc(t, ticked)

\* regex_edit_page: a name off the allowlist goes back to the picker, and the form
\* is there only when the list was read.
RegexEditPage(t, name) ==
    /\ tab[t] = Closed
    /\ name \in RegexRuleList
    /\ Become(t, [page |-> "edit", phase |-> "idle", id |-> 0, list |-> name])
    /\ UNCHANGED <<waf, wire, log>>

\* Mutant: the handler trusts the check of the browser.
UpdateCheckedLocally(t, c) ==
    /\ tab[t].page = "edit" /\ tab[t].phase = "idle"
    /\ ValidateLocally(tab[t].list, c)
    /\ Send(t, tab[t].list, c, NoRows, {})

\* The editor's button and regex_update.  The text may be anything the operator
\* has made of what was shown; it is checked in the browser, then by the codec of
\* its list, before the WAF hears of it.
UpdateRule(t, c) ==
    /\ tab[t].page = "edit" /\ tab[t].phase = "idle"
    /\ ValidateLocally(tab[t].list, c)
    /\ BuildUpdateBody(tab[t].list, c)
    /\ Send(t, tab[t].list, c, NoRows, {})

Told(t, told, audited) ==
    log' = [log EXCEPT ![tab[t].id].told = told, ![tab[t].id].audited = audited]

\* A handler nobody waits for any more: it may have come to its audit entry first.
AuditedOrNot(t) == {FALSE, log[tab[t].id].at # 0}

\* Leaving the page.  The handler of a save that is under way is dropped with its
\* connection, and with it the audit entry; the request to the WAF is not recalled.
Leave(t) ==
    /\ tab[t] # Closed
    /\ IF Saving(t) THEN \E audited \in AuditedOrNot(t) : Told(t, "gone", audited)
                    ELSE UNCHANGED log
    /\ Become(t, Closed)
    /\ UNCHANGED <<waf, wire>>

-----------------------------------------------------------------------------
(***************************************************************************)
(* KrakenWAF, from how the client uses it (external).                      *)
(***************************************************************************)

AppliedSoFar == Cardinality({i \in DOMAIN log : log[i].at # 0})

\* "Partial patch": the modules named are set, the others left alone.
Patch(body) == [m \in Modules |-> IF m \in DOMAIN body THEN body[m] ELSE waf.cmc[m]]

\* The token verifies and the change is made.  A message may wait on the way for as
\* long as it likes; the WAF in fact refuses it once its time step is over.
WafApplies(msg) ==
    /\ waf' = IF msg.path = "cmc" THEN [waf EXCEPT !.cmc = Patch(msg.body)]
                                  ELSE [waf EXCEPT !.list[msg.path] = msg.body]
    /\ log' = [log EXCEPT ![msg.id].at = AppliedSoFar + 1]
    /\ wire' = wire \ {msg}
    /\ UNCHANGED tab

\* The token does not verify, the WAF has another reason, or the request is lost.
WafRefuses(msg) ==
    /\ wire' = wire \ {msg}
    /\ UNCHANGED <<waf, tab, log>>

-----------------------------------------------------------------------------
(***************************************************************************)
(* The end of a save: cmc_update and regex_update after their await.       *)
(***************************************************************************)

\* The browser after a success: the CMC table is emptied and loaded again, with the
\* button disabled until that is done; the editor stays.
AfterSuccess(t) ==
    IF tab[t].page = "cmc"
    THEN Become(t, [tab[t] EXCEPT !.phase = "loading", !.id = 0, !.all = NoRows])
    ELSE Become(t, [tab[t] EXCEPT !.phase = "idle", !.id = 0])

\* Mutant: an error status is read like a success.
AnswerDefaulted(t) ==
    /\ Saving(t) /\ \A msg \in wire : msg.id # tab[t].id
    /\ Told(t, "success", TRUE)
    /\ AfterSuccess(t)
    /\ UNCHANGED <<waf, wire>>

\* Mutant: the save is reported when it has been sent.
AnswerUnawaited(t) ==
    /\ Saving(t)
    /\ Told(t, "success", TRUE)
    /\ AfterSuccess(t)
    /\ UNCHANGED <<waf, wire>>

\* A success status, with a readable body or not: audited and reported.
AnswerOk(t) ==
    /\ Saving(t) /\ log[tab[t].id].at # 0
    /\ Told(t, "success", TRUE)
    /\ AfterSuccess(t)
    /\ UNCHANGED <<waf, wire>>

\* "error in WAF server": an error status, no connection, or five seconds are
\* over, whatever has become of the request; or the console's own answer is lost.
\* The form stays as it is.
AnswerError(t) ==
    /\ Saving(t)
    /\ \E audited \in AuditedOrNot(t) : Told(t, "error", audited)
    /\ Become(t, [tab[t] EXCEPT !.phase = "idle", !.id = 0])
    /\ UNCHANGED <<waf, wire>>

-----------------------------------------------------------------------------
CmcTable(t) ==
    \/ CmcPage(t) \/ ApiCmcList(t)
    \/ \E f \in Searches : ApplyFilter(t, f)
    \/ \E ticked \in SUBSET Modules : SubmitAll(t, ticked)

Editor(t) ==
    \/ \E name \in RuleNames : RegexEditPage(t, name)
    \/ \E c \in Contents : UpdateRule(t, c)

Next ==
    \/ \E t \in Tabs : CmcTable(t) \/ Editor(t) \/ Leave(t) \/ AnswerOk(t) \/ AnswerError(t)
    \/ \E msg \in wire : WafApplies(msg) \/ WafRefuses(msg)

Spec == Init /\ [][Next]_vars

-----------------------------------------------------------------------------
(***************************************************************************)
(* Properties.                                                             *)
(***************************************************************************)

TypeOK ==
    /\ waf \in [cmc : [Modules -> BOOLEAN], list : [Lists -> Contents]]
    /\ tab \in [Tabs -> {Closed} \cup CmcTab \cup EditTab]
    /\ wire \subseteq Message
    /\ log \in Seq(Entry) /\ Len(log) <= MaxCalls

\* "No content ever reaches the WAF without passing the matching codec first"
\* (regex_rules.rs): whatever two editors of different lists send and whenever it
\* arrives, each list of the WAF holds a text its own codec accepts.
ListsWellFormed == \A l \in Lists : BuildUpdateBody(l, waf.list[l])

\* What a full form may do.  Submit all posts every checkbox on the page, so it can
\* undo another operator's change; but it changes a module only if its operator
\* switched that module, or somebody else has changed it since the table was
\* loaded.  A search, an error or a reload in between never makes up a value.
NoSilentRevert ==
    [][\A m \in Modules : waf'.cmc[m] # waf.cmc[m] =>
         \E msg \in wire \ wire' :
            m \in msg.ticked \/ (m \in DOMAIN msg.base /\ msg.base[m] # waf.cmc[m])]_vars

\* A save that was confirmed to a tab was applied before every later save of that
\* tab: only one that ended in an error, or was left, can arrive after its
\* successor and undo it.
SavesInOrder ==
    \A i, j \in DOMAIN log :
        /\ i < j /\ log[i].tab = log[j].tab
        /\ log[i].told = "success" /\ log[j].at # 0
        => log[i].at < log[j].at

\* "Updated successfully" and the audit entry both mean that the WAF took the
\* change.  The converse fails by design: a change that ended in an error, or whose
\* operator had left, may have been applied, and then nothing in the audit log
\* says so.
SuccessMeansApplied ==
    \A i \in DOMAIN log :
        (log[i].told = "success" \/ log[i].audited) => log[i].audited /\ log[i].at # 0

=============================================================================
