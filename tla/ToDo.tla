--------------------------------- MODULE ToDo ---------------------------------
(* The To Do tools: a task list is named by its id, its display name or its      *)
(* built-in name, looked up at Graph, and then used by a second request, while   *)
(* the owner renames, deletes and adds lists in other applications (mcp_todo).   *)
EXTENDS Integers, Sequences, FiniteSets, SequencesExt

CONSTANTS ListIds,      \* ids Graph may give
          Padded,       \* those longer than 40 characters that contain "="
          BuiltIn,      \* the list whose wellknownListName is DefaultName
          Names,        \* display names, DefaultName among them
          DefaultName,
          Tasks, Titles, Dues, \* of the tasks
          FirstPages,   \* how many lists one answer of Graph may hold
          Nothing

TodoAssumption ==
  /\ BuiltIn \in ListIds /\ DefaultName \in Names /\ FirstPages \subseteq Nat
  /\ Padded \subseteq ListIds /\ {DefaultName, Nothing} \cap Padded = {} /\ Nothing \notin ListIds

VARIABLES lists,    \* the lists in Graph's order
          title,    \* list -> its display name
          tasks,    \* list -> task -> its fields, or Nothing
          todoCall  \* the call

todoVars == <<lists, title, tasks, todoCall>>

Fields == [title : Titles, due : Dues \cup {Nothing}]
Given == [title : Titles \cup {Nothing}, due : Dues \cup {Nothing}]
Targets == ListIds \cup Names \cup {Nothing}
ListOps == {"todo_list_create", "todo_list_delete"}
ReadOps == {"todo_lists_view", "todo_tasks_view", "todo_task_get"}
TaskOps == {"todo_task_create", "todo_task_update", "todo_task_delete"}
Answers == {"none", "success", "no_fields", "not_found", "refused", "unsure",
            "incomplete", "no_token"}

\* Graph refuses, no answer comes, or there is no token to ask with.
Failures == {"refused", "unsure", "no_token"}

TodoTypeOK ==
  /\ lists \in Seq(ListIds) /\ BuiltIn \in ToSet(lists)
  /\ title \in [ListIds -> Names]
  /\ tasks \in [ListIds -> [Tasks -> Fields \cup {Nothing}]]
  /\ todoCall.pc \in {"idle", "lookup", "send"} /\ todoCall.answer \in Answers
  /\ todoCall.pc # "idle" => todoCall.op \in ListOps \cup ReadOps \cup TaskOps

TodoIdle(answer) == [pc |-> "idle", answer |-> answer]

TodoInit ==
  /\ lists = <<BuiltIn>>
  /\ \E n \in Names : title = [l \in ListIds |-> IF l = BuiltIn THEN n ELSE DefaultName]
  /\ tasks = [l \in ListIds |-> [t \in Tasks |-> Nothing]]
  /\ todoCall = TodoIdle("none")

-----------------------------------------------------------------------------
\* What a tool demands of its arguments before it asks Graph anything.
Complete(op, target, task, given) ==
  /\ op = "todo_list_delete" => target # Nothing
  /\ op = "todo_list_create" => target \in Names
  /\ op \in {"todo_task_get", "todo_task_update", "todo_task_delete"} => task # Nothing
  /\ op = "todo_task_create" => given.title # Nothing

\* What a tool does not take is not given.
Takes(op, target, task, given) ==
  /\ op = "todo_lists_view" => target = Nothing
  /\ op \notin {"todo_task_get", "todo_task_update", "todo_task_delete"} => task = Nothing
  /\ op \notin {"todo_task_create", "todo_task_update"} =>
       given = [title |-> Nothing, due |-> Nothing]

\* Whoever has no list to find sends its one request; an argument that looks like
\* an id is taken for one.
BeginTodo(op, target, task, given) ==
  /\ todoCall.pc = "idle" /\ Takes(op, target, task, given)
  /\ LET byName == op \notin {"todo_lists_view", "todo_list_create"} /\ target \notin Padded
     IN todoCall' =
          IF Complete(op, target, task, given)
          THEN [pc |-> IF byName THEN "lookup" ELSE "send", answer |-> "none", op |-> op,
                target |-> target, task |-> task, given |-> given,
                list |-> IF byName THEN Nothing ELSE target, bore |-> [l \in {} |-> Nothing]]
          ELSE TodoIdle("incomplete")
  /\ UNCHANGED <<lists, title, tasks>>

Page(n) == SubSeq(lists, 1, IF Len(lists) < n THEN Len(lists) ELSE n)
FirstOf(page, test(_)) ==
  LET i == SelectInSeq(page, test) IN IF i = 0 THEN Nothing ELSE page[i]

\* Mutant: a display name goes before a built-in one.
ResolveByTitle(page, target) ==
  LET byTitle == FirstOf(page, LAMBDA l : title[l] = target)
      builtIn == FirstOf(page, LAMBDA l : l = BuiltIn)
  IN CASE byTitle # Nothing -> byTitle
       [] byTitle = Nothing /\ target \in {DefaultName, Nothing} -> builtIn
       [] OTHER -> Nothing
\* resolve_list_id over the answer of Graph: the built-in name, then the display
\* name, then, with no name at all, the default list.
ResolveListId(page, target) ==
  LET builtIn == FirstOf(page, LAMBDA l : l = BuiltIn)
  IN IF target \in {DefaultName, Nothing} /\ builtIn # Nothing THEN builtIn
     ELSE FirstOf(page, LAMBDA l : title[l] = target)

Lookup ==
  /\ todoCall.pc = "lookup"
  /\ \/ \E answer \in Failures : todoCall' = TodoIdle(answer)
     \/ \E n \in FirstPages :
          LET found == ResolveListId(Page(n), todoCall.target) IN
          todoCall' = IF found = Nothing THEN TodoIdle("not_found")
                      ELSE [todoCall EXCEPT !.pc = "send", !.list = found,
                                            !.bore = [l \in ToSet(Page(n)) |-> title[l]]]
  /\ UNCHANGED <<lists, title, tasks>>

-----------------------------------------------------------------------------
Removed(l) == /\ \E i \in DOMAIN lists : lists[i] = l /\ lists' = RemoveAt(lists, i)
              /\ title' = [title EXCEPT ![l] = DefaultName]
              /\ tasks' = [tasks EXCEPT ![l] = [t \in Tasks |-> Nothing]]

\* What the request does at Graph; a list or a task that is not there is refused.
Exists == todoCall.list \in ToSet(lists)
TaskThere == Exists /\ tasks[todoCall.list][todoCall.task] # Nothing

CreateList ==
  /\ todoCall.op = "todo_list_create"
  /\ \E l \in ListIds \ ToSet(lists) :
       /\ lists' = Append(lists, l) /\ title' = [title EXCEPT ![l] = todoCall.target]
  /\ UNCHANGED tasks

\* Graph deletes no built-in list.
DeleteList ==
  /\ todoCall.op = "todo_list_delete" /\ Exists /\ todoCall.list # BuiltIn
  /\ Removed(todoCall.list)

CreateTask ==
  /\ todoCall.op = "todo_task_create" /\ Exists
  /\ \E t \in Tasks :
       /\ tasks[todoCall.list][t] = Nothing
       /\ tasks' = [tasks EXCEPT ![todoCall.list][t] =
                      [title |-> todoCall.given.title, due |-> todoCall.given.due]]
  /\ UNCHANGED <<lists, title>>

\* Mutant: what was not given is sent as empty.
UpdatedWhole(old, given) == [title |-> IF given.title = Nothing THEN old.title ELSE given.title,
                             due |-> given.due]
\* The body of the PATCH holds the fields that were given.
Updated(old, given) ==
  [f \in {"title", "due"} |-> IF given[f] = Nothing THEN old[f] ELSE given[f]]

UpdateTask ==
  /\ todoCall.op = "todo_task_update" /\ TaskThere
  /\ tasks' = [tasks EXCEPT ![todoCall.list][todoCall.task] = Updated(@, todoCall.given)]
  /\ UNCHANGED <<lists, title>>

DeleteTask ==
  /\ todoCall.op = "todo_task_delete" /\ TaskThere
  /\ tasks' = [tasks EXCEPT ![todoCall.list][todoCall.task] = Nothing]
  /\ UNCHANGED <<lists, title>>

ReadTodo ==
  /\ todoCall.op \in ReadOps
  /\ todoCall.op # "todo_lists_view" => Exists
  /\ todoCall.op = "todo_task_get" => TaskThere
  /\ UNCHANGED <<lists, title, tasks>>

\* An update without a field is a success that asks Graph for nothing.
NoFields == todoCall.op = "todo_task_update"
            /\ \A f \in {"title", "due"} : todoCall.given[f] = Nothing

\* The request is done and answered, done with its answer lost, or not done.
Send ==
  /\ todoCall.pc = "send"
  /\ \/ /\ NoFields
        /\ todoCall' = TodoIdle("no_fields") /\ UNCHANGED <<lists, title, tasks>>
     \/ /\ ~NoFields
        /\ CreateList \/ DeleteList \/ CreateTask \/ UpdateTask \/ DeleteTask \/ ReadTodo
        /\ \E answer \in {"success", "unsure"} : todoCall' = TodoIdle(answer)
     \/ /\ \E answer \in Failures :
             (NoFields => answer = "no_token") /\ todoCall' = TodoIdle(answer)
        /\ UNCHANGED <<lists, title, tasks>>

\* The owner, in another application.
OwnerRenames ==
  /\ \E l \in ToSet(lists), n \in Names : title[l] # n /\ title' = [title EXCEPT ![l] = n]
  /\ UNCHANGED <<lists, tasks, todoCall>>
OwnerDeletes ==
  /\ \E l \in ToSet(lists) \ {BuiltIn} : Removed(l)
  /\ UNCHANGED todoCall
\* Graph may list a new list anywhere.
OwnerAdds ==
  /\ \E l \in ListIds \ ToSet(lists), i \in 1 .. Len(lists) + 1, n \in Names :
       /\ lists' = InsertAt(lists, i, l) /\ title' = [title EXCEPT ![l] = n]
  /\ UNCHANGED <<tasks, todoCall>>

TodoNext ==
  \/ \E op \in ListOps \cup ReadOps \cup TaskOps, target \in Targets,
        task \in Tasks \cup {Nothing}, given \in Given : BeginTodo(op, target, task, given)
  \/ Lookup \/ Send
  \/ OwnerRenames \/ OwnerDeletes \/ OwnerAdds

TodoSpec == TodoInit /\ [][TodoNext]_todoVars

-----------------------------------------------------------------------------
Contents(l) == <<l \in ToSet(lists), title[l], tasks[l]>>

\* A tool changes one list, and that list bore the name it was asked for when it
\* was looked up: a built-in name means the built-in list, whatever others are
\* called, when Graph's answer holds it, no name the default one, an unknown name
\* none; an update leaves every other task, and every field that was not given, as
\* they were.
TouchesTheNamedList ==
  todoCall.pc = "send" /\ todoCall' # todoCall /\ todoCall.op # "todo_list_create" =>
    \A l \in ListIds : Contents(l)' # Contents(l) =>
      /\ l = todoCall.list
      /\ CASE todoCall.target \in Padded -> l = todoCall.target
           [] todoCall.target \in {DefaultName, Nothing} /\ BuiltIn \in DOMAIN todoCall.bore ->
                l = BuiltIn
           [] OTHER -> todoCall.bore[l] = todoCall.target
      /\ todoCall.op = "todo_task_update" =>
           \A t \in Tasks : tasks'[l][t] # tasks[l][t] =>
             /\ t = todoCall.task
             /\ \A f \in {"title", "due"} :
                  tasks'[l][t][f] = IF todoCall.given[f] = Nothing THEN tasks[l][t][f]
                                    ELSE todoCall.given[f]

\* A list asked for by its id is found when it is there (spec/param_spec/todo.yaml:
\* "ID or name"). False: an id without "=" is only compared with names.
IdsAreFound ==
  todoCall.pc = "lookup" /\ todoCall.target \in ToSet(lists) =>
    todoCall'.answer # "not_found"

=============================================================================
