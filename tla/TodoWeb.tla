------------------------------ MODULE TodoWeb ------------------------------
(* todo-web: the page emits what the user does, instrumentation.ts runs a   *)
(* one-step function for each event and keeps the list as a projection.     *)
EXTENDS DurableFunctions

Toggled(completed) == IF completed THEN "todo.toggled:true" ELSE "todo.toggled:false"

AddTodo(t) == Step("add", <<Emit("todo.added", t)>>)
ToggleTodo(t, completed) == Step("toggle", <<Emit(Toggled(completed), t)>>)
DeleteTodo(t) == Step("delete", <<Emit("todo.deleted", t)>>)
User(steps) == Script("page", Request, steps, "skip")
UserOf(t, steps) == Script("page", OnFact(t, "todo.added"), steps, "skip")

CreateTodoStep == Step("create-todo", <<>>)
ToggleTodoStep == Step("toggle-todo", <<>>)
DeleteTodoStep == Step("delete-todo", <<>>)
ProcessTodo(t, name) ==
  Function("process-todo", OnFact(t, name),
           <<CASE name = "todo.added" -> CreateTodoStep [] name = "todo.deleted" -> DeleteTodoStep
               [] OTHER -> ToggleTodoStep>>)

-----------------------------------------------------------------------------
(* Mutant: a todo that is there is added again.                             *)
AddedAgain(list, t) == Append(list, [id |-> t, completed |-> FALSE])

(* The projection: adding what is there, setting what is set and deleting   *)
(* what is gone change nothing.                                             *)
Added(list, t) == IF \E i \in DOMAIN list : list[i].id = t THEN list
                  ELSE Append(list, [id |-> t, completed |-> FALSE])
SetTo(list, t, completed) ==
  [i \in DOMAIN list |-> IF list[i].id = t THEN [list[i] EXCEPT !.completed = completed] ELSE list[i]]
Without(list, t) ==
  LET Spare(rest, e) == IF e.id = t THEN rest ELSE Append(rest, e)
  IN Folded(Spare, <<>>, list)

Reduce(list, f) ==
  CASE f.name = "todo.added" -> Added(list, f.on)
    [] f.name = Toggled(TRUE) -> SetTo(list, f.on, TRUE)
    [] f.name = Toggled(FALSE) -> SetTo(list, f.on, FALSE)
    [] f.name = "todo.deleted" -> Without(list, f.on)
    [] OTHER -> list

TodoList(twice) == Folded(Reduce, <<>>, Handled(twice))

(* The list is what the users did: the todos added and not deleted since,   *)
(* in that order, each as the last toggle after it left it, whichever       *)
(* events reach the projection twice.                                       *)
Latest(S) == CHOOSE i \in S : \A j \in S : j <= i
Happened(t, names) == {i \in DOMAIN log : log[i].on = t /\ log[i].name \in names}
TodoListIsExact ==
  \A t \in {log[i].on : i \in {j \in DOMAIN log : log[j].name = "todo.added"}}, n \in 0..Len(log) :
    LET added == Happened(t, {"todo.added"})
        deleted == Happened(t, {"todo.deleted"})
        toggles == {i \in Happened(t, {Toggled(TRUE), Toggled(FALSE)}) : \E a \in added : a < i}
        list == TodoList({n})
        rows == {i \in DOMAIN list : list[i].id = t}
        done == toggles # {} /\ log[Latest(toggles)].name = Toggled(TRUE) IN
      /\ Cardinality(rows) = IF \E d \in deleted : \A a \in added : a < d THEN 0 ELSE 1
      /\ \A i \in rows : list[i].completed = done
=============================================================================
