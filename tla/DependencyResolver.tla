-------------------------- MODULE DependencyResolver --------------------------
(***************************************************************************)
(* DependencyResolver of extensions/Launcher: the order in which groups of *)
(* processes are started, by depth-first search.  Groups are numbered in   *)
(* the order of their names, which is the order of std::map and std::set.  *)
(*                                                                         *)
(* The search is a record: ok is FALSE after an exception, visited holds   *)
(* the colours, path the groups whose dfs() has not returned (the stack of *)
(* calls), result the list so far.                                         *)
(***************************************************************************)
EXTENDS Integers, Sequences

\* The first name of a set.
First(S, p) == p \in S /\ \A q \in S : p <= q

\* Before the search.
Unresolved(groups) ==
    [ok |-> TRUE, visited |-> [g \in groups |-> "White"], path |-> <<>>, result |-> <<>>]

\* Every dependency is a group.
AllKnown(depends) == \A g \in DOMAIN depends : depends[g] \subseteq DOMAIN depends

\* The group whose dfs() runs.
Visiting(r) == r.path[Len(r.path)]

\* Mutant: dfs() does not look at the dependencies.
RootLoopOnly(depends, r) == IF r.path = <<>> THEN DOMAIN depends ELSE {}

\* What the innermost loop runs over: the dependencies of that group, or, in
\* resolve() itself, all groups.
Loop(depends, r) == IF r.path = <<>> THEN DOMAIN depends ELSE depends[Visiting(r)]

\* What is left of the loop: a group is black when its turn is over.
Pending(depends, r) == {g \in Loop(depends, r) : r.visited[g] # "Black"}

\* dfs() is called for a group.
Enter(r, g) ==
    [r EXCEPT !.visited = [@ EXCEPT ![g] = "Gray"], !.path = Append(@, g)]

\* dfs() returns: the group comes after everything it depends on.
Return(r) ==
    [r EXCEPT !.visited = [@ EXCEPT ![Visiting(r)] = "Black"],
              !.path = SubSeq(@, 1, Len(@) - 1),
              !.result = Append(@, Visiting(r))]

\* UnknownDependencyException and CyclicDependencyException.
Throw(r) == [r EXCEPT !.ok = FALSE, !.path = <<>>, !.result = <<>>]

===============================================================================
