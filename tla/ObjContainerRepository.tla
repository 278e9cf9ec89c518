----------------------- MODULE ObjContainerRepository -----------------------
(***************************************************************************)
(* A repository of shared containers (IPaks, sound banks): the names of    *)
(* the loaded ones, each with the set of its referencers.  Names are       *)
(* unique because every caller asks GetContainerByName first.              *)
(***************************************************************************)
EmptyRepository == [name \in {} |-> {}]
IsLoaded(repository, name) == name \in DOMAIN repository

AddContainer(repository, name, referencer) ==
  [added \in DOMAIN repository \cup {name} |->
    IF added = name THEN {referencer} ELSE repository[added]]

\* The container found is handed out without a reference of its own.
AddNoReference(repository, name, referencer) == repository

AddContainerReference(repository, name, referencer) ==
  [repository EXCEPT ![name] = @ \cup {referencer}]

\* Entries without references are left.
RemoveReferencesOnly(repository, referencer) ==
  [name \in DOMAIN repository |-> repository[name] \ {referencer}]

RemoveContainerReferences(repository, referencer) ==
  LET left == {name \in DOMAIN repository : repository[name] \ {referencer} # {}}
  IN [name \in left |-> repository[name] \ {referencer}]
=============================================================================
