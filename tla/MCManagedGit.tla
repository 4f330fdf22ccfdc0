---------------------------- MODULE MCManagedGit ----------------------------
(* HostWork and ManagedGit under the loads that TLC explores.               *)
EXTENDS ManagedGit

NoPackage == <<"none", "none", "none", "none">>

\* Edits of the document and of a repository file race a package reload.
Mixed == [kind |-> <<"target", "reload", "repo", "repo">>,
          package |-> <<"none", "p", "none", "none">>,
          mayFail |-> {"commit", "uncertain", "lost_commit", "effect"}]

\* A package that fails, its retries and its resolution.
Retry == [kind |-> <<"reload", "disable", "resolve", "none">>,
          package |-> <<"p", "p", "p", "none">>,
          mayFail |-> {"prepare", "commit", "effect", "runtime", "uncertain"}]

\* A refresh that fails beside an explicit reload.
Refresh == [Retry EXCEPT !.kind = <<"refresh", "reload", "none", "none">>]

\* Explicit reloads of one package and an edit; runtime jobs are lost.
Late == [kind |-> <<"reload", "reload", "target", "none">>,
         package |-> <<"p", "p", "none", "none">>,
         mayFail |-> {"effect", "runtime", "cleanup", "lost_late"}]

\* Managed spawns race each other and an edit.
Spawns == [kind |-> <<"git", "target", "git", "none">>, package |-> NoPackage,
           mayFail |-> {"commit", "uncertain", "git"}]

\* A managed spawn with the failures that HostWork answers and ManagedGit does not.
SpawnFaults == [kind |-> <<"git", "target", "none", "none">>, package |-> NoPackage,
                mayFail |-> {"prepare", "commit", "lost_commit", "git"}]

AllLoads == {Mixed, Retry, Refresh, Late, Spawns, SpawnFaults}

\* The load of the run that shows a violation.
LostLoads == {[Late EXCEPT !.mayFail = {"effect", "lost_late"}]}
=============================================================================
