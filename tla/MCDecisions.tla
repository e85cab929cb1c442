----------------------------- MODULE MCDecisions -----------------------------
(* An instance of Decisions for TLC.                                       *)
EXTENDS Decisions

CONSTANTS Found2, Found3   \* ids of the other issues that a scan may find

Beats == { << NoBeat, NoBeat, NoBeat >>,
           << [status |-> "ok", age |-> 180], [status |-> "ready", age |-> 0], NoBeat >>,
           << [status |-> "ok", age |-> 180], [status |-> "ready", age |-> 0],
              [status |-> "healthy", age |-> 181] >>,
           << [status |-> "ok", age |-> 180], [status |-> "ready", age |-> 0],
              [status |-> "error", age |-> 1] >>,
           << [status |-> "ok", age |-> 180], [status |-> "ready", age |-> 0],
              [status |-> "ok", age |-> 1] >> }

Repo(commit, ci) == [private |-> TRUE, commit |-> commit, ci |-> ci]
FiveRepos(repo) == << repo, repo, repo, repo, repo >>
RepoLists ==
  {FiveRepos(Repo("found", ci)) : ci \in {"passed", "failed", "running"}} \cup
  {FiveRepos(Repo("missing", "none")),
   [FiveRepos(Repo("found", "passed")) EXCEPT ![5] = Repo("raises", "none")]}

MCWorlds ==
  [cloud : {<< [critical |-> TRUE, answer |-> a], [critical |-> TRUE, answer |-> b],
               [critical |-> FALSE, answer |-> c] >> :
              a \in Answers, b \in {"ok", "warning", "server_error"},
              c \in {"ok", "timeout", "server_error"}},
   beats : Beats, repos : RepoLists, token : BOOLEAN,
   backup : {"healthy", "degraded"},
   alpaca : {[connected |-> FALSE, answer |-> "timeout", mode |-> "", failures |-> 0],
             [connected |-> TRUE, answer |-> "not_json", mode |-> "", failures |-> 0]} \cup
            {[connected |-> TRUE, answer |-> "ok", mode |-> m, failures |-> f] :
               m \in {"", "PAPER", "LIVE"}, f \in {0, 1}},
   details : {[model |-> "yes", jobs |-> 1, calls |-> 1], [model |-> "no", jobs |-> 0, calls |-> 0]}]

Issue(id, timeline, reward) ==
  [id |-> id, policy |-> TRUE, repo |-> "found", license |-> TRUE, timeline |-> timeline,
   links |-> 0, assigned |-> FALSE, plausible |-> TRUE, reward |-> reward,
   labelled |-> TRUE, clarity |-> 100]

\* what GitHub may tell two queries of one issue, and an issue that makes no item
MCSearchable ==
  {Issue(Found, "read", 500), Issue(Found, "raises", 500),
   Issue(Found2, "read", 700), Issue(Found3, "read", 300), Issue(Found3, "raises", 300),
   [Issue(Found2, "read", 700) EXCEPT !.repo = "refused"]}
=============================================================================
