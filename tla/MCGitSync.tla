------------------------------ MODULE MCGitSync ------------------------------
EXTENDS GitSync, TLC

CONSTANTS a1, a2, a3

\* A file for one environment.
RepoFiles == {<<"environments", "prod", "base">>}

\* The last agent is in another environment.
AgentLabels ==
    a1 :> ("deployment.environment" :> "prod" @@ "collector.role" :> "gateway")
    @@ a2 :> ("deployment.environment" :> "prod")
    @@ a3 :> ("deployment.environment" :> "test")
==============================================================================
