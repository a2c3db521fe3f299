------------------------ MODULE MCSubmissionPipeline ------------------------
\* Values for the instance of SubmissionPipeline that TLC checks: one user, and an
\* identity without a name; a role table whose first entry for a submission is not the
\* only one that matches it.
EXTENDS SubmissionPipeline, TLC

CONSTANTS r1, r2, ann, nobody, j1, j2

BothPlugins == <<"keycloak", "sqed">>
Table == << [routes |-> {"circuit", "run"}, roles |-> {"cortex_user"}],
            [routes |-> {"circuit", "admin"}, roles |-> {"admin"}] >>

Kind(path, form, user) == [route |-> path, token |-> [form |-> form, user |-> user]]
Submissions == { Kind("circuit", "sqed", ann), Kind("run", "sqed", ann),
                 Kind("circuit", "jwt", ann), Kind("run", "jwt", nobody) }
Others == { Kind("health", "none", nobody), Kind("cocos", "none", nobody),
            Kind("other", "jwt", ann), Kind("run", "none", nobody),
            Kind("run", "other", nobody), Kind("admin", "jwt", ann) }
SomeKinds == r1 :> (Submissions \cup Others) @@ r2 :> {Kind("admin", "sqed", ann)}
=============================================================================
