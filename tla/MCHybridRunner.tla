--------------------------- MODULE MCHybridRunner ---------------------------
(***************************************************************************)
(* Small instances of HybridRunner for TLC.                                *)
(***************************************************************************)
EXTENDS HybridRunner

CONSTANTS f1, t1, r1, r2, e1, e2, h1, h2

\* The flow the server is seeded with, and one that ends without a review.
DefaultSteps ==
    <<"jdy_resolve_corp", "derive_wecom_urls", "wecom_configure_app", "jdy_check_owner",
      "jdy_install_bind", "wecom_submit_review", "wecom_wait_review",
      "wecom_submit_online">>
TwoFlows == {DefaultSteps, <<"wecom_wait_review">>}

OneFlow == {f1}
OneTask == {t1}
TwoRobots == {r1, r2}
OneFakeRobot == {r2}
TwoEditors == {e1, e2}
TwoHooks == {h1, h2}
=============================================================================
