------------------------------ MODULE MCAccess ------------------------------
(***************************************************************************)
(* Access with the permissions, roles and marks that the rules of a topic  *)
(* ask for.                                                                *)
(***************************************************************************)
EXTENDS Access

MCPerms == [s \in Topics |->
    CASE s = "problem" -> {"see_private_problem", "see_organization_problem",
                           "edit_own_problem", "edit_all_problem", "edit_public_problem",
                           "see_private_solution", "view_all_submission",
                           "rejudge_submission", "change_ticket"}
      [] s = "post" -> {"edit_all_post", "change_blogpost", "change_comment",
                        "override_comment_lock"}
      [] s = "organization" -> {"edit_all_organization", "change_organization", "change_class"}
      [] OTHER -> {"see_private_contest", "edit_own_contest", "edit_all_contest"}]

MCMarks == [s \in Topics |->
    CASE s = "problem" -> {"super", "staff", "member", "admin", "solved",
                           "creator"}
      [] s = "post" -> {"super", "staff", "any_solves", "mute", "post_author",
                        "comment_author"}
      [] s = "organization" -> {"super", "org_admin", "class_admin", "applicant"}
      [] OTHER -> {"super", "in_org", "in_join_org"}]

MCMaxGrants == [s \in Topics |-> CASE s = "contest" -> 2 [] s = "course" -> 1 [] OTHER -> 4]
=============================================================================
