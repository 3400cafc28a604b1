-------------------------------- MODULE Routes ------------------------------
(***************************************************************************)
(* What every HTTP handler (handler.rs) and MCP tool (mcp.rs) asks of its  *)
(* caller.  A handler is the record of its demands; what an operation does *)
(* once its caller is in is modelled elsewhere, except for the operations  *)
(* on the space's own credentials.                                         *)
(***************************************************************************)
(* Demands                                                                 *)

Route(need, mode) ==
  [need |-> need, mode |-> mode, guard |-> "none",
   shows |-> "status", act |-> "none", paid |-> FALSE]

Looks   == Route("Read", "PublicReadLenient")
Reads   == Route("Read", "PublicRead")
Writes  == Route("Write", "Credentialed")
Whole   == Route("All", "Credentialed")
Manages == Route("Write", "CwtOnly")
Admin   == Route("Write", "Admin")

Showing(route, shows) == [route EXCEPT !.shows = shows]
Guarded(route, guard, shows) == [route EXCEPT !.guard = guard, !.shows = shows]
Acting(route, act) == [route EXCEPT !.act = act]
Paid(route) == [route EXCEPT !.paid = TRUE]

-----------------------------------------------------------------------------
(* handler.rs; the paid ones are the llm_router of bin/main.rs             *)

get_info               == Looks
get_formation_status   == Looks
post_formation         == Paid(Writes)
post_recall            == Paid(Guarded(Reads, "recall", "history"))
post_recall_structured == Paid(Guarded(Reads, "recall", "history"))
post_probe             == Showing(Looks, "graph")
post_memory_pin        == Writes
post_memory_forget     == Writes
get_memory_status      == Looks
post_shadow_eval       == Paid(Manages)
post_wiki_commit       == Writes
list_wiki_docs         == Showing(Reads, "wiki")
get_wiki_doc           == Showing(Reads, "wiki")
get_wiki_content       == Showing(Reads, "wiki")
list_wiki_versions     == Showing(Reads, "wiki")
wiki_set_archived      == Writes
post_wiki_search       == Showing(Reads, "wiki")
post_wiki_verify       == Showing(Reads, "wiki")
list_wiki_events       == Guarded(Reads, "events", "audit")
post_wiki_import       == Whole
get_wiki_export        == Showing(Whole, "everything")
post_wiki_digest       == Paid(Writes)
post_maintenance       == Paid([Writes EXCEPT !.guard = "idle"])
execute_kip_readonly   == Showing(Looks, "graph")
get_or_init_user       == Writes
get_conversation       == Guarded(Reads, "conversation", "history")
get_conversation_delta == Guarded(Reads, "conversation", "history")
list_conversations     == Guarded(Reads, "conversation", "history")
list_space_tokens      == Manages
add_space_token        == Acting(Manages, "mint")
revoke_space_token     == Acting(Manages, "revoke")
update_space           == Acting(Manages, "update")
restart_formation      == Manages
get_byok               == Manages
update_byok            == Manages
create_space           == Acting(Admin, "create")
update_space_tier      == Admin

HttpRoutes ==
  { get_info, get_formation_status, post_formation, post_recall,
    post_recall_structured, post_probe, post_memory_pin, post_memory_forget,
    get_memory_status, post_shadow_eval, post_wiki_commit, list_wiki_docs,
    get_wiki_doc, get_wiki_content, list_wiki_versions, wiki_set_archived,
    post_wiki_search, post_wiki_verify, list_wiki_events, post_wiki_import,
    get_wiki_export, post_wiki_digest, post_maintenance, execute_kip_readonly,
    get_or_init_user, get_conversation, get_conversation_delta,
    list_conversations, list_space_tokens, add_space_token, revoke_space_token,
    update_space, restart_formation, get_byok, update_byok, create_space,
    update_space_tier }

-----------------------------------------------------------------------------
(* mcp.rs: a tool names a scope, or the lenient mode; inputs are typed     *)

\* Mutant: a tool that reads skips the token on a public space.
LenientReads(need) ==
  Route(need, IF need = "Read" THEN "PublicReadLenient" ELSE "Credentialed")

load_authorized_space_with_token(need) ==
  Route(need, IF need = "Read" THEN "PublicRead" ELSE "Credentialed")
load_lenient_space == Route("Read", "PublicReadLenient")

get_space_info_for        == load_lenient_space
get_formation_status_for  == load_lenient_space
remember_conversation_for == load_authorized_space_with_token("Write")
recall_memory_for         == Paid(Guarded(load_authorized_space_with_token("Read"), "recall", "history"))
run_maintenance_for       == Paid([load_authorized_space_with_token("Write") EXCEPT !.guard = "idle"])
execute_kip_readonly_for  == Showing(load_lenient_space, "graph")
get_or_init_user_for      == load_authorized_space_with_token("Write")
list_conversations_for    == Guarded(load_authorized_space_with_token("Read"), "conversation", "history")
get_conversation_for      == Guarded(load_authorized_space_with_token("Read"), "conversation", "history")
wiki_commit_for           == load_authorized_space_with_token("Write")
wiki_search_for           == Showing(load_authorized_space_with_token("Read"), "wiki")
wiki_read_for             == Showing(load_authorized_space_with_token("Read"), "wiki")
wiki_verify_for           == Showing(load_authorized_space_with_token("Read"), "wiki")

McpRoutes ==
  { get_space_info_for, get_formation_status_for, remember_conversation_for,
    recall_memory_for, run_maintenance_for, execute_kip_readonly_for,
    get_or_init_user_for, list_conversations_for, get_conversation_for,
    wiki_commit_for, wiki_search_for, wiki_read_for, wiki_verify_for }

\* The tools and the handlers of the same operation.
SameOperation ==
  { <<get_info, get_space_info_for>>, <<get_formation_status, get_formation_status_for>>,
    <<post_formation, remember_conversation_for>>, <<post_recall, recall_memory_for>>,
    <<post_maintenance, run_maintenance_for>>, <<execute_kip_readonly, execute_kip_readonly_for>>,
    <<get_or_init_user, get_or_init_user_for>>, <<list_conversations, list_conversations_for>>,
    <<get_conversation, get_conversation_for>>, <<get_conversation_delta, get_conversation_for>>,
    <<post_wiki_commit, wiki_commit_for>>, <<post_wiki_search, wiki_search_for>>,
    <<get_wiki_content, wiki_read_for>>, <<get_wiki_doc, wiki_read_for>>,
    <<post_wiki_verify, wiki_verify_for>> }

=============================================================================
