------------------------------ MODULE Requests ------------------------------
(***************************************************************************)
(* The web application's calls to the server and who tells the user that   *)
(* one was refused: errorInterceptor, for every call that is not marked    *)
(* with SKIP_GLOBAL_ERROR_TOAST, or the handler that awaits it.            *)
(*                                                                         *)
(* A call is a verb, a path ("{}" stands for an id) and whether it is      *)
(* marked.  An operation is what one handler asks for in turn.             *)
(***************************************************************************)
EXTENDS Naturals, Sequences

CONSTANTS
  Statuses,  \* what the server may refuse a call with
  MaxToasts  \* bound on the toasts on the screen when an operation starts

VARIABLES
  op,     \* the operation in progress, or the last one
  at,     \* which of its steps
  wire,   \* calls of that step which are not answered yet
  failed, \* what its handler was rejected with, or Ok
  told,   \* who told the user of a refusal, in order
  toasts, \* ToastService._toasts, by their types
  page    \* the user is in the application, or at the login

requestVars == <<op, at, wire, failed, told, toasts, page>>

Ok == 200

----------------------------------------------------------------------------
(* The server's routes, by router.                                         *)

Routes(paths, verbs) == paths \X verbs
authRoutes == Routes({"auth/login", "auth/login-key", "auth/logout", "auth/password/reset"},
                     {"POST"})
roomRoutes ==
  Routes({"rooms"}, {"GET", "POST"}) \cup Routes({"rooms/{}"}, {"GET", "PATCH", "DELETE"})
  \cup Routes({"rooms/{}/pin"}, {"POST", "DELETE"}) \cup {<<"rooms/{}/feedback", "POST">>,
  <<"admin/histories", "GET">>, <<"admin/histories/{}", "GET">>}
messageRoutes ==
  Routes({"messages"}, {"GET", "POST"})
  \cup Routes({"messages/contents", "messages/content", "messages/{}/feedback"}, {"POST"})
  \cup Routes({"messages/{}", "messages/content/{}"}, {"DELETE"})
libraryRoutes ==
  Routes({"libraries", "libraries/{}", "libraries/{}/list"}, {"GET"})
  \cup Routes({"libraries/{}"}, {"PUT", "DELETE"})
tagRoutes ==
  Routes({"libraries/tags"}, {"GET"}) \cup Routes({"admin/library-tags"}, {"GET", "POST", "DELETE"})
  \cup {<<"admin/library-tags/{}", "PATCH">>}
shareRoutes == {<<"shares", "POST">>, <<"shares/{}/access", "GET">>, <<"shares/{}", "DELETE">>}
userRoutes ==
  Routes({"admin/users"}, {"GET", "POST"}) \cup Routes({"admin/users/{}"}, {"PATCH", "DELETE"})
  \cup Routes({"users/profile"}, {"GET", "PATCH"})
groupRoutes ==
  Routes({"groups", "admin/all-groups"}, {"GET"}) \cup Routes({"admin/groups"}, {"GET", "POST"})
  \cup Routes({"admin/groups/{}"}, {"GET", "PATCH", "DELETE"})
  \cup Routes({"admin/groups/{}/users", "admin/groups/{}/assistants",
               "admin/groups/{}/prompt-templates"}, {"GET", "POST"})
  \cup Routes({"admin/groups/{}/users/{}", "admin/groups/{}/assistants/{}",
               "admin/groups/{}/prompt-templates/{}"}, {"DELETE"})
  \cup {<<"admin/groups/{}/users/{}", "PATCH">>}
assistantRoutes ==
  Routes({"assistants", "admin/assistants", "admin/assistants/endpoints/{}",
          "admin/assistants/AIModels"}, {"GET"})
  \cup {<<"admin/assistants", "POST">>} \cup Routes({"admin/assistants/{}"}, {"PATCH", "DELETE"})
categoryRoutes ==
  Routes({"admin/assistant-categories"}, {"GET", "POST"})
  \cup Routes({"admin/assistant-categories/{}"}, {"GET", "PATCH", "DELETE"})
templateRoutes ==
  Routes({"prompt-templates", "admin/prompt-templates"}, {"GET"})
  \cup {<<"admin/prompt-templates", "POST">>}
  \cup Routes({"admin/prompt-templates/{}"}, {"PATCH", "DELETE"})
tenantRoutes == {<<"admin/tenants", "GET">>, <<"admin/tenants/{}", "PATCH">>}
endpointRoutes ==
  Routes({"admin/tenants/{}/endpoints"}, {"GET", "POST"})
  \cup Routes({"admin/tenants/{}/endpoints/{}"}, {"PATCH", "DELETE"})
  \cup {<<"admin/tenants/endpoints/{}", "GET">>}
indexRoutes ==
  Routes({"admin/indexes"}, {"GET", "POST"})
  \cup Routes({"admin/indexes/{}"}, {"GET", "PATCH", "DELETE"})
  \cup Routes({"admin/indexes/{}/sync", "admin/indexes/{}/additionalLearning"}, {"POST"})
fileRoutes ==
  Routes({"admin/indexes/{}/files"}, {"GET", "POST"})
  \cup Routes({"admin/indexes/{}/files/{}"}, {"GET", "PATCH", "DELETE"})
feedbackRoutes ==
  Routes({"admin/feedbackUser", "admin/feedbackMessage", "admin/feedbackRoom"}, {"GET"})
usageRoutes == Routes({"admin/token-usages", "admin/token-usages/summary",
                       "credit-usage/me", "credit-usage/workspace"}, {"GET"})

Served ==
  UNION {authRoutes, {<<"auth", "GET">>}, roomRoutes, messageRoutes, libraryRoutes, tagRoutes,
         shareRoutes, userRoutes, groupRoutes, assistantRoutes, categoryRoutes, templateRoutes,
         tenantRoutes, endpointRoutes, indexRoutes, fileRoutes, feedbackRoutes, usageRoutes}

----------------------------------------------------------------------------
(* The client's paths (API_PATHS and the constants of the features).       *)

AUTH ==
  [LOGIN |-> "auth/login", LOGIN_KEY |-> "auth/login-key", LOGOUT |-> "auth/logout",
   PASSWORD_RESET |-> "auth/password/reset", SESSION |-> "auth"]
ROOMS ==
  [LIST |-> "rooms", REORDER |-> "rooms/reorder", BULK_PIN_UPDATE |-> "rooms/pin",
   DETAIL |-> "rooms/{}", PIN |-> "rooms/{}/pin", FEEDBACK |-> "rooms/{}/feedback"]
ASSISTANTS == [LIST |-> "assistants"]
PROMPT_TEMPLATES == [LIST |-> "prompt-templates"]
MESSAGES ==
  [LIST |-> "messages", CONTENT |-> "messages/content", CONTENTS |-> "messages/contents",
   DETAIL |-> "messages/{}", FEEDBACK |-> "messages/{}/feedback"]
GROUPS == [LIST |-> "groups"]
SHARES == [CREATE |-> "shares", DELETE |-> "shares/{}", ACCESS |-> "shares/{}/access"]
USERS == [PROFILE |-> "users/profile"]
CREDIT_USAGE == [ME |-> "credit-usage/me", WORKSPACE |-> "credit-usage/workspace"]
ADMIN_TOKEN_USAGES ==
  [LIST |-> "admin/token-usages", SUMMARY |-> "admin/token-usages/summary"]
ADMIN_LIBRARY_TAGS == [LIST |-> "admin/library-tags", UPDATE |-> "admin/library-tags/{}"]
LIBRARY == [LIST |-> "libraries", DETAIL |-> "libraries/{}"]
LIBRARIES == [TAGS |-> "libraries/tags", UPDATE |-> "libraries/{}"]
VIEWER == [DETAIL_LIST |-> "libraries/{}/list", CONTENT |-> "libraries/{}"]
GLOSSARY ==
  [TERMS |-> "admin/glossary/terms", TERM |-> "admin/glossary/terms/{}",
   TAGS |-> "admin/glossary/tags", TAG_DETAIL |-> "admin/glossary/tags/{}",
   WORDS |-> "admin/glossary/terms/{}/words", WORD |-> "admin/glossary/terms/{}/words/{}",
   WORDS_BULK_DELETE |-> "admin/glossary/terms/{}/words/bulk-delete",
   ASSISTANTS |-> "admin/glossary/terms/{}/assistants",
   ASSISTANTS_BULK_DELETE |-> "admin/glossary/terms/{}/assistants/bulk-delete"]
INDEXES == [ADDITIONAL_LEARNING |-> "admin/indexes/{}/additionalLearning"]
USER_GLOSSARY ==
  [TERMS |-> "user/glossary/terms", TERM_DETAIL |-> "user/glossary/terms/{}",
   WORDS |-> "user/glossary/terms/{}/words", ASSISTANTS |-> "user/glossary/terms/{}/assistants"]
ADMIN ==
  [GROUPS |-> "admin/groups", GROUP |-> "admin/groups/{}", MEMBERS |-> "admin/groups/{}/users",
   MEMBER |-> "admin/groups/{}/users/{}", GROUP_ASSISTANTS |-> "admin/groups/{}/assistants",
   GROUP_ASSISTANT |-> "admin/groups/{}/assistants/{}",
   GROUP_TEMPLATES |-> "admin/groups/{}/prompt-templates",
   GROUP_TEMPLATE |-> "admin/groups/{}/prompt-templates/{}",
   USERS |-> "admin/users", ASSISTANTS |-> "admin/assistants",
   TEMPLATES |-> "admin/prompt-templates", TENANT |-> "admin/tenants",
   TENANT_UPDATE |-> "admin/tenants/{}", USAGE_LIMIT |-> "admin/tenants/{}/usage-limit",
   ENDPOINTS |-> "admin/tenants/{}/endpoints", ENDPOINT |-> "admin/tenants/{}/endpoints/{}",
   HISTORIES |-> "admin/histories", FEEDBACK_USERS |-> "admin/feedbackUser",
   FEEDBACK_MESSAGES |-> "admin/feedbackMessage", FEEDBACK_ROOMS |-> "admin/feedbackRoom",
   LIBRARY |-> "libraries/{}"]
ASSISTANT_LIST_API_PATH ==
  [LIST |-> "admin/assistants", ONE |-> "admin/assistants/{}",
   CATEGORIES |-> "admin/assistant-categories", CATEGORY |-> "admin/assistant-categories/{}",
   ENDPOINTS_BY_TYPE |-> "admin/assistants/endpoints/{}",
   AI_MODELS |-> "admin/assistants/AIModels", OPTIONS_GROUPS |-> "admin/all-groups",
   INDEXES |-> "admin/indexes"]
TRAINING_DATA_API_PATH ==
  [LIST |-> "admin/indexes", DETAIL |-> "admin/indexes/{}", SYNC |-> "admin/indexes/{}/sync",
   FILES |-> "admin/indexes/{}/files", FILE |-> "admin/indexes/{}/files/{}",
   ENDPOINTS_BY_TYPE |-> "admin/tenants/endpoints/{}", GROUPS |-> "admin/groups"]


----------------------------------------------------------------------------
(* The services' calls: GET, POST, PUT, PATCH and DELETE of ApiClientService *)
(* or HttpClient; a silent one is sent with skipGlobalErrorToast.           *)

Loud(verb, path) == [verb |-> verb, path |-> path, silent |-> FALSE]
Silent(verb, path) == [verb |-> verb, path |-> path, silent |-> TRUE]

AuthApi ==
  [login |-> Loud("POST", AUTH.LOGIN), resetPassword |-> Loud("POST", AUTH.PASSWORD_RESET),
   loginWithKey |-> Loud("POST", AUTH.LOGIN_KEY), logout |-> Loud("POST", AUTH.LOGOUT),
   getSession |-> Loud("GET", AUTH.SESSION)]
UserService ==
  [profile |-> Loud("GET", USERS.PROFILE), updatePassword |-> Loud("PATCH", USERS.PROFILE)]
CreditUsage == [me |-> Loud("GET", CREDIT_USAGE.ME), workspace |-> Loud("GET", CREDIT_USAGE.WORKSPACE)]

GroupApiLoudCreate ==
  [list |-> Loud("GET", ADMIN.GROUPS), getById |-> Loud("GET", ADMIN.GROUP),
   create |-> Loud("POST", ADMIN.GROUPS), update |-> Silent("PATCH", ADMIN.GROUP),
   delete |-> Silent("DELETE", ADMIN.GROUP)]

GroupApi ==
  [list |-> Loud("GET", ADMIN.GROUPS), getById |-> Loud("GET", ADMIN.GROUP),
   create |-> Silent("POST", ADMIN.GROUPS), update |-> Silent("PATCH", ADMIN.GROUP),
   delete |-> Silent("DELETE", ADMIN.GROUP)]
GroupUsersApi ==
  [listUsers |-> Loud("GET", ADMIN.USERS), listByGroup |-> Loud("GET", ADMIN.MEMBERS),
   addUsers |-> Silent("POST", ADMIN.MEMBERS), remove |-> Silent("DELETE", ADMIN.MEMBER),
   updateRole |-> Silent("PATCH", ADMIN.MEMBER)]
GroupAssistantsApi ==
  [listAll |-> Loud("GET", ADMIN.ASSISTANTS), listByGroup |-> Loud("GET", ADMIN.GROUP_ASSISTANTS),
   add |-> Silent("POST", ADMIN.GROUP_ASSISTANTS), remove |-> Silent("DELETE", ADMIN.GROUP_ASSISTANT)]
GroupTemplatesApi ==
  [listAll |-> Loud("GET", ADMIN.TEMPLATES), listByGroup |-> Loud("GET", ADMIN.GROUP_TEMPLATES),
   add |-> Silent("POST", ADMIN.GROUP_TEMPLATES), remove |-> Silent("DELETE", ADMIN.GROUP_TEMPLATE)]
GroupsApi == [list |-> Loud("GET", ADMIN.GROUPS)]
TemplateApi ==
  [list |-> Loud("GET", ADMIN.TEMPLATES), create |-> Silent("POST", ADMIN.TEMPLATES),
   update |-> Silent("PATCH", "admin/prompt-templates/{}"),
   deleteOne |-> Silent("DELETE", "admin/prompt-templates/{}")]
UserListApi ==
  [list |-> Loud("GET", "admin/users"), create |-> Silent("POST", "admin/users"),
   update |-> Silent("PATCH", "admin/users/{}"), deleteOne |-> Silent("DELETE", "admin/users/{}")]
ChatHistoryApi == [list |-> Loud("GET", ADMIN.HISTORIES)]
AssistantApi ==
  [list |-> Loud("GET", ASSISTANT_LIST_API_PATH.LIST),
   create |-> Silent("POST", ASSISTANT_LIST_API_PATH.LIST),
   update |-> Silent("PATCH", ASSISTANT_LIST_API_PATH.ONE),
   deleteOne |-> Silent("DELETE", ASSISTANT_LIST_API_PATH.ONE)]
AssistantCategoryApi ==
  [list |-> Loud("GET", ASSISTANT_LIST_API_PATH.CATEGORIES),
   create |-> Silent("POST", ASSISTANT_LIST_API_PATH.CATEGORIES),
   update |-> Silent("PATCH", ASSISTANT_LIST_API_PATH.CATEGORY),
   delete |-> Silent("DELETE", ASSISTANT_LIST_API_PATH.CATEGORY)]
AssistantOptions ==
  [aiModels |-> Loud("GET", ASSISTANT_LIST_API_PATH.AI_MODELS),
   groups |-> Loud("GET", ASSISTANT_LIST_API_PATH.OPTIONS_GROUPS),
   indexes |-> Loud("GET", ASSISTANT_LIST_API_PATH.INDEXES),
   byType |-> Loud("GET", ASSISTANT_LIST_API_PATH.ENDPOINTS_BY_TYPE)]
TenantApi ==
  [tenant |-> Loud("GET", ADMIN.TENANT), usages |-> Loud("GET", ADMIN_TOKEN_USAGES.LIST),
   summary |-> Loud("GET", ADMIN_TOKEN_USAGES.SUMMARY), endpoints |-> Loud("GET", ADMIN.ENDPOINTS),
   createEndpoint |-> Silent("POST", ADMIN.ENDPOINTS),
   updateEndpoint |-> Silent("PATCH", ADMIN.ENDPOINT),
   deleteEndpoint |-> Silent("DELETE", ADMIN.ENDPOINT),
   updateTenant |-> Silent("PATCH", ADMIN.TENANT_UPDATE),
   updateUsageLimit |-> Silent("PATCH", ADMIN.USAGE_LIMIT)]
FeedbackMessageApi ==
  [list |-> Loud("GET", ADMIN.FEEDBACK_MESSAGES), folders |-> Loud("GET", TRAINING_DATA_API_PATH.LIST),
   learn |-> Loud("POST", INDEXES.ADDITIONAL_LEARNING)]
FeedbackRoomApi ==
  [list |-> Loud("GET", ADMIN.FEEDBACK_ROOMS), learn |-> Loud("POST", INDEXES.ADDITIONAL_LEARNING)]
FeedbackUserApi == [list |-> Loud("GET", ADMIN.FEEDBACK_USERS)]
FeedbackOptions == [assistants |-> Loud("GET", ADMIN.ASSISTANTS)]
TrainingApi ==
  [list |-> Loud("GET", TRAINING_DATA_API_PATH.LIST),
   getFolder |-> Loud("GET", TRAINING_DATA_API_PATH.DETAIL),
   listFiles |-> Loud("GET", TRAINING_DATA_API_PATH.FILES),
   create |-> Loud("POST", TRAINING_DATA_API_PATH.LIST),
   syncFolder |-> Loud("POST", TRAINING_DATA_API_PATH.SYNC),
   uploadFile |-> Loud("POST", TRAINING_DATA_API_PATH.FILES),
   deleteFile |-> Loud("DELETE", TRAINING_DATA_API_PATH.FILE),
   deleteFolder |-> Loud("DELETE", TRAINING_DATA_API_PATH.DETAIL),
   updateFolder |-> Loud("PATCH", TRAINING_DATA_API_PATH.DETAIL),
   updateFile |-> Loud("PATCH", TRAINING_DATA_API_PATH.FILE),
   download |-> Loud("GET", TRAINING_DATA_API_PATH.FILE),
   endpoints |-> Loud("GET", TRAINING_DATA_API_PATH.ENDPOINTS_BY_TYPE),
   groups |-> Loud("GET", TRAINING_DATA_API_PATH.GROUPS)]
LibraryApi ==
  [list |-> Loud("GET", LIBRARY.LIST), update |-> Silent("PUT", ADMIN.LIBRARY),
   delete |-> Silent("DELETE", ADMIN.LIBRARY)]
TagsApi ==
  [list |-> Loud("GET", ADMIN_LIBRARY_TAGS.LIST), create |-> Silent("POST", ADMIN_LIBRARY_TAGS.LIST),
   update |-> Silent("PATCH", ADMIN_LIBRARY_TAGS.UPDATE),
   delete |-> Loud("DELETE", ADMIN_LIBRARY_TAGS.LIST)]

GlossaryTermsApi ==
  [list |-> Loud("GET", GLOSSARY.TERMS), getById |-> Loud("GET", GLOSSARY.TERM),
   create |-> Loud("POST", GLOSSARY.TERMS), update |-> Loud("PATCH", GLOSSARY.TERM),
   delete |-> Loud("DELETE", GLOSSARY.TERM)]
GlossaryTagsApi ==
  [list |-> Loud("GET", GLOSSARY.TAGS), create |-> Loud("POST", GLOSSARY.TAGS),
   update |-> Loud("PATCH", GLOSSARY.TAG_DETAIL), delete |-> Loud("DELETE", GLOSSARY.TAG_DETAIL)]
GlossaryWordsApi ==
  [list |-> Loud("GET", GLOSSARY.WORDS), update |-> Loud("PATCH", GLOSSARY.WORD),
   delete |-> Loud("DELETE", GLOSSARY.WORD), bulkDelete |-> Loud("POST", GLOSSARY.WORDS_BULK_DELETE)]
GlossaryAssistantsApi ==
  [list |-> Loud("GET", GLOSSARY.ASSISTANTS), add |-> Loud("POST", GLOSSARY.ASSISTANTS),
   remove |-> Loud("POST", GLOSSARY.ASSISTANTS_BULK_DELETE)]
UserGlossaryTermsApi ==
  [list |-> Loud("GET", USER_GLOSSARY.TERMS), getById |-> Loud("GET", USER_GLOSSARY.TERM_DETAIL)]
UserGlossaryWordsApi == [list |-> Loud("GET", USER_GLOSSARY.WORDS)]
UserGlossaryAssistantsApi == [list |-> Loud("GET", USER_GLOSSARY.ASSISTANTS)]

RoomCalls ==
  [list |-> Loud("GET", ROOMS.LIST), create |-> Loud("POST", ROOMS.LIST),
   rename |-> Loud("PATCH", ROOMS.DETAIL), pin |-> Loud("POST", ROOMS.PIN),
   unpin |-> Loud("DELETE", ROOMS.PIN), savePins |-> Loud("PUT", ROOMS.BULK_PIN_UPDATE),
   delete |-> Loud("DELETE", ROOMS.DETAIL), reorder |-> Loud("PUT", ROOMS.REORDER),
   deleteMany |-> Loud("DELETE", ROOMS.LIST), feedback |-> Loud("POST", ROOMS.FEEDBACK)]
MessageCalls ==
  [list |-> Loud("GET", MESSAGES.LIST), contents |-> Loud("POST", MESSAGES.CONTENTS),
   create |-> Loud("POST", MESSAGES.LIST), delete |-> Loud("DELETE", MESSAGES.DETAIL),
   rate |-> Loud("POST", MESSAGES.FEEDBACK)]
ShareCalls ==
  [share |-> Loud("POST", SHARES.CREATE), unshare |-> Loud("DELETE", SHARES.DELETE),
   access |-> Loud("GET", SHARES.ACCESS)]
ViewerCalls == [list |-> Loud("GET", VIEWER.DETAIL_LIST), content |-> Loud("GET", VIEWER.CONTENT)]
LibraryCalls == [list |-> Loud("GET", LIBRARY.LIST), update |-> Loud("PUT", LIBRARIES.UPDATE)]
TagCalls == [list |-> Loud("GET", LIBRARIES.TAGS)]
AssistantCalls == [list |-> Loud("GET", ASSISTANTS.LIST)]
TeamCalls == [list |-> Loud("GET", GROUPS.LIST)]
PromptTemplateCalls == [list |-> Loud("GET", PROMPT_TEMPLATES.LIST)]

----------------------------------------------------------------------------
(* What each handler asks for in turn.  A step is one call, the same call   *)
(* for each chosen row at once (Promise.all), or one whose failure the      *)
(* handler, or the store under it, swallows.                                *)

Once(c) == [call |-> c, copies |-> 1, caught |-> FALSE]
Each(c) == [call |-> c, copies |-> 2, caught |-> FALSE]
Caught(c) == [call |-> c, copies |-> 1, caught |-> TRUE]
EachCaught(c) == [call |-> c, copies |-> 2, caught |-> TRUE]

\* says: what the handler tells of a refusal, by its status.
Asks(does, cheers, says) == [does |-> does, cheers |-> cheers, says |-> says]
ByToast == [s \in Statuses |-> <<"toast">>]
LeftToAll == [s \in Statuses |-> <<>>]
Reports(does) == Asks(does, TRUE, ByToast)
Complains(does) == Asks(does, FALSE, ByToast)
Leaves(does) == Asks(does, FALSE, LeftToAll)

submitAddGroup == Reports(<<Once(GroupApi.create)>>)
submitEditGroup == Reports(<<Once(GroupApi.update)>>)
deleteGroup == Reports(<<Once(GroupApi.delete)>>)
submitAddUsers == Reports(<<Once(GroupUsersApi.addUsers), Caught(GroupUsersApi.listByGroup)>>)
submitEditRole == Reports(<<Once(GroupUsersApi.updateRole), Caught(GroupUsersApi.listByGroup)>>)
submitRemoveUsers == Reports(<<Each(GroupUsersApi.remove), Caught(GroupUsersApi.listByGroup)>>)
submitAddAssistants ==
  Reports(<<Once(GroupAssistantsApi.add), Caught(GroupAssistantsApi.listByGroup)>>)
submitRemoveAssistants ==
  Reports(<<Each(GroupAssistantsApi.remove), Caught(GroupAssistantsApi.listByGroup)>>)
submitAddTemplates ==
  Reports(<<Once(GroupTemplatesApi.add), Caught(GroupTemplatesApi.listByGroup)>>)
submitRemoveTemplates ==
  Reports(<<Each(GroupTemplatesApi.remove), Caught(GroupTemplatesApi.listByGroup)>>)
submitAddUser == Reports(<<Once(UserListApi.create), Caught(UserListApi.list)>>)
submitEditUser == Reports(<<Once(UserListApi.update), Caught(UserListApi.list)>>)
submitDeleteUsers == Reports(<<Each(UserListApi.deleteOne), Caught(UserListApi.list)>>)
submitAddTemplate == Reports(<<Once(TemplateApi.create), Each(GroupTemplatesApi.add)>>)
submitEditTemplate ==
  Reports(<<Once(TemplateApi.update), Each(GroupTemplatesApi.remove), Each(GroupTemplatesApi.add)>>)
submitDeleteTemplates == Reports(<<Each(TemplateApi.deleteOne)>>)
submitAddAssistant == Reports(<<Once(AssistantApi.create)>>)
submitEditAssistant == Reports(<<Once(AssistantApi.update)>>)
submitDeleteAssistants == Reports(<<Each(AssistantApi.deleteOne)>>)
submitAddCategory == Reports(<<Once(AssistantCategoryApi.create)>>)
submitEditCategory == Reports(<<Once(AssistantCategoryApi.update)>>)
submitDeleteCategories == Reports(<<Each(AssistantCategoryApi.delete)>>)
createEndpoint == Reports(<<Once(TenantApi.createEndpoint), Caught(TenantApi.endpoints)>>)
updateEndpoint == Reports(<<Once(TenantApi.updateEndpoint), Caught(TenantApi.endpoints)>>)
deleteEndpoint == Reports(<<Once(TenantApi.deleteEndpoint), Caught(TenantApi.endpoints)>>)
updateTenant == Reports(<<Once(TenantApi.updateTenant), Caught(TenantApi.tenant)>>)
updateUsageLimit == Reports(<<Once(TenantApi.updateUsageLimit), Caught(TenantApi.tenant)>>)
saveEditSettings == Complains(<<Once(LibraryApi.update), Caught(LibraryApi.list)>>)
deleteItem == Complains(<<Once(LibraryApi.delete), Caught(LibraryApi.list)>>)
saveEditTag == Complains(<<Once(TagsApi.update)>>)
createTag == Complains(<<Once(TagsApi.create), Caught(TagsApi.list)>>)
deleteTags == Leaves(<<Once(TagsApi.delete), Caught(TagsApi.list)>>)
Administration ==
  {submitAddGroup, submitEditGroup, deleteGroup, submitAddUsers, submitEditRole,
   submitRemoveUsers, submitAddAssistants, submitRemoveAssistants, submitAddTemplates,
   submitRemoveTemplates, submitAddUser, submitEditUser, submitDeleteUsers, submitAddTemplate,
   submitEditTemplate, submitDeleteTemplates, submitAddAssistant, submitEditAssistant,
   submitDeleteAssistants, submitAddCategory, submitEditCategory, submitDeleteCategories,
   createEndpoint, updateEndpoint, deleteEndpoint, updateTenant, updateUsageLimit,
   saveEditSettings, deleteItem, saveEditTag, createTag, deleteTags}

addGlossaryTag == Leaves(<<Once(GlossaryTagsApi.create), Once(GlossaryTagsApi.list)>>)
editGlossaryTag == Leaves(<<Once(GlossaryTagsApi.update), Once(GlossaryTagsApi.list)>>)
deleteGlossaryTag == Leaves(<<Once(GlossaryTagsApi.delete), Once(GlossaryTagsApi.list)>>)
deleteGlossaryTags == Leaves(<<EachCaught(GlossaryTagsApi.delete), Once(GlossaryTagsApi.list)>>)
addGlossary == Leaves(<<Once(GlossaryTermsApi.create), Once(GlossaryTermsApi.list)>>)
editGlossary == Leaves(<<Once(GlossaryTermsApi.update)>>)
deleteGlossary == Leaves(<<Once(GlossaryTermsApi.delete)>>)
editWord == Leaves(<<Once(GlossaryWordsApi.update), Once(GlossaryWordsApi.list)>>)
deleteWord == Leaves(<<Once(GlossaryWordsApi.delete), Once(GlossaryWordsApi.list)>>)
deleteWords == Leaves(<<Once(GlossaryWordsApi.bulkDelete), Once(GlossaryWordsApi.list)>>)
addGlossaryAssistants == Leaves(<<Once(GlossaryAssistantsApi.add), Once(GlossaryAssistantsApi.list)>>)
removeGlossaryAssistants ==
  Leaves(<<Once(GlossaryAssistantsApi.remove), Once(GlossaryAssistantsApi.list)>>)
GlossaryPages ==
  {addGlossaryTag, editGlossaryTag, deleteGlossaryTag, deleteGlossaryTags, addGlossary,
   editGlossary, deleteGlossary, editWord, deleteWord, deleteWords, addGlossaryAssistants,
   removeGlossaryAssistants}

\* A wrong name or password is told beside the field and by a toast; too many tries
\* beside the field only; anything else by errorInterceptor and beside the field.
login ==
  Asks(<<Once(AuthApi.login)>>, TRUE,
       [s \in Statuses |-> IF s \in {401, 403} THEN <<"field", "toast">> ELSE <<"field">>])
resetPassword == Asks(<<Once(AuthApi.resetPassword)>>, TRUE, [s \in Statuses |-> <<"field">>])
runLoginKeyInitializer == Complains(<<Once(AuthApi.loginWithKey)>>)
logout == Leaves(<<Once(AuthApi.logout)>>)
Others ==
  {Leaves(<<Once(c)>>) : c \in
     {UserService.updatePassword, FeedbackMessageApi.learn, FeedbackRoomApi.learn,
      TrainingApi.create, TrainingApi.syncFolder, TrainingApi.uploadFile, TrainingApi.deleteFolder,
      TrainingApi.updateFolder, TrainingApi.updateFile, TrainingApi.download, RoomCalls.create,
      RoomCalls.rename, RoomCalls.pin, RoomCalls.unpin, RoomCalls.savePins, RoomCalls.delete,
      RoomCalls.reorder, RoomCalls.deleteMany, RoomCalls.feedback, MessageCalls.create,
      MessageCalls.delete, MessageCalls.rate, ShareCalls.share, ShareCalls.unshare,
      ShareCalls.access, LibraryCalls.update}}
  \cup {Leaves(<<Each(TrainingApi.deleteFile)>>)}
SignIn == {login, resetPassword, runLoginKeyInitializer}

\* What the pages and the stores read; a store swallows the failure of a read.
Reads ==
  {Leaves(<<Caught(c)>>) : c \in
     {AuthApi.getSession, UserService.profile, CreditUsage.me, CreditUsage.workspace, GroupApi.list,
      GroupApi.getById, GroupUsersApi.listUsers, GroupUsersApi.listByGroup,
      GroupAssistantsApi.listAll, GroupAssistantsApi.listByGroup, GroupTemplatesApi.listAll,
      GroupTemplatesApi.listByGroup, GroupsApi.list, TemplateApi.list, UserListApi.list,
      ChatHistoryApi.list, AssistantApi.list, AssistantCategoryApi.list, AssistantOptions.aiModels,
      AssistantOptions.groups, AssistantOptions.indexes, AssistantOptions.byType, TenantApi.tenant,
      TenantApi.usages, TenantApi.summary, TenantApi.endpoints, FeedbackMessageApi.list,
      FeedbackMessageApi.folders, FeedbackRoomApi.list, FeedbackUserApi.list,
      FeedbackOptions.assistants, TrainingApi.list, TrainingApi.getFolder, TrainingApi.listFiles,
      TrainingApi.endpoints, TrainingApi.groups, LibraryApi.list, TagsApi.list,
      GlossaryTermsApi.getById, UserGlossaryTermsApi.list, UserGlossaryTermsApi.getById,
      UserGlossaryWordsApi.list, UserGlossaryAssistantsApi.list, RoomCalls.list, MessageCalls.list,
      MessageCalls.contents, ViewerCalls.list, ViewerCalls.content, LibraryCalls.list,
      TagCalls.list, AssistantCalls.list, TeamCalls.list, PromptTemplateCalls.list}}

Operations == UNION {Administration, GlossaryPages, SignIn, {logout}, Others, Reads}

----------------------------------------------------------------------------
(* errorInterceptor.                                                       *)

AuthPath(c) == c.path \in {AUTH.LOGIN, AUTH.LOGIN_KEY, AUTH.LOGOUT, AUTH.PASSWORD_RESET, AUTH.SESSION}
\* The url of the key's login contains the url of the login.
LoginPath(c) == c.path \in {AUTH.LOGIN, AUTH.LOGIN_KEY}
skipToast(c, s) ==
  \/ s = 429 /\ (LoginPath(c) \/ c.path = AUTH.PASSWORD_RESET)
  \/ s \in {401, 403} /\ LoginPath(c)
  \/ c.silent
LeavesForLogin(c, s) == s = 401 /\ ~AuthPath(c)

----------------------------------------------------------------------------

Idle == wire = 0
Step == op.does[at]

\* A session that was lost leads to the login, and only from there can one sign in.
Begin(o) ==
  /\ Idle /\ Len(toasts) <= MaxToasts
  /\ o \in SignIn \/ page = "app"
  /\ op' = o /\ at' = 1 /\ wire' = o.does[1].copies
  /\ failed' = Ok /\ told' = <<>>
  /\ UNCHANGED <<toasts, page>>

\* The next step's calls go out, or the handler reports that all is done.
Advance ==
  IF at < Len(op.does)
  THEN /\ at' = at + 1 /\ wire' = op.does[at + 1].copies
       /\ UNCHANGED <<toasts, page>>
  ELSE /\ wire' = 0 /\ UNCHANGED at
       /\ toasts' = IF op.cheers THEN Append(toasts, "success") ELSE toasts
       /\ page' = IF op \in SignIn THEN "app" ELSE IF op = logout THEN "login" ELSE page

Answered ==
  /\ wire > 0 /\ <<Step.call.path, Step.call.verb>> \in Served
  /\ IF wire = 1 /\ failed = Ok
     THEN Advance
     ELSE wire' = wire - 1 /\ UNCHANGED <<at, toasts, page>>
  /\ UNCHANGED <<op, failed, told>>

\* Promise.all rejects with the first refusal; the other calls go on.
Refused(s) ==
  LET c == Step.call
      rejects == ~Step.caught /\ failed = Ok
      says == (IF skipToast(c, s) THEN <<>> ELSE <<"all">>) \o (IF rejects THEN op.says[s] ELSE <<>>)
      errors == SelectSeq(says, LAMBDA t : t # "field")
  IN /\ wire > 0
     /\ <<c.path, c.verb>> \notin Served => s = 404
     /\ told' = told \o says
     /\ failed' = IF rejects THEN s ELSE failed
     /\ IF wire = 1 /\ failed' = Ok /\ at < Len(op.does)
        THEN at' = at + 1 /\ wire' = op.does[at + 1].copies
        ELSE wire' = wire - 1 /\ UNCHANGED at
     /\ toasts' = toasts \o [i \in DOMAIN errors |-> "error"]
                  \o (IF wire' = 0 /\ failed' = Ok /\ op.cheers THEN <<"success">> ELSE <<>>)
     /\ page' = IF LeavesForLogin(c, s) THEN "login" ELSE page
     /\ UNCHANGED op

\* ToastService.remove: the user closes a toast, or its time is over.
remove(i) ==
  /\ i \in DOMAIN toasts
  /\ toasts' = [j \in 1 .. Len(toasts) - 1 |-> toasts[IF j < i THEN j ELSE j + 1]]
  /\ UNCHANGED <<op, at, wire, failed, told, page>>

RequestInit ==
  /\ op = Asks(<<>>, FALSE, <<>>) /\ at = 1 /\ wire = 0 /\ failed = Ok /\ told = <<>> /\ toasts = <<>>
  /\ page = "login"

RequestNext ==
  \/ \E o \in Operations : Begin(o)
  \/ Answered
  \/ \E s \in Statuses : Refused(s)
  \/ \E i \in DOMAIN toasts : remove(i)

----------------------------------------------------------------------------

Calls(api) == {api[f] : f \in DOMAIN api}

\* Calls the server has no route for: the rooms are not pinned, ordered or deleted
\* together, a tenant's limit is not saved, and a glossary is never shown.
Missing ==
  {RoomCalls.savePins, RoomCalls.reorder, RoomCalls.deleteMany, TenantApi.updateUsageLimit}
  \cup Calls(GlossaryTermsApi) \cup Calls(GlossaryTagsApi) \cup Calls(GlossaryWordsApi)
  \cup Calls(GlossaryAssistantsApi) \cup Calls(UserGlossaryTermsApi)
  \cup Calls(UserGlossaryWordsApi) \cup Calls(UserGlossaryAssistantsApi)

Tellers == {told[i] : i \in DOMAIN told}

\* A handler that was rejected leaves the user told: by errorInterceptor or by the
\* handler's own toast, and by both only where a key opened the session.  Nobody
\* silences a call whose failure is swallowed, and only the calls above have no route.
RefusalTold ==
  /\ failed # Ok => Tellers # {}
  /\ {"all", "toast"} \subseteq Tellers => op = runLoginKeyInitializer
  /\ wire > 0 /\ Step.caught => ~Step.call.silent
  /\ wire > 0 /\ <<Step.call.path, Step.call.verb>> \notin Served => Step.call \in Missing
=============================================================================
