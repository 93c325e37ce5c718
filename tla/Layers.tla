------------------------------- MODULE Layers -------------------------------
(***************************************************************************)
(* build_router puts the application together: the routes of the routers,  *)
(* and the middleware and extensions laid around those routes that are     *)
(* there at the time.  A handler or a middleware finds an extension only   *)
(* when that was laid around it later; one that is missing is found out by *)
(* the first request, which panics (extract_state, unwrap) or gets 500.    *)
(*                                                                         *)
(* The build has the feature "endpoints" and what that implies.  One step  *)
(* for each part, in the order of the code; features and settings are      *)
(* chosen at the start ("metrics" is both).  The application's closures    *)
(* are external: router brings all routers of the library, and state lays  *)
(* all its states, and the connection, around everything.                  *)
(***************************************************************************)
EXTENDS Naturals, Sequences

VARIABLES
    features,  \* those of the build, and the optional settings
    routes,    \* what is laid around each route, from the inside out
    side,      \* the same for the server of the metrics
    built      \* the parts done

layersVars == <<features, routes, side, built>>

AllFeatures ==
    {"avatar", "logging", "frontend", "metrics", "metrics_port", "oidc", "mail",
     "connect_info"}

NoRoutes == [route \in {} |-> <<>>]

With(app, names) ==
    [route \in DOMAIN app \union names |-> IF route \in DOMAIN app THEN app[route] ELSE <<>>]

(* Router::merge and nest, which panic when two routers have a route.      *)
Merge(apps) ==
    [route \in UNION {DOMAIN app : app \in apps} |->
       (CHOOSE app \in apps : route \in DOMAIN app)[route]]

(* Router::layer. *)
Lay(app, around) == [route \in DOMAIN app |-> app[route] \o around]

If(feature, around) == IF feature \in features THEN around ELSE <<>>

-----------------------------------------------------------------------------
(* The routers, by handler.  A limiter is laid around the routes so far.   *)

Limited(names) == Lay(With(NoRoutes, names), <<"limiter">>)

PasswordRoutes == With(Limited({"authenticate"}), {"key"})

OidcRoutes == With(Limited({"oidc_url"}), {"oidc_callback"})

AuthRoutes ==
    Merge({With(PasswordRoutes, {"logout", "test_token"}),
           IF "avatar" \in features THEN With(OidcRoutes, {"auth_config"}) ELSE NoRoutes})

AccountRoutes ==
    With(Limited({"update_password", "start_email_change"}),
         {"update_account", "confirm_email_change"}
           \union IF "avatar" \in features THEN {"update_avatar"} ELSE {})

InfoRoutes ==
    With(NoRoutes, {"info"} \union IF "avatar" \in features THEN {"avatar"} ELSE {})

ManagementRoutes ==
    With(NoRoutes,
         {"list_users", "create_user", "delete_user", "edit_user", "user_info", "mail_active",
          "list_groups_simple", "reset_user_password", "change_user_email",
          "convert_oidc_user"}
           \union IF "avatar" \in features THEN {"reset_user_avatar"} ELSE {})

UserRoutes == Merge({AccountRoutes, InfoRoutes, ManagementRoutes})

MailRoutes == Limited({"send_reset_link", "reset_password", "test_mail"})

GroupRoutes ==
    With(NoRoutes, {"list_groups", "create_group", "delete_group", "edit_group", "group_info",
                    "list_users_simple"})

SettingsRoutes ==
    With(NoRoutes, {"get_user_settings", "save_user_settings", "get_mail_settings",
                    "save_mail_settings"})

SetupRoutes ==
    With(NoRoutes, {"complete_setup", "is_setup", "get_oidc_settings", "init_oidc"})

WebsocketRoutes == With(NoRoutes, {"update"})

Api ==
    Merge({AuthRoutes, UserRoutes, MailRoutes, GroupRoutes, SettingsRoutes, SetupRoutes,
           WebsocketRoutes})

(* Which handlers and middlewares extract an extension.  JwtAuth asks for  *)
(* the connection and the JwtState, so that those who do without are told. *)
Extractors ==
    [PasswordState |-> {"key", "authenticate", "update_password", "create_user",
        "reset_user_password", "convert_oidc_user", "reset_password", "complete_setup"},
     JwtState |-> DOMAIN Api \ {"key", "auth_config", "send_reset_link", "reset_password",
        "is_setup", "get_oidc_settings", "init_oidc"},
     Connection |-> DOMAIN Api \ {"key", "oidc_url"},
     JwtInvalidState |-> {"logout"},
     OidcState |-> {"auth_config", "oidc_url", "oidc_callback", "save_user_settings", "init_oidc"},
     UserSettings |-> {"auth_config"},
     Mailer |-> {"auth_config", "send_reset_link", "test_mail", "save_mail_settings",
        "start_email_change", "mail_active", "create_user"},
     ResetPasswordState |-> {"send_reset_link", "reset_password"},
     EmailChangeState |-> {"start_email_change", "confirm_email_change"},
     SiteConfig |-> {"oidc_url", "oidc_callback", "send_reset_link", "test_mail",
        "start_email_change", "create_user", "get_oidc_settings"},
     UpdateState |-> {"update"},
     Updater |-> {"oidc_callback", "save_user_settings", "save_mail_settings", "update_account",
        "update_avatar", "change_user_email", "confirm_email_change", "create_user",
        "delete_user", "edit_user", "reset_user_avatar", "convert_oidc_user", "create_group",
        "delete_group", "edit_group"},
     ConnectInfo   |-> {"limiter"},
     MetricsHandle |-> {"metrics"},
     MetricsPrefix |-> {"request_metrics"},
     ProxyState    |-> {"frontend"},
     OpenApi       |-> {"api_spec"}]

-----------------------------------------------------------------------------
(* The parts *)

LayersInit ==
    /\ features \in SUBSET AllFeatures
    /\ routes = NoRoutes /\ side = NoRoutes
    /\ built = 0

Part(n) == built = n - 1 /\ built' = n /\ UNCHANGED features

(* The route of the metrics: on a server of its own, if it has a port.     *)
ApiRoutes ==
    /\ Part(1)
    /\ routes' = With(Api, {"health_check"}
                          \union IF "metrics" \in features /\ "metrics_port" \notin features
                                   THEN {"metrics"} ELSE {})
    /\ side' = With(side, IF {"metrics", "metrics_port"} \subseteq features
                            THEN {"metrics"} ELSE {})

Cors ==
    /\ Part(2)
    /\ routes' = Lay(routes, <<"cors">>)
    /\ UNCHANGED side

(* Mutant: the layers the other way round. *)
LoggingLayers_TraceFirst == <<"trace", "uri">>

LoggingLayers == <<"uri", "trace">>

(* on_response unwraps the uri that uri_middleware leaves in the response. *)
Logging ==
    /\ Part(3)
    /\ routes' = Lay(routes, If("logging", LoggingLayers))
    /\ UNCHANGED side

(* Not logged: it comes after.                                             *)
Frontend ==
    /\ Part(4)
    /\ routes' = IF "frontend" \in features
                   THEN Lay(With(routes, {"frontend"}), <<"ProxyState", "FrontendState">>)
                   ELSE routes
    /\ UNCHANGED side

MetricsMiddleware == <<"request_metrics", "MetricsPrefix">>

Metrics ==
    /\ Part(5)
    /\ IF "metrics_port" \in features
         THEN /\ routes' = Lay(routes, If("metrics", MetricsMiddleware))
              /\ side' = Lay(side, <<"MetricsHandle">>)
         ELSE /\ routes' = Lay(routes, If("metrics", MetricsMiddleware \o <<"MetricsHandle">>))
              /\ UNCHANGED side

SettingsLayers ==
    /\ Part(6)
    /\ routes' = Lay(routes, <<"SiteConfig">> \o If("oidc", <<"UserSettings">>)
                                              \o If("mail", <<"MailSettings">>))
    /\ UNCHANGED side

(* auth::state, mail::state, user::state, websocket::state and the         *)
(* connection, then the configuration.                                     *)
States ==
    /\ Part(7)
    /\ routes' = Lay(routes, <<"PasswordState", "JwtState", "JwtInvalidState">>
                               \o If("avatar", <<"OidcState">>)
                               \o <<"Mailer", "ResetPasswordState", "EmailChangeState",
                                    "UpdateState", "Updater", "Connection", "Config">>)
    /\ UNCHANGED side

Docs ==
    /\ Part(8)
    /\ routes' = Lay(With(routes, {"swagger", "api_spec"}), <<"OpenApi">>)
    /\ UNCHANGED side

(* run_app, or run_app_connect_info, which tells the address of the peer.  *)
Serve ==
    /\ Part(9)
    /\ routes' = Lay(routes, If("connect_info", <<"ConnectInfo">>))
    /\ UNCHANGED side

LayersNext ==
    \/ ApiRoutes \/ Cors \/ Logging \/ Frontend \/ Metrics \/ SettingsLayers \/ States \/ Docs
    \/ Serve

LayersSpec == LayersInit /\ [][LayersNext]_layersVars

-----------------------------------------------------------------------------
(* Properties *)

LayersTypeOK ==
    /\ features \subseteq AllFeatures
    /\ IF built = 0
         THEN routes = NoRoutes /\ side = NoRoutes
         ELSE DOMAIN routes \subseteq
                DOMAIN Api \union {"health_check", "metrics", "frontend", "swagger", "api_spec"}
    /\ DOMAIN side \subseteq {"metrics"}
    /\ built \in 0 .. 9

(* The extensions that a handler or a middleware does not find around it.  *)
Lacking(parties, part, around) ==
    {x \in DOMAIN parties : part \in parties[x] /\ \A i \in DOMAIN around : around[i] # x}

(* The uri that the log unwraps: a middleware inside of it leaves it in    *)
(* every response.                                                         *)
Unlogged(app) ==
    IF \E q \in DOMAIN app : \E i \in DOMAIN app[q] :
         app[q][i] = "trace" /\ \A j \in 1 .. i - 1 : app[q][j] # "uri"
      THEN {"uri"} ELSE {}

(* What some request to the application misses. *)
Missing(app) ==
    LET parties == Extractors
        handlers == {Lacking(parties, q, app[q]) : q \in DOMAIN app}
        middlewares(q) ==
          {Lacking(parties, app[q][i], SubSeq(app[q], i + 1, Len(app[q]))) : i \in DOMAIN app[q]}
    IN  Unlogged(app) \union UNION (handlers \union UNION {middlewares(q) : q \in DOMAIN app})

(* Whatever the features and the settings: when the application is built,  *)
(* every handler and middleware finds around it what it extracts.  The     *)
(* exceptions: without "avatar" nobody lays the OidcState, though two      *)
(* handlers of the settings and the setup extract it; the public           *)
(* configuration of auth wants the OIDC settings of an application that    *)
(* need not have any; and a limiter wants to know its peer, unless a proxy *)
(* in front tells.                                                         *)
ExtensionsFound ==
    built = 9 =>
      /\ Missing(side) = {}
      /\ Missing(routes) \subseteq
           {x \in {"OidcState", "UserSettings", "ConnectInfo"} :
              \/ x = "OidcState" /\ "avatar" \notin features
              \/ x = "UserSettings" /\ "oidc" \notin features
              \/ x = "ConnectInfo" /\ "connect_info" \notin features}
=============================================================================
