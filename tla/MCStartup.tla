------------------------------ MODULE MCStartup ------------------------------
(* An instance of Startup: a server, the newer build that replaces it, and a  *)
(* --setup of the newer build, over the files 0001 to 0003.                   *)
EXTENDS Startup

CONSTANTS old, new, cli

Files == <<"0001_init", "0002_users", "0003_invites">>
Bodies == "0001_init"    :> <<"--", "--", "app_meta", ";">> @@
          "0002_users"   :> <<"--", "users", ";">> @@
          "0003_invites" :> <<"--", "invites", ";", "idx_invites_redeemed_at", ";">>
Builds == old :> 1 @@ new :> 3 @@ cli :> 3

Dev == [PORT |-> Unset, APP_ENV |-> Unset, DB_DRIVER |-> Unset,
        DATABASE_URL |-> Unset, SECRET_KEY |-> Unset]
Production == [Dev EXCEPT !.APP_ENV = "production",
                          !.SECRET_KEY = "base64 of 32 bytes"]

\* Deployments that start, with either driver, and for each check of Load and
\* Validate one that it refuses.
Environments ==
    {Dev,
     [Production EXCEPT !.DB_DRIVER = "POSTGRES", !.DATABASE_URL = "postgres://"],
     [Production EXCEPT !.SECRET_KEY = "change-me-generate-a-real-key"]} \cup
    {[Dev EXCEPT !.PORT = NotANumber], [Dev EXCEPT !.PORT = 0],
     [Dev EXCEPT !.PORT = 65536], [Dev EXCEPT !.DB_DRIVER = "mysql"],
     [Dev EXCEPT !.DATABASE_URL = Empty], [Dev EXCEPT !.APP_ENV = "Production"],
     [Production EXCEPT !.SECRET_KEY = Empty]}
=============================================================================
