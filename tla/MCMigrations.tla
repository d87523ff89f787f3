---------------------------- MODULE MCMigrations ----------------------------
\* Two releases of a service with a schema of its own, and another service.
EXTENDS Migrations

MCHome(p) == IF p = "other" THEN "b" ELSE "a"
MCFiles(p) == CASE p = "old" -> 1..2 [] p = "new" -> 1..3 [] OTHER -> {4, 5}
=============================================================================
