----------------------------- MODULE MCRestore -----------------------------
(* A small instance of Restore: a live database and a backup that differ    *)
(* in one row, one session and one file, and requests of the API.                *)
EXTENDS Restore

OneUrl == {<<"api", "articles">>}

MCLiveDb == [rows |-> {"live"}, sessions |-> {"liveSession"},
             maintenance |-> "off", migrated |-> TRUE]
MCArchiveDb == [rows |-> {"archived"}, sessions |-> {"archivedSession"},
                maintenance |-> "on", migrated |-> FALSE]
=============================================================================
