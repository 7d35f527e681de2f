-------------------------------- MODULE Orm --------------------------------
(* How SQLAlchemy's unit of work, which every handler writes through, turns *)
(* an object changed in memory into an UPDATE.  The library is not part of  *)
(* the repository; app/database.py configures it (no version counter, no    *)
(* explicit locking) and the handlers rely on what follows.                 *)

(* An UPDATE names only the columns whose value in memory differs from the  *)
(* value last loaded or flushed.  The others keep what the row holds by     *)
(* then, which another transaction may have changed since it was loaded.    *)
Written(row, loaded, mem) == IF mem = loaded THEN row ELSE mem
=============================================================================
