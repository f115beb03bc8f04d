----------------------------- MODULE Documents -----------------------------
(* What Mongoose does with a loaded document, as far as the services of this
   backend depend on it.  `doc.save()` sends an update that $sets only the
   paths whose value differs from the value that was loaded; a path assigned
   the value it already had is not sent.  Two handlers that loaded the same
   document therefore never overwrite each other's untouched fields, but each
   overwrites, without noticing, the fields it did change. *)

(* The value a path has in the collection after a save: `loaded` is what the
   handler read, `assigned` what it holds when it saves, `stored` what the
   collection holds at that moment. *)
Written(assigned, loaded, stored) == IF assigned # loaded THEN assigned ELSE stored

(* The empty value of a nullable path. *)
Null == "null"
=============================================================================
