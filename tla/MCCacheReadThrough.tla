------------------------- MODULE MCCacheReadThrough -------------------------
EXTENDS CacheReadThrough

Ask(kind, from, to) == [kind |-> kind, from |-> from, to |-> to]

MCWanted == {Ask("read", "s", "s"), Ask("read", "f", "f"),
             Ask("write", "s", "s"), Ask("unlink", "s", "s"), Ask("rename", "f", "s")}

(* States that no property speaks of are not explored further.                *)
Unharmed == mishap \subseteq {"split"} \/ mishap \subseteq {"expired"}

=============================================================================
