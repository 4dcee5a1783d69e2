------------------------------ MODULE CmdTraits ------------------------------
(***************************************************************************)
(* The command types and the traits that decide where client sends a query. *)
(* A command is its struct.  Left out are those of cmd::cluster whose name  *)
(* is a vector: no constructor of query accepts it.                         *)
(***************************************************************************)

ConnCommands == {"readonly", "readwrite", "auth"}
GeoCommands  == {"geoadd", "geohash", "geopos", "georadius", "georadiusbymember"}
HashReads    == {"hexists", "hget", "hgetall", "hkeys", "hlen", "hmget", "hscan", "hstrlen", "hvals"}
HashWrites   == {"hdel", "hincrby", "hincrbyfloat", "hmset", "hset", "hsetnx"}
HllCommands  == {"pfadd", "pfcount", "pfmerge"}
KeyReads     == {"dump", "exists", "keys", "object", "pttl", "randomkey", "ttl", "type"}
KeyOthers    == {"del", "expire", "expireat", "migrate", "move", "persist", "pexpire", "pexpireat",
                 "rename", "renamenx", "restore", "scan", "sort", "wait"}
RestCommands == {"append", "bgrewriteaof", "custom", "set", "incr", "get", "blpop"}

Command == ConnCommands \cup GeoCommands \cup HashReads \cup HashWrites \cup HllCommands
             \cup KeyReads \cup KeyOthers \cup RestCommands

(* only_master_t; the default is true. *)
only_master(c) == c \notin HashReads \cup KeyReads \cup {"pfcount", "get"}

(* What changes the data of a server, by the documentation of Redis.  The    *)
(* name of a custom command is a parameter, and whether it writes is for the *)
(* application to know.                                                    *)
Writes == {"geoadd", "georadius", "georadiusbymember", "pfadd", "pfmerge",
           "append", "set", "incr", "blpop"}
            \cup HashWrites \cup (KeyOthers \ {"scan", "wait"})
=============================================================================
