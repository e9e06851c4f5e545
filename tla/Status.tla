------------------------------- MODULE Status -------------------------------
(* What `shr status` reports about the transfers of a node.                *)
EXTENDS Transfer, FiniteSetsExt

\* The list "Active/Pending Transfers".
active_transfers(db) == {x \in Xfer : db[x].state \in {"pending", "in_progress", "paused"}}

\* "Storage used": the transferred bytes of the files received completely.
storage_used_bytes(db) ==
    MapThenSumSet(LAMBDA x : db[x].got, {x \in Xfer : db[x].state = "completed"})

\* A transfer whose send_file has returned is not listed as active on the
\* sending node: every way out of send_file has recorded the outcome.
ListedIsRunning ==
    \A x \in Xfer : pc[x] \in {"failed", "completed"} => x \notin active_transfers(sdb)

\* The size and the hash of the source file were taken of the same contents.
Described(x) == checksum[x].hex /\ file_sz[x] = Len(checksum[x].of)

\* The storage the receiving node reports is what its complete files take up
\* on its disk, whatever rows were dropped, cancelled or cleaned up before, as
\* long as no source file has changed between the reads of its size and of its
\* hash: then the row of a complete file holds another size for good.
StorageIsReal ==
    (\A x \in Xfer : Alone(x) /\ (rdb[x].state = "completed" => Described(x))) =>
        storage_used_bytes(rdb) =
            MapThenSumSet(LAMBDA x : Len(file[FileName[x]].data),
                          {x \in Xfer : rdb[x].state = "completed"})
=============================================================================
