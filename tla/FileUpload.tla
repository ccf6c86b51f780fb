----------------------------- MODULE FileUpload -----------------------------
(* file-upload: upload.py stores an object in the inbox, and worker.py      *)
(* reads the version the event names and writes its report.                 *)
EXTENDS DurableFunctions

(* A direct upload, or one through a signed URL: a new version either way.  *)
Upload(path) == Script("upload", Request, <<Step("upload", <<Put(path, Newer)>>)>>, "stop")

(* Mutant: what is there now is read, without if_match.                     *)
AnalyzeNewest(path, etag) == Step("analyze", <<Get(path)>>)

(* if_match pins the version that caused the event.                         *)
Analyze(path, etag) == Step("analyze", <<Match(path, etag)>>)
WriteReport(report) == Step("write-report", <<Put(report, After("analyze"))>>)

ProcessUpload(path, report, etag) ==
  Function("process-upload", OnObject(path, etag), <<Analyze(path, etag), WriteReport(report)>>)

(* A run analyses the bytes of the version that caused it or nothing: a     *)
(* report names a version some started run was asked to report, and a run   *)
(* whose version is gone when it reads ends without one.                    *)
ReportsArePinned ==
  \A r \in Runs : job[r].id = "process-upload" =>
    LET etag == job[r].trigger[3]
        report == cell[job[r].steps[2].does[1].on] IN
      /\ Did(r, "analyze") => Memo(r, "analyze") = etag
      /\ run[r].mode = "completed" => report # 0
      /\ report # 0 => \E q \in Runs : /\ job[q].id = "process-upload" /\ run[q].mode # "waiting"
                                       /\ report = job[q].trigger[3]
=============================================================================
